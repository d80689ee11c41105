----------------------------- MODULE Statements -----------------------------
(***************************************************************************)
(* Function bodies and what Python does with them.  A body is a sequence of *)
(* statements, records with a field "kind"; a node is named by its path in  *)
(* the tree.  One variable, x, is followed: "assign", "del" and "use" are   *)
(* about x, "other" assigns another variable.  Every expression may raise.  *)
(***************************************************************************)
EXTENDS Integers, SequencesExt

Uninitialized == <<>>      \* the other definitions are the paths of assignments

Then == 1
Else == 2
Handler == 3
Finally == 4
FinallyExcept == 5

(* An execution marks what it carries along a way the visitor of the analysis does *)
(* not foresee, until x is bound again: a definition that the handlers around will not *)
(* expect, and one that is not expected where the execution is.                   *)
Unlinked == -1
Unforeseen == 0
MarkOf(v) == IF v # <<>> /\ Head(v) <= 0 THEN Head(v) ELSE 1
Unmarked(v) == IF MarkOf(v) = 1 THEN v ELSE Tail(v)
Marked(v, mark) == IF MarkOf(v) = Unforeseen THEN v ELSE <<mark>> \o Unmarked(v)
IsUnbound(v) == Unmarked(v) = Uninitialized

(* Exec gives the ways a statement that finds definition v of x can end, each  *)
(* with the definition it leaves and the number of finally clauses it has run    *)
(* on its way, and the references it makes, each with the definition it finds.  *)
Going(way, v) == <<way, v, 0>>
Ends(out) == [out |-> out, reads |-> {}]
Reading(path, v) == [out |-> {Going("raise", v)}, reads |-> {<<path, v>>}]
Union(rs) == [out |-> UNION {r.out : r \in rs}, reads |-> UNION {r.reads : r \in rs}]
Both(r, q) == Union({r, q})

(* r, followed by F wherever r ends in this way.                              *)
After(r, end, F(_)) ==
    LET such == {o \in r.out : o[1] = end}
    IN Both([r EXCEPT !.out = @ \ such], Union({F(o[2]) : o \in such}))

(* r, with the definitions of some of its ends marked.                         *)
Marking(r, mark, such(_)) ==
    [r EXCEPT !.out = {IF such(o) THEN [o EXCEPT ![2] = Marked(@, mark)] ELSE o : o \in @}]

RECURSIVE Exec(_, _, _), ExecFrom(_, _, _, _), Heads(_, _, _)

ExecFrom(stats, i, v, path) ==
    IF i > Len(stats) THEN Ends({Going("normal", v)})
    ELSE After(Exec(stats[i], v, Append(path, i)), "normal",
               LAMBDA w : ExecFrom(stats, i + 1, w, path))
ExecBody(stats, v, path) == ExecFrom(stats, 1, v, path)

ExecIf(s, v, path) ==
    Union({Ends({Going("raise", v)}), ExecBody(s.then, v, Append(path, Then)),
           ExecBody(s.else, v, Append(path, Else))})

(* One round of a loop, from the test or the call of the iterator on.          *)
Round(s, v, path) ==
    LET test == IF s.kind = "while" /\ s.reads THEN Reading(path, v) ELSE Ends({Going("raise", v)})
        w == IF s.kind = "for" /\ s.target = "assign" THEN path ELSE v
    IN IF s.kind = "while" /\ s.reads /\ IsUnbound(v) THEN test
       ELSE Union({test, Ends({Going("raise", w), Going("exhausted", v)}),
                   ExecBody(s.then, w, Append(path, Then))})

(* The definitions with which the head of a loop is reached.                   *)
Heads(s, V, path) ==
    LET out == UNION {Round(s, v, path).out : v \in V}
        more == V \cup {o[2] : o \in {o \in out : o[1] \in {"normal", "continue"}}}
    IN IF more = V THEN V ELSE Heads(s, more, path)

ExecLoop(s, v, path) ==
    LET rounds == Union({Round(s, w, path) : w \in Heads(s, {v}, path)})
        left == [rounds EXCEPT !.out = {o \in @ : o[1] \notin {"normal", "continue", "break"}}]
        breaks == {Going("normal", o[2]) : o \in {o \in rounds.out : o[1] = "break"}}
    IN Both(Ends(breaks),
            After(left, "exhausted", LAMBDA w : ExecBody(s.else, w, Append(path, Else))))

(* The block of a try statement entered with v.  No handler is reached from a del  *)
(* in it: not foreseen are exceptions that find x unbound and entered with x bound.  *)
ExecTry(s, v, path) ==
    Marking(ExecBody(s.then, v, Append(path, Then)), Unforeseen,
            LAMBDA o : /\ o[1] = "raise"
                       /\ MarkOf(o[2]) = Unlinked \/ (IsUnbound(o[2]) /\ ~IsUnbound(v)))

(* The exception may match the except clause or not.                          *)
ExecTryExcept(s, v, path) ==
    LET tried == ExecTry(s, v, path)
        raised == {o \in tried.out : o[1] = "raise"}
    IN Union({After([tried EXCEPT !.out = @ \ raised], "normal",
                    LAMBDA w : ExecBody(s.else, w, Append(path, Else))),
              Ends(raised)}
             \cup {ExecBody(s.handler, o[2], Append(path, Handler)) : o \in raised})

(* A return is followed through two finally clauses, a break or continue through one. *)
IsJump(o) == o[1] \in {"return", "break", "continue"}
IsLost(o) == IsJump(o) /\ o[3] >= IF o[1] = "return" THEN 2 ELSE 1

(* A finally clause run on the way o.  The handlers around are reached from the end  *)
(* of the copy for exceptions: not if the clause ends in a jump.                    *)
ExecFinally(s, o, path) ==
    LET lost == IsLost(o)
        clause == ExecBody(s.finally, IF lost THEN Marked(o[2], Unforeseen) ELSE o[2],
                           Append(path, IF o[1] = "raise" THEN FinallyExcept ELSE Finally))
        jumps == \E p \in clause.out : IsJump(p)
        left == Marking(clause, Unlinked, LAMBDA p : jumps /\ p[1] # "normal")
    IN After(left, "normal",
             LAMBDA w : Ends({<<o[1], IF lost THEN Marked(w, Unforeseen) ELSE w, o[3] + 1>>}))

(* The clause runs whichever way the body ends, which it then goes on with      *)
(* unless the clause ends in another way.                                     *)
ExecTryFinally(s, v, path) ==
    LET tried == ExecTry(s, v, path)
    IN Union({[tried EXCEPT !.out = {}]} \cup {ExecFinally(s, o, path) : o \in tried.out})

Exec(s, v, path) ==
    CASE s.kind = "assign" -> Ends({Going("normal", path), Going("raise", v)})
      [] s.kind = "other"  -> Ends({Going("normal", v), Going("raise", v)})
      [] s.kind = "use"    -> IF IsUnbound(v) THEN Reading(path, v)
                              ELSE Both(Reading(path, v), Ends({Going("normal", v)}))
      [] s.kind = "del"    -> IF IsUnbound(v) THEN Reading(path, v)
                              ELSE [Reading(path, v) EXCEPT !.out = {Going("normal", Uninitialized)}]
      [] s.kind = "if"     -> ExecIf(s, v, path)
      [] s.kind \in {"while", "for"} -> ExecLoop(s, v, path)
      [] s.kind = "tryexcept"  -> ExecTryExcept(s, v, path)
      [] s.kind = "tryfinally" -> ExecTryFinally(s, v, path)
      [] s.kind = "return" -> Ends({Going("return", v), Going("raise", v)})
      [] s.kind = "raise"  -> Ends({Going("raise", v)})
      [] OTHER             -> Ends({Going(s.kind, v)})

Run(stats) == ExecBody(stats, Uninitialized, <<>>)
=============================================================================
