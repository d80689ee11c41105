--------------------------- MODULE FunctionState ---------------------------
(***************************************************************************)
(* The code generator's FunctionState (Cython/Compiler/Code.py: temporaries *)
(* and labels) as the statements of Cython/Compiler/Nodes.py use it: for     *)
(* loops, try-except, try-finally, return, break, continue and raise.        *)
(*                                                                         *)
(* Code is generated from top to bottom, and "run" is one execution of it    *)
(* that goes along: it is at the place where code is being generated (Here),  *)
(* or on its way to a label that is put further down.  What it owns are the   *)
(* references in temporaries.  Code behind the generated place is not entered *)
(* again: the next iteration of a loop finds what the first one has found.    *)
(*                                                                         *)
(* A label is named by the depth of the statement that has made it.  The      *)
(* three variables of an exception are one temporary, the six of a finally    *)
(* clause too.                                                               *)
(***************************************************************************)
EXTENDS Integers, Sequences, FiniteSets

CONSTANTS Kind,       \* keys of the free lists: a type and whether references are managed
          Managed,    \* those whose references are released on return and error
          Plain,      \* Python objects that are not managed
          Nodes,      \* bound: the statements that programs are made of
          MaxTemps,   \* bound: temporaries of a function
          MaxScratch, \* bound: temporaries of an expression
          MaxDepth    \* bound: nesting of statements

ASSUME KindAssumption == Managed \subseteq Kind /\ Plain \in Kind \ Managed
ASSUME SizeAssumption == MaxTemps \in Nat /\ MaxScratch \in Nat /\ MaxDepth \in Nat

VARIABLES kind,       \* temps_allocated, a sequence of their kinds
          free,       \* temps_free
          labels,     \* the current error, return, break and continue label
          used,       \* labels_used
          excVars,    \* exc_vars: what "raise" raises again
          scratch,    \* temporaries of the expression that is being evaluated
          frames,     \* the statements around the place of generation, inner ones last
          finished,   \* the function is complete, or cannot be compiled
          run         \* the execution

temps == <<kind, free>>
codeVars == <<kind, free, labels, used, excVars, scratch, frames, finished, run>>

Temps == 1..Len(kind)
InUse == Temps \ free                                       \* temps_in_use
Counted(T) == {t \in T : kind[t] \in Managed}
(* Mutant: an exception is taken to leave nothing in the temporaries of its expression. *)
NothingFree == {}
FreeManaged == Counted(free)                                 \* all_free_managed_temps

Depth == Len(frames)
Top == frames[Depth]
Ways == {"error", "return", "break", "continue"}
NoLabel == <<0, "no", "label">>
FunctionLabel(way) == <<0, "function", way>>

In(node, stage) == frames # <<>> /\ Top.node = node /\ Top.stage = stage
Between == In("except", "handlers") \/ In("except", "handled") \/ In("finally", "ways")
Statement == scratch = {} /\ ~finished /\ ~Between

-----------------------------------------------------------------------------
(* What generated code does, wherever the execution gets to it.              *)
Here == <<0, "is", "here">>
Done == <<0, "is", "done">>

Reach(r, label) == IF r.at = label THEN [r EXCEPT !.at = Here] ELSE r

(* A new reference; a reference that must be there is released or given away;  *)
(* one that may be there is released.                                        *)
Take(r, T) ==
    IF r.at # Here THEN r
    ELSE [r EXCEPT !.holds = @ \cup T, !.fault = @ \/ T \cap r.holds # {}]
Clear(r, T) ==
    IF r.at # Here THEN r
    ELSE [r EXCEPT !.holds = @ \ T, !.fault = @ \/ ~ T \subseteq r.holds]
XClear(r, T) == IF r.at # Here THEN r ELSE [r EXCEPT !.holds = @ \ T]

(* A return, or an exception that is raised again, releases what the statements *)
(* around it go on to take for held, until the temporaries T are released.     *)
Strip(r, T) == IF r.at # Here THEN r ELSE [Clear(r, T) EXCEPT !.gone = @ \cup T]
Forget(r, T) == [r EXCEPT !.gone = @ \ T]

(* It is "overridden" when a finally clause it runs into is left by another way,  *)
(* when an except clause in the same clause ends it, or when a bare raise in that   *)
(* clause finds the exception released.                                       *)
Copy(c, stage) == frames[c].node = "finally" /\ frames[c].stage = stage
Overrides(r, label, d) ==
    \E c \in 1..d : /\ label[1] <= c
                    /\ \/ Copy(c, "return")
                       \/ Copy(c, "except") /\ r.gone # {} /\ label[3] \in {"break", "continue"}
UnderWay(t, d) ==
    \E c \in 1..d : /\ Copy(c, "return") \/ Copy(c, "except")
                    /\ \E i \in 1..(c - 1) : t \in frames[i].temps
Override(r, overriding) ==
    IF r.at = Here /\ overriding THEN [r EXCEPT !.overridden = TRUE] ELSE r
Catch(r) == Override(r, \E t \in r.gone : ~UnderWay(t, Depth))

Leave(r, label, d) ==
    IF r.at # Here THEN r
    ELSE [r EXCEPT !.at = label, !.overridden = @ \/ Overrides(r, label, d)]
JumpTo(r, label) == Leave(r, label, Depth)

-----------------------------------------------------------------------------
CodeInit ==
    /\ kind = <<>> /\ free = {}
    /\ labels = [w \in Ways |-> IF w \in {"error", "return"} THEN FunctionLabel(w) ELSE NoLabel]
    /\ used = {} /\ excVars = {} /\ scratch = {} /\ frames = <<>>
    /\ finished = FALSE
    /\ run = [at |-> Here, holds |-> {}, gone |-> {}, fault |-> FALSE, overridden |-> FALSE]

(* Mutant: a temporary stays on its free list.                                  *)
AllocateShared(t, k) ==
    \/ t \in free /\ kind[t] = k /\ UNCHANGED <<kind, free>>
    \/ /\ \A f \in free : kind[f] # k
       /\ t = Len(kind) + 1 /\ t <= MaxTemps
       /\ kind' = Append(kind, k)
       /\ UNCHANGED free
(* allocate_temp(): a temporary of this kind that has been released, or a new one. *)
AllocateTemp(t, k) ==
    \/ /\ t \in free /\ kind[t] = k
       /\ free' = free \ {t}
       /\ UNCHANGED kind
    \/ /\ \A f \in free : kind[f] # k
       /\ t = Len(kind) + 1 /\ t <= MaxTemps
       /\ kind' = Append(kind, k)
       /\ UNCHANGED free

ReleaseTemps(T) == free' = free \cup T /\ UNCHANGED kind

(* A statement begins, goes on to its next part, or ends.  Its labels are named  *)
(* by its depth, so those of an earlier one are not its own.                   *)
Begun(fs, node, T) ==
    /\ Len(fs) < MaxDepth /\ node \in Nodes
    /\ frames' = Append(fs, [node |-> node, stage |-> "body", temps |-> T, clean |-> {},
                             ways |-> {}, labels |-> labels, excVars |-> excVars])
Push(node, T) == Begun(frames, node, T)
Pop ==
    /\ frames' = SubSeq(frames, 1, Depth - 1)
    /\ labels' = Top.labels
    /\ excVars' = Top.excVars
Goes(f) == frames' = [frames EXCEPT ![Depth] = f]
Around(U) == {l \in U : l[1] < Depth}

(* all_new_labels() and new_loop_labels()                                     *)
NewLabels(old, group, d) ==
    [w \in Ways |-> IF old[w] = NoLabel THEN NoLabel ELSE <<d, group, w>>]
LoopLabels(group) ==
    [labels EXCEPT !["break"] = <<Depth + 1, group, "break">>,
                   !["continue"] = <<Depth + 1, group, "continue">>]

(* The interceptors: an execution that has come to a label releases T and goes on;  *)
(* for a label that is not used there is none.                                *)
Pass(r, label, T, target) == IF r.at = label THEN JumpTo(Clear(Reach(r, label), T), target) ELSE r
Intercept(r, label, T, target) == IF label \in used THEN Pass(r, label, T, target) ELSE r
XIntercept(r, label, T, target) ==
    IF r.at = label /\ label \in used THEN JumpTo(XClear(Reach(r, label), T), target) ELSE r
(* Mutant: a label that only an interceptor jumps to is not marked.                *)
UsedByNone(new, old) == {}
UsedBy(new, old) == {old[w] : w \in {w \in Ways : new[w] \in used}}

-----------------------------------------------------------------------------
(* Expressions.  A temporary gets the result, unless evaluation raises; it is    *)
(* disposed of, or its reference is moved, and it is released.                *)
Evaluate(t, k) ==
    /\ ~finished /\ ~In("finally", "ways")
    /\ Cardinality(scratch) < MaxScratch
    /\ AllocateTemp(t, k)
    /\ scratch' = scratch \cup {t}
    /\ used' = used \cup {labels["error"]}
    /\ run' \in {Take(run, IF k \in Managed THEN {t} ELSE {}), JumpTo(run, labels["error"])}
    /\ UNCHANGED <<labels, excVars, frames, finished>>

Dispose(t) ==
    /\ t \in scratch
    /\ ReleaseTemps({t})
    /\ scratch' = scratch \ {t}
    /\ run' = Clear(run, Counted({t}))
    /\ UNCHANGED <<labels, used, excVars, frames, finished>>

(* Statements that end what is around them.                                   *)
InLoop == \E i \in DOMAIN frames : frames[i].node = "for" /\ frames[i].stage = "body"

BreakOrContinue(way) ==
    /\ Statement /\ InLoop /\ labels[way] # NoLabel
    /\ run' = JumpTo(run, labels[way])
    /\ used' = used \cup {labels[way]}
    /\ UNCHANGED <<temps, labels, excVars, scratch, frames, finished>>

(* In an except clause there is a label outside any loop too, but the clause's       *)
(* interceptor has none to go on to and writes "goto None": the C compiler refuses    *)
(* the function, of which there is no execution.                               *)
NoRun == [at |-> Done, holds |-> {}, gone |-> {}, fault |-> FALSE, overridden |-> FALSE]
JumpNowhere(way) ==
    /\ Statement /\ ~InLoop /\ labels[way] # NoLabel
    /\ finished' = TRUE
    /\ run' = NoRun
    /\ UNCHANGED <<temps, labels, used, excVars, scratch, frames>>

(* temps_holding_reference() are cleared one and all.                          *)
Return ==
    /\ Statement
    /\ run' = JumpTo(Strip(Override(run, run.gone # {}), Counted(InUse)), labels["return"])
    /\ used' = used \cup {labels["return"]}
    /\ UNCHANGED <<temps, labels, excVars, scratch, frames, finished>>

(* "raise" in an except or finally clause gives the exception back.             *)
Reraise ==
    /\ Statement /\ excVars # {}
    /\ run' = JumpTo(Strip(Override(run, excVars \cap run.gone # {}), excVars), labels["error"])
    /\ used' = used \cup {labels["error"]}
    /\ UNCHANGED <<temps, labels, excVars, scratch, frames, finished>>

-----------------------------------------------------------------------------
(* for loops: the iterator lives in a temporary until the loop is left.  The     *)
(* loop may have no iteration, or none any more; asking for the next may raise. *)
ForBegin(t, k) ==
    /\ Statement /\ k \in Managed
    /\ AllocateTemp(t, k)
    /\ Push("for", {t})
    /\ labels' = LoopLabels("loop")
    /\ used' = used \cup {labels["error"]}
    /\ run' \in {Take(run, {t}), JumpTo(Take(run, {t}), <<Depth + 1, "for", "exhausted">>),
                 JumpTo(run, labels["error"])}
    /\ UNCHANGED <<excVars, scratch, finished>>

ForElse ==
    LET iterator == Top.temps
        again == Reach(Reach(run, labels["continue"]), <<Depth, "for", "exhausted">>)
        ended(r) == JumpTo(Clear(r, iterator), <<Depth, "for", "else">>)
        left(r) == Intercept(r, labels["break"], iterator, <<Depth, "for", "end">>)
    IN /\ Statement /\ In("for", "body")
       /\ ReleaseTemps(iterator)
       /\ Goes([Top EXCEPT !.stage = "else", !.temps = {}])
       /\ labels' = Top.labels
       /\ used' = used \cup {labels["error"]}
       /\ \E r \in {again, JumpTo(again, labels["error"])} :
             run' = Forget(Reach(left(ended(r)), <<Depth, "for", "else">>), iterator)
       /\ UNCHANGED <<excVars, scratch, finished>>

ForEnd ==
    /\ Statement /\ In("for", "else")
    /\ Pop
    /\ used' = Around(used)
    /\ run' = Reach(run, <<Depth, "for", "end">>)
    /\ UNCHANGED <<temps, scratch, finished>>

-----------------------------------------------------------------------------
(* try-except.  What the exceptions of the caller were is kept in temporaries     *)
(* (a try whose body cannot raise has no handlers; it is left out).            *)
TryBegin(t) ==
    /\ Statement
    /\ AllocateTemp(t, Plain)
    /\ Push("except", {t})
    /\ labels' = NewLabels(labels, "try", Depth + 1)
    /\ run' = Take(run, {t})
    /\ UNCHANGED <<used, excVars, scratch, finished>>

TryElse ==
    /\ Statement /\ In("except", "body")
    /\ labels["error"] \in used
    /\ Goes([Top EXCEPT !.stage = "else", !.clean = FreeManaged])
    /\ labels' = [labels EXCEPT !["error"] = <<Depth, "except", "error">>,
                                !["return"] = <<Depth, "except", "return">>]
    /\ UNCHANGED <<temps, used, excVars, scratch, finished, run>>

TryHandlers ==
    LET normal == JumpTo(Clear(run, Top.temps), <<Depth, "try", "end">>)
    IN /\ Statement /\ In("except", "else")
       /\ Goes([Top EXCEPT !.stage = "handlers"])
       /\ run' = XClear(Reach(normal, <<Depth, "try", "error">>), Top.clean)
       /\ UNCHANGED <<temps, labels, used, excVars, scratch, finished>>

(* An except clause, which matches or not; its exception is in managed temporaries. *)
ClauseBegin(t, k) ==
    /\ scratch = {} /\ ~finished /\ k \in Managed
    /\ In("except", "handlers") \/ In("except", "handled")
    /\ AllocateTemp(t, k)
    /\ Begun([frames EXCEPT ![Depth].stage = "handled"], "clause", {t})
    /\ labels' = LoopLabels("clause")
    /\ excVars' = {t}
    /\ used' = used \cup {labels["error"]}
    /\ run' \in {Take(Catch(run), {t}), JumpTo(run, labels["error"]),
                 JumpTo(run, <<Depth + 1, "clause", "no match">>)}
    /\ UNCHANGED <<scratch, finished>>

ClauseEnd ==
    LET handled == JumpTo(XClear(run, Top.temps), <<Depth - 1, "try", "handled">>)
        out(r, way) == Intercept(r, labels[way], Top.temps, Top.labels[way])
    IN /\ Statement /\ In("clause", "body")
       /\ ReleaseTemps(Top.temps)
       /\ Pop
       /\ used' = Around(used \cup UsedBy(labels, Top.labels))
       /\ run' = Forget(Reach(out(out(handled, "continue"), "break"),
                              <<Depth, "clause", "no match">>), Top.temps)
       /\ UNCHANGED <<scratch, finished>>

TryEnd ==
    LET old == Top.labels
        raised == <<Depth, "except", "error">>
        unmatched == Pass(JumpTo(run, raised), raised, Top.temps, old["error"])
        out(r, group, way) == Intercept(r, <<Depth, group, way>>, Top.temps, old[way])
        left == out(out(out(out(unmatched, "try", "break"), "try", "continue"),
                    "try", "return"), "except", "return")
    IN /\ scratch = {} /\ ~finished /\ In("except", "handled")
       /\ ReleaseTemps(Top.temps)
       /\ Pop
       /\ used' = Around(used \cup {old["error"]}
                              \cup {old[w] : w \in {w \in Ways : <<Depth, "try", w>> \in used
                                                              \/ <<Depth, "except", w>> \in used}})
       /\ run' = Forget(Reach(Clear(Reach(left, <<Depth, "try", "handled">>), Top.temps),
                              <<Depth, "try", "end">>), Top.temps)
       /\ UNCHANGED <<scratch, finished>>

-----------------------------------------------------------------------------
(* try-finally.  The clause is generated once for every way out of the body.     *)
FinallyBegin ==
    /\ Statement
    /\ Push("finally", {})
    /\ labels' = NewLabels(labels, "finally", Depth + 1)
    /\ UNCHANGED <<temps, used, excVars, scratch, finished, run>>

FinallyNormal ==
    /\ Statement /\ In("finally", "body")
    /\ Goes([Top EXCEPT !.stage = "normal", !.clean = FreeManaged,
                        !.ways = {w \in Ways : labels[w] \in used}])
    /\ labels' = Top.labels
    /\ UNCHANGED <<temps, used, excVars, scratch, finished, run>>

FinallyNormalEnd ==
    /\ Statement /\ In("finally", "normal")
    /\ Goes([Top EXCEPT !.stage = "ways"])
    /\ run' = JumpTo(run, <<Depth, "finally", "catch">>)
    /\ UNCHANGED <<temps, labels, used, excVars, scratch, finished>>

(* The copy for exceptions: put_error_catcher() ... put_error_uncatcher(), and    *)
(* put_error_cleaner() for the ways out of the clause itself.                 *)
FinallyExcept(t) ==
    /\ scratch = {} /\ ~finished /\ In("finally", "ways") /\ "error" \in Top.ways
    /\ AllocateTemp(t, Plain)
    /\ Goes([Top EXCEPT !.stage = "except", !.temps = {t}, !.ways = @ \ {"error"}])
    /\ labels' = NewLabels(labels, "clause of finally", Depth)
    /\ excVars' = {t}
    /\ run' = Take(XClear(Reach(run, <<Depth, "finally", "error">>), Top.clean), {t})
    /\ UNCHANGED <<used, scratch, finished>>

FinallyExceptEnd ==
    LET old == Top.labels
        raised == JumpTo(Clear(run, Top.temps), old["error"])
        out(r, way) == XIntercept(r, labels[way], Top.temps, old[way])
        left == out(out(out(out(raised, "continue"), "break"), "return"), "error")
    IN /\ Statement /\ In("finally", "except")
       /\ ReleaseTemps(Top.temps)
       /\ Goes([Top EXCEPT !.stage = "ways", !.temps = {}])
       /\ labels' = old
       /\ excVars' = Top.excVars
       /\ used' = used \cup UsedBy(labels, old) \cup {old["error"]}
       /\ run' = Forget(left, Top.temps)
       /\ UNCHANGED <<scratch, finished>>

(* The copies for return, break and continue; the value of the return is kept.    *)
FinallyWay(way, T) ==
    /\ scratch = {} /\ ~finished /\ In("finally", "ways") /\ way \in Top.ways \ {"error"}
    /\ IF way = "return" THEN \E t \in T : AllocateTemp(t, Plain) /\ T = {t}
       ELSE T = {} /\ UNCHANGED temps
    /\ Goes([Top EXCEPT !.stage = way, !.temps = T, !.ways = @ \ {way}])
    /\ run' = Take(Reach(run, <<Depth, "finally", way>>), T)
    /\ UNCHANGED <<labels, used, excVars, scratch, finished>>

FinallyWayEnd(way) ==
    /\ Statement /\ In("finally", way)
    /\ ReleaseTemps(Top.temps)
    /\ Goes([Top EXCEPT !.stage = "ways", !.temps = {}])
    /\ used' = used \cup {labels[way]}
    /\ run' = Leave(Clear(run, Top.temps), labels[way], Depth - 1)
    /\ UNCHANGED <<labels, excVars, scratch, finished>>

FinallyEnd ==
    /\ scratch = {} /\ ~finished /\ In("finally", "ways") /\ Top.ways = {}
    /\ Pop
    /\ used' = Around(used)
    /\ run' = Reach(run, <<Depth, "finally", "catch">>)
    /\ UNCHANGED <<temps, scratch, finished>>

(* The end of a function: the error label, where every managed temporary is      *)
(* released, and the return label.                                            *)
FunctionEnd ==
    LET returned == JumpTo(run, labels["return"])
        failed == XIntercept(returned, labels["error"], Counted(Temps), labels["return"])
    IN /\ Statement /\ frames = <<>>
       /\ finished' = TRUE
       /\ run' = JumpTo(Reach(failed, labels["return"]), Done)
       /\ UNCHANGED <<temps, labels, used, excVars, scratch, frames>>

-----------------------------------------------------------------------------
Jump == \/ \E way \in {"break", "continue"} : BreakOrContinue(way) \/ JumpNowhere(way)
        \/ Return
        \/ Reraise
Expression ==
    \E t \in 1..MaxTemps :
       \/ \E k \in Kind : Evaluate(t, k)
       \/ Dispose(t)
Loop == (\E t \in 1..MaxTemps, k \in Kind : ForBegin(t, k)) \/ ForElse \/ ForEnd
TryExcept ==
    \/ \E t \in 1..MaxTemps : TryBegin(t) \/ \E k \in Kind : ClauseBegin(t, k)
    \/ TryElse \/ TryHandlers \/ ClauseEnd \/ TryEnd
TryFinally ==
    \/ \E t \in 1..MaxTemps : FinallyExcept(t)
    \/ \E way \in Ways \ {"error"} :
          (\E T \in {{}} \cup {{t} : t \in 1..MaxTemps} : FinallyWay(way, T)) \/ FinallyWayEnd(way)
    \/ FinallyBegin \/ FinallyNormal \/ FinallyNormalEnd \/ FinallyExceptEnd \/ FinallyEnd

CodeNext == Expression \/ Jump \/ Loop \/ TryExcept \/ TryFinally \/ FunctionEnd
CodeSpec == CodeInit /\ [][CodeNext]_codeVars

(* The types.                                                                 *)
CodeTypeOK ==
    /\ kind \in Seq(Kind) /\ free \subseteq Temps /\ scratch \subseteq Temps
    /\ labels \in [Ways -> Nat \X STRING \X STRING] /\ excVars \subseteq Temps
    /\ finished \in BOOLEAN
    /\ \A i \in DOMAIN frames : frames[i].temps \subseteq Temps /\ frames[i].ways \subseteq Ways
    /\ run.holds \subseteq Temps /\ run.gone \subseteq Temps

-----------------------------------------------------------------------------
(* The temporaries of the statements around, to depth d.                      *)
Owned(d) == {t \in Temps : \E i \in 1..d : t \in frames[i].temps}

(* Every temporary that is in use belongs to one statement or to the expression    *)
(* that is being evaluated, so none is handed out twice or left over at the end    *)
(* (allocate_temp(), release_temp(), validate_exit()).                        *)
TempsHaveOneOwner ==
    /\ InUse = scratch \cup Owned(Depth)
    /\ \A i \in 1..Depth : /\ frames[i].temps \cap scratch = {}
                           /\ \A j \in 1..(i - 1) : frames[i].temps \cap frames[j].temps = {}

(* What the generator takes for a reference in a temporary is one, at every place    *)
(* that the execution gets to by any way through statements, interceptors and copies *)
(* of finally clauses: none is released that is not there, none is overwritten.       *)
(* Only what a return has released, whose way through a finally clause is not         *)
(* complete, is not there; what is done to references once a finally clause or an      *)
(* except clause in it has overridden a return or a bare raise is another matter.     *)
HoldsWhatIsExpected ==
    ~run.overridden =>
       /\ ~run.fault
       /\ run.at = Here /\ ~Between =>
             LET live == Counted(scratch) \cup Owned(Depth)
             IN /\ run.holds \subseteq live
                /\ \A t \in live \ run.holds : UnderWay(t, Depth)

(* A way out that has been taken waits for a label that a statement around has still  *)
(* to put: no label is jumped to that an interceptor has taken for unused.           *)
NoJumpIsLost == run.at[1] <= Depth

(* Whatever way a function is left, the execution comes to its end, and has released   *)
(* every temporary, with the same exception.                                   *)
NothingLeaks == finished => run.at = Done /\ (~run.overridden => run.holds = {})
=============================================================================
