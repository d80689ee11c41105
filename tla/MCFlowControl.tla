--------------------------- MODULE MCFlowControl ---------------------------
(* Function bodies of up to four levels of nested statements.               *)
EXTENDS FlowControl

Leaf(kind) == [kind |-> kind]
If(P, Q) == {[kind |-> "if", then |-> p, else |-> q] : p \in P, q \in Q}
Loop(P, Q) ==
    {[kind |-> "while", reads |-> r, then |-> p, else |-> q] : p \in P, q \in Q, r \in BOOLEAN}
    \cup {[kind |-> "for", target |-> t, then |-> p, else |-> q] :
             p \in P, q \in Q, t \in {"assign", "other"}}
TryExcept(P, Q, R) ==
    {[kind |-> "tryexcept", then |-> p, handler |-> q, else |-> r] : p \in P, q \in Q, r \in R}
TryFinally(P, Q) == {[kind |-> "tryfinally", then |-> p, finally |-> q] : p \in P, q \in Q}

Assign == Leaf("assign")
Use == Leaf("use")
Leaves == {Leaf(k) : k \in {"assign", "use", "other", "return", "raise"}}
Del == {Leaf("del")}
Jumps == {Leaf("break"), Leaf("continue")}

One(S) == {<<s>> : s \in S}
Two(S) == One(S) \cup {<<Assign, s>> : s \in S}
Around(S) == UNION {{<<s, Assign>>, <<Assign, s>>, <<s, Use>>} : s \in S}

(* Compound statements whose bodies are in P, in a loop in Q, and whose other    *)
(* clauses are in R.                                                        *)
Compound(P, Q, R) ==
    If(P, R \cup {<<>>}) \cup TryExcept(P, R, {<<>>, <<Use>>}) \cup TryFinally(P, R)
        \cup Loop(Q, {<<>>, <<Assign>>})

Small(L) == Compound(One(L), One(L \cup Jumps), One(L))
Simple(L) == Compound(Two(L), Two(L \cup Jumps), One(L))
Nested(L) == Compound(Around(Small(L)), Around(Small(L \cup Jumps)), One(L))

(* Jumps out of several finally clauses and of those in a loop in a try; what may    *)
(* raise after a del in a try.                                                 *)
Clauses == One({Assign, Use, Leaf("other")})
InFinally(P) == TryFinally(P, Clauses)
InLoop(S) == Loop(One(S), {<<>>})
Deep ==
    InFinally(One(InFinally(Around(InFinally(Two({Leaf("return")}))))))
        \cup InLoop(InFinally(Around(InFinally(Two(Jumps)))))
        \cup TryExcept(One(InLoop(TryFinally(One(Leaves), One(Jumps)))), One({Use}), {<<>>})
        \cup TryExcept({<<Leaf("del"), s>> : s \in Leaves}, One(Leaves), {<<>>})
        \cup TryFinally({<<Leaf("del"), s>> : s \in Leaves}, One(Leaves))

Bodies(S) == {<<s, Use>> : s \in S} \cup {<<Assign, s, Use>> : s \in S}
MCProgram == Bodies(Simple(Leaves \cup Del) \cup Nested(Leaves) \cup Deep)
MCDef == Seq(Nat)
=============================================================================
