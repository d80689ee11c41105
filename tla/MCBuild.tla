------------------------------ MODULE MCBuild ------------------------------
(***************************************************************************)
(* Instances of Build: two processes with a tree each, in which module a      *)
(* cimports module b, together with a cache or one alone.          *)
(***************************************************************************)
EXTENDS Build, TLC

CONSTANTS p1, p2, a, b, x, y, broken

SomeDeps == a :> {a, b} @@ b :> {b}
SomeFacts == a :> {b} @@ b :> {}

(* One process and any texts, or two that share a cache and texts that compile.  *)
Modes ==
    [builders : {{p1}, {p2}}, modules : {{a, b}}, cache : {FALSE}, exclude : BOOLEAN,
     edited : {{a, b}}, texts : {{x, broken}}]
    \cup [builders : {{p1}, {p2}}, modules : {{a}}, cache : {TRUE}, exclude : {TRUE},
          edited : {{b}}, texts : {{x, y}}]
    \cup [builders : {{p1}, {p2}}, modules : {{a}}, cache : {TRUE}, exclude : BOOLEAN,
          edited : {{b}}, texts : {{x, broken}}]
    \cup [builders : {Proc}, modules : {{a}}, cache : {TRUE}, exclude : {FALSE},
          edited : {{b}}, texts : {{x, y}}]

Symmetric == Permutations(Proc)
=============================================================================
