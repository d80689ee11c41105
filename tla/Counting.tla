------------------------------ MODULE Counting ------------------------------
(***************************************************************************)
(* How many elements of D a function maps into S: the number of threads at *)
(* a place, of slices in a state, of references held.                      *)
(***************************************************************************)
EXTENDS Integers, FiniteSets

Where(f, D, S) == {x \in D : f[x] \in S}

Count(f, D, S) == Cardinality(Where(f, D, S))
=============================================================================
