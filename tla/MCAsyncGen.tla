----------------------------- MODULE MCAsyncGen -----------------------------
(* Three awaitable objects at a time, freed and made again without end.        *)
EXTENDS AsyncGen, TLC

Symmetry == Permutations(Awaitable)
=============================================================================
