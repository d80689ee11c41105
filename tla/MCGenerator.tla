----------------------------- MODULE MCGenerator -----------------------------
(* Instance: two coroutines that await one another and a generator, called from *)
(* two threads of a free-threaded build with am_send.                         *)
EXTENDS GeneratorProperties, TLC

ExitOrStop == {"GeneratorExit", "StopIteration"}
Symmetry == Permutations(Thread) \cup Permutations(Coroutine) \cup Permutations(Gen \ Coroutine)
=============================================================================
