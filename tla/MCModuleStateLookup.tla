------------------------ MODULE MCModuleStateLookup ------------------------
(* Model checking of ModuleStateLookup.                                     *)
EXTENDS ModuleStateLookup, TLC

Symmetry == Permutations(Thread) \cup Permutations(Addr) \cup Permutations(Module)
=============================================================================
