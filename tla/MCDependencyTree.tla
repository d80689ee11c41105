-------------------------- MODULE MCDependencyTree --------------------------
(* Every cimport graph over Files, every sequence of questions.  A bound keeps *)
(* the instance small: only a file that both declares and finds the header may *)
(* cimport itself.                                                             *)
EXTENDS DependencyTree, TLC

Symmetry == Permutations(Files) \union Permutations(Exts)

FewSelfCimports ==
    \A f \in Files : f \in cimports[f] => declarer = f /\ finder = f
=============================================================================
