-------------------------- MODULE MCParallelLoop --------------------------
(* A team of three threads with up to two iterations each.                      *)
EXTENDS ParallelLoop
=============================================================================
