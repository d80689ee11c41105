------------------------- MODULE MCFunctionState -------------------------
(* Functions with statements nested two or three deep.  Once a way out has been   *)
(* overridden the properties about references say nothing more, and what the      *)
(* execution does then is not enumerated.                                     *)
EXTENDS FunctionState

NotOverridden == ~run.overridden
=============================================================================
