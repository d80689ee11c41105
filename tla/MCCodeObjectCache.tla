------------------------- MODULE MCCodeObjectCache -------------------------
(* Lines on both sides of 0; a table that grows one entry at a time.          *)
EXTENDS CodeObjectCache

CONSTANTS t1

MCLines == {-3, 2, 5}
MCMIN == -100

(* Only t1 is known to run.                                                   *)
SpecOfT1 == CacheSpec /\ WF_cacheVars(Step(t1))
WaitFreeT1 == WaitFree(t1)
=============================================================================
