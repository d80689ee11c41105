----------------------------- MODULE MCMemview -----------------------------
(* Two preallocated locks, one allocated lock and four objects.             *)
EXTENDS Memview

MCN == 2
MCPool0 == CHOOSE f \in [0..MCN-1 -> PoolLock] :
              \A i, j \in 0..MCN-1 : i # j => f[i] # f[j]
=============================================================================
