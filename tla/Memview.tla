------------------------------ MODULE Memview ------------------------------
(***************************************************************************)
(* A memoryview object whose slices come and go, in a build without        *)
(* atomics: the object takes its lock when it is created, among others that *)
(* share the pool, and gives it back when its last reference is dropped.    *)
(* Projected on the variables of MemviewAcquisition every step is one of    *)
(* its steps or leaves them unchanged.                                      *)
(***************************************************************************)
EXTENDS MemviewAcquisition, MemviewLockPool

CONSTANT viewed     \* the object MemviewAcquisition follows

ASSUME ViewedAssumption == viewed \in View

MemviewInit == Init /\ PoolInit

(* memoryview.__cinit__ of the object.  When there is no memory for the lock  *)
(* it raises, and the object is deallocated at once.                         *)
Create ==
    /\ object = "fresh"
    /\ CinitFromPool(viewed) \/ CinitAllocate(viewed)
    /\ UNCHANGED vars

CreationFailed ==
    /\ viewed \in exists /\ lock[viewed] = NoLock
    /\ Dealloc(viewed)
    /\ UNCHANGED vars

(* The references and slices of the object; dropping the last reference runs   *)
(* memoryview.__dealloc__.                                                   *)
Use ==
    /\ object = "deallocated" \/ (viewed \in exists /\ lock[viewed] # NoLock)
    /\ Next
    /\ IF object' = "deallocated" /\ object # "deallocated"
       THEN Dealloc(viewed) ELSE UNCHANGED poolVars

Others == \E v \in View \ {viewed} : PoolStep(v) /\ UNCHANGED vars

MemviewNext == Create \/ CreationFailed \/ Use \/ Others

MemviewSpec == MemviewInit /\ [][MemviewNext]_<<vars, poolVars>>
=============================================================================
