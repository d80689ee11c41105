-------------------------- MODULE MemviewLockPool --------------------------
(***************************************************************************)
(* The preallocated locks of memoryview objects in builds without atomics  *)
(* (Cython/Utility/MemoryView.pyx, memoryview.__cinit__ and __dealloc__): *)
(* an array whose first "used" entries are handed out.  An object that dies  *)
(* swaps its lock behind the used ones.  Objects that find the pool empty    *)
(* allocate a lock of their own.  All of it runs under the GIL.              *)
(***************************************************************************)
EXTENDS Integers

CONSTANTS View,       \* memoryview objects
          PoolLock,   \* the preallocated locks
          OwnLock,    \* locks PyThread_allocate_lock can return
          pool0,      \* the initial array: a function from 0..N-1 onto PoolLock
          NoLock

CONSTANT N            \* THREAD_LOCKS_PREALLOCATED

ASSUME PoolAssumption ==
    /\ N \in Nat /\ pool0 \in [0..N-1 -> PoolLock]
    /\ \A i, j \in 0..N-1 : i # j => pool0[i] # pool0[j]
    /\ PoolLock \cap OwnLock = {} /\ NoLock \notin PoolLock \cup OwnLock

VARIABLES pool,       \* __pyx_memoryview_thread_locks
          used,       \* __pyx_memoryview_thread_locks_used
          exists,     \* the objects that are alive
          lock,       \* the lock field of each object
          allocated   \* own locks allocated and not freed

poolVars == <<pool, used, exists, lock, allocated>>

PoolInit ==
    /\ pool = pool0
    /\ used = 0
    /\ exists = {}
    /\ lock = [v \in View |-> NoLock]
    /\ allocated = {}

CinitFromPool(v) ==
    /\ v \notin exists /\ used < N
    /\ exists' = exists \cup {v}
    /\ lock' = [lock EXCEPT ![v] = pool[used]]
    /\ used' = used + 1
    /\ UNCHANGED <<pool, allocated>>

CinitAllocate(v) ==
    /\ v \notin exists /\ used >= N
    /\ exists' = exists \cup {v}
    /\ \/ \E l \in OwnLock \ allocated :
             /\ lock' = [lock EXCEPT ![v] = l]
             /\ allocated' = allocated \cup {l}
       \/ UNCHANGED <<lock, allocated>>      \* MemoryError; __dealloc__ still runs
    /\ UNCHANGED <<pool, used>>

(* Mutant: the freed lock is not moved behind the used ones.                  *)
ReturnToPoolUnswapped(v, i) ==
    /\ pool[i] = lock[v]
    /\ used' = used - 1
    /\ UNCHANGED pool

ReturnToPool(v, i) ==
    /\ pool[i] = lock[v]
    /\ used' = used - 1
    /\ pool' = [pool EXCEPT ![i] = pool[used - 1], ![used - 1] = pool[i]]

Dealloc(v) ==
    /\ v \in exists
    /\ exists' = exists \ {v}
    /\ lock' = [lock EXCEPT ![v] = NoLock]
    /\ \/ \E i \in 0..used-1 : ReturnToPool(v, i) /\ UNCHANGED allocated
       \/ /\ lock[v] # NoLock /\ \A i \in 0..used-1 : pool[i] # lock[v]
          /\ allocated' = allocated \ {lock[v]}
          /\ UNCHANGED <<pool, used>>
       \/ lock[v] = NoLock /\ UNCHANGED <<pool, used, allocated>>

(* What the other objects do: they are created and they die.                  *)
PoolStep(v) == CinitFromPool(v) \/ CinitAllocate(v) \/ Dealloc(v)

-----------------------------------------------------------------------------
(* No two memoryviews serialise their counts on one lock, which would be freed *)
(* or handed out again when the first of them dies.                            *)
LocksNotShared ==
    \A v, w \in exists : v # w /\ lock[v] # NoLock => lock[v] # lock[w]

(* The used entries of the pool are the pool locks of the objects alive, so     *)
(* that none is handed out twice and none is lost; a lock of its own is         *)
(* freed exactly once and a pool lock never.                                   *)
PoolExact ==
    /\ \A i \in 0..used-1 : \E v \in exists : lock[v] = pool[i]
    /\ \A v \in exists : lock[v] \in PoolLock => \E i \in 0..used-1 : lock[v] = pool[i]
    /\ \A v \in exists : lock[v] \in OwnLock => lock[v] \in allocated
    /\ \A l \in allocated : \E v \in exists : lock[v] = l

=============================================================================
