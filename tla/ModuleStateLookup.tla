------------------------- MODULE ModuleStateLookup -------------------------
(***************************************************************************)
(* The concurrent protocol around the lookup table of                      *)
(* Cython/Utility/ModuleSetupCode.c (MultiPhaseInitModuleState), in the    *)
(* build with CYTHON_MODULE_STATE_LOOKUP_THREAD_SAFE: lock-free readers    *)
(* announce themselves in a counter, writers serialise on a mutex, take    *)
(* the table away by swapping the pointer for NULL, wait until no reader   *)
(* is left, change the table in place and publish it again.                *)
(*                                                                         *)
(* One action per access to shared memory.  Atomic accesses are taken to   *)
(* be sequentially consistent.                                             *)
(***************************************************************************)
EXTENDS LookupTable

CONSTANTS Thread,         \* the threads of the process, of any interpreter
          InterpreterId,  \* the interpreter ids in use
          Addr,           \* the heap addresses the allocator can return
          AllocMayFail    \* whether calloc and realloc may return NULL

ASSUME ThreadAssumption == IsFiniteSet(Thread)
ASSUME InterpreterIdAssumption == InterpreterId \subseteq Nat
ASSUME NullAssumption ==
    NULL \notin Thread /\ NULL \notin Addr /\ NULL \notin Module
ASSUME AllocAssumption == AllocMayFail \in BOOLEAN

VARIABLES
    lookupData,   \* __Pyx_ModuleStateLookup_data
    readCounter,  \* __Pyx_ModuleStateLookup_read_counter
    mutex,        \* owner of __Pyx_ModuleStateLookup_mutex
    heap,         \* the block at each address, NULL when there is none
    live,         \* the addresses of the blocks that are allocated
    pc,           \* where each thread is
    call,         \* the call each thread executes
    data,         \* local: data of FindModule and RemoveModule, new_data of AddModule
    oldData,      \* local: old_data of AddModule
    result        \* local: the value the call is about to return

vars == <<lookupData, readCounter, mutex, heap, live, pc, call, data, oldData, result>>
shared == <<lookupData, readCounter, mutex, heap, live>>

Ops   == {"find", "add", "remove"}
Calls == [op : Ops, id : InterpreterId, module : Module \cup {NULL}]
NoCall == [op |-> "none", id |-> -1, module |-> NULL]

OK == "ok"
ERROR == "error"

Init ==
    /\ lookupData = NULL
    /\ readCounter = 0
    /\ mutex = NULL
    /\ heap = [a \in Addr |-> NULL]
    /\ live = {}
    /\ pc = [t \in Thread |-> "idle"]
    /\ call = [t \in Thread |-> NoCall]
    /\ data = [t \in Thread |-> NULL]
    /\ oldData = [t \in Thread |-> NULL]
    /\ result = [t \in Thread |-> NULL]

Goto(t, from, to) == pc[t] = from /\ pc' = [pc EXCEPT ![t] = to]

-----------------------------------------------------------------------------
(* What is registered, read off the table that is published or, while a    *)
(* writer has taken it away, off the writer's table.                       *)

TakenPcs == {"w_alloc", "w_wait", "w_mutate", "w_publish"}
Taken == mutex # NULL /\ pc[mutex] \in TakenPcs
Current == IF Taken THEN data[mutex] ELSE lookupData
Registered(x) == IF Current \notin live
                 THEN NULL ELSE Meaning(heap[Current], x)

-----------------------------------------------------------------------------
(* The calls the generated code makes.  Every module-state macro is a       *)
(* FindModule, at any time and also when nothing is registered (the "already *)
(* imported" test).  Exec slots add their module.  m_clear removes: it runs   *)
(* once for a module whose state exists, so its interpreter has an entry and *)
(* no second removal of it is under way.                                     *)

Begin(t, op, x, m, first) ==
    /\ Goto(t, "idle", first)
    /\ call' = [call EXCEPT ![t] = [op |-> op, id |-> x, module |-> m]]
    /\ UNCHANGED <<shared, data, oldData, result>>

CallFind(t, x) == Begin(t, "find", x, NULL, "f_load")

CallAdd(t, x, m) == Begin(t, "add", x, m, "w_lock")

CallRemove(t, x) ==
    /\ Registered(x) # NULL
    /\ \A u \in Thread : ~(call[u].op = "remove" /\ call[u].id = x)
    /\ Begin(t, "remove", x, NULL, "w_lock")

Return(t) ==
    /\ pc' = [pc EXCEPT ![t] = "idle"]
    /\ call' = [call EXCEPT ![t] = NoCall]
    /\ data' = [data EXCEPT ![t] = NULL]
    /\ oldData' = [oldData EXCEPT ![t] = NULL]
    /\ result' = [result EXCEPT ![t] = NULL]

-----------------------------------------------------------------------------
(* __Pyx_State_FindModule                                                  *)

FindLoad(t) ==
    /\ Goto(t, "f_load", "f_incr")
    /\ data' = [data EXCEPT ![t] = lookupData]
    /\ UNCHANGED <<shared, call, oldData, result>>

FindIncr(t) ==
    /\ Goto(t, "f_incr", "f_check")
    /\ readCounter' = readCounter + 1
    /\ UNCHANGED <<lookupData, mutex, heap, live, call, data, oldData, result>>

(* Mutant: the fast path trusts the pointer it loaded before announcing itself. *)
FindCheckUnvalidated(t) ==
    /\ Goto(t, "f_check", IF data[t] # NULL THEN "f_read" ELSE "f_undo")
    /\ UNCHANGED <<shared, call, data, oldData, result>>

FindCheck(t) ==
    /\ Goto(t, "f_check",
            IF data[t] # NULL /\ lookupData = data[t] THEN "f_read" ELSE "f_undo")
    /\ UNCHANGED <<shared, call, data, oldData, result>>

(* Mutant: the announcement is not undone before the slow path.             *)
FindUndoForgotten(t) ==
    /\ Goto(t, "f_undo", "f_lock")
    /\ UNCHANGED <<shared, call, data, oldData, result>>

FindUndo(t) ==
    /\ Goto(t, "f_undo", "f_lock")
    /\ readCounter' = readCounter - 1
    /\ UNCHANGED <<lookupData, mutex, heap, live, call, data, oldData, result>>

FindLock(t) ==
    /\ mutex = NULL
    /\ Goto(t, "f_lock", "f_incr2")
    /\ mutex' = t
    /\ UNCHANGED <<lookupData, readCounter, heap, live, call, data, oldData, result>>

FindIncrLocked(t) ==
    /\ Goto(t, "f_incr2", "f_load2")
    /\ readCounter' = readCounter + 1
    /\ UNCHANGED <<lookupData, mutex, heap, live, call, data, oldData, result>>

FindLoadLocked(t) ==
    /\ Goto(t, "f_load2", "f_unlock")
    /\ data' = [data EXCEPT ![t] = lookupData]
    /\ UNCHANGED <<shared, call, oldData, result>>

FindUnlock(t) ==
    /\ Goto(t, "f_unlock", "f_read")
    /\ mutex' = NULL
    /\ UNCHANGED <<lookupData, readCounter, heap, live, call, data, oldData, result>>

(* A reader of a freed block would get any bytes.                           *)
FindRead(t) ==
    /\ Goto(t, "f_read", "f_decr")
    /\ \E r \in IF data[t] = NULL THEN {NULL}
                ELSE IF data[t] \notin live THEN Module \cup {NULL}
                ELSE FindOutcomes(heap[data[t]], call[t].id) :
          result' = [result EXCEPT ![t] = r]
    /\ UNCHANGED <<shared, call, data, oldData>>

FindReturn(t) ==
    /\ pc[t] = "f_decr"
    /\ readCounter' = readCounter - 1
    /\ Return(t)
    /\ UNCHANGED <<lookupData, mutex, heap, live>>

-----------------------------------------------------------------------------
(* The prologue and epilogue AddModule and RemoveModule share.             *)

WriterLock(t) ==
    /\ mutex = NULL
    /\ Goto(t, "w_lock", "w_swap")
    /\ mutex' = t
    /\ UNCHANGED <<lookupData, readCounter, heap, live, call, data, oldData, result>>

(* RemoveModule does not wait for readers when the table is in index mode.  *)
WriterSwap(t) ==
    /\ Goto(t, "w_swap",
            IF call[t].op = "add" /\ lookupData = NULL THEN "w_alloc"
            ELSE IF call[t].op = "remove" /\ lookupData # NULL
                    /\ heap[lookupData].asIndex
            THEN "w_mutate" ELSE "w_wait")
    /\ data' = [data EXCEPT ![t] = lookupData]
    /\ oldData' = [oldData EXCEPT ![t] = lookupData]
    /\ lookupData' = NULL
    /\ UNCHANGED <<readCounter, mutex, heap, live, call, result>>

(* Mutant: the writer does not wait.                                        *)
WaitForNobody(t) ==
    /\ Goto(t, "w_wait", "w_mutate")
    /\ UNCHANGED <<shared, call, data, oldData, result>>

WaitUntilNoReaders(t) ==
    /\ readCounter = 0
    /\ Goto(t, "w_wait", "w_mutate")
    /\ UNCHANGED <<shared, call, data, oldData, result>>

WriterPublish(t) ==
    /\ Goto(t, "w_publish", "w_unlock")
    /\ lookupData' = data[t]
    /\ UNCHANGED <<readCounter, mutex, heap, live, call, data, oldData, result>>

WriterReturn(t) ==
    /\ pc[t] = "w_unlock"
    /\ mutex' = NULL
    /\ Return(t)
    /\ UNCHANGED <<lookupData, readCounter, heap, live>>

-----------------------------------------------------------------------------
(* __Pyx_State_AddModule                                                   *)

FreeAddr == Addr \ live

AddCalloc(t) ==
    /\ Goto(t, "w_alloc", "w_wait")
    /\ \E a \in FreeAddr : /\ heap' = [heap EXCEPT ![a] = CallocTable]
                           /\ live' = live \cup {a}
                           /\ data' = [data EXCEPT ![t] = a]
    /\ UNCHANGED <<lookupData, readCounter, mutex, call, oldData, result>>

AddCallocFails(t) ==
    /\ AllocMayFail \/ FreeAddr = {}
    /\ Goto(t, "w_alloc", "w_publish")
    /\ result' = [result EXCEPT ![t] = ERROR]
    /\ UNCHANGED <<shared, call, data, oldData>>

(* Writes table d over the writer's block.  The call is done.              *)
Store(t, d) ==
    /\ heap' = [heap EXCEPT ![data[t]] = d]
    /\ result' = [result EXCEPT ![t] = OK]
    /\ UNCHANGED <<live, data>>

(* realloc: the block stays where it is or moves, with new contents d.     *)
StoreMoved(t, d) ==
    \E a \in FreeAddr \cup {data[t]} :
       /\ heap' = [[heap EXCEPT ![data[t]] = NULL] EXCEPT ![a] = d]
       /\ live' = (live \ {data[t]}) \cup {a}
       /\ data' = [data EXCEPT ![t] = a]
       /\ result' = [result EXCEPT ![t] = OK]

AddAsIndex(t) ==
    LET d == heap[data[t]]
        x == call[t].id
        n == IndexCapacity(d.allocated, x)
        e == IndexStore(Realloc(d, n, [k \in 0..n-1 |-> Entry(k, NULL)]),
                        x, call[t].module)
    IN  /\ d.asIndex /\ x < SMALL_SIZE
        /\ \/ n = d.allocated /\ Store(t, e)
           \/ n # d.allocated /\ StoreMoved(t, e)
           \/ /\ n # d.allocated /\ AllocMayFail
              /\ result' = [result EXCEPT ![t] = ERROR]
              /\ UNCHANGED <<heap, live, data>>

(* A failing realloc publishes old_data, which is the block as converted so *)
(* far, or NULL when the block was allocated by this very call.             *)
AddSorted(t) ==
    LET x == call[t].id
        d == IF heap[data[t]].asIndex THEN Convert(heap[data[t]]) ELSE heap[data[t]]
        k == LowerBound(d, x)
        n == SortedCapacity(d)
        e == SortedInsertAt(Realloc(d, n, [j \in 0..n-1 |-> UNINIT]), k,
                            Entry(x, call[t].module))
    IN  /\ ~(heap[data[t]].asIndex /\ x < SMALL_SIZE)
        /\ \/ Holds(d, k, x) /\ Store(t, SortedOverwrite(d, k, call[t].module))
           \/ ~Holds(d, k, x) /\ n = d.allocated /\ Store(t, e)
           \/ ~Holds(d, k, x) /\ n # d.allocated /\ StoreMoved(t, e)
           \/ /\ ~Holds(d, k, x) /\ n # d.allocated /\ AllocMayFail
              /\ heap' = [heap EXCEPT ![data[t]] = d]
              /\ data' = [data EXCEPT ![t] = oldData[t]]
              /\ result' = [result EXCEPT ![t] = ERROR]
              /\ UNCHANGED live

AddMutate(t) ==
    /\ call[t].op = "add"
    /\ Goto(t, "w_mutate", "w_publish")
    /\ AddAsIndex(t) \/ AddSorted(t)
    /\ UNCHANGED <<lookupData, readCounter, mutex, call, oldData>>

-----------------------------------------------------------------------------
(* __Pyx_State_RemoveModule                                                *)

RemoveSorted(t) ==
    LET d == heap[data[t]]
        x == call[t].id
        k == LowerBound(d, x)
    IN  \/ d.table[k].id # x /\ UNCHANGED <<heap, live, data>>
        \/ /\ d.table[k].id = x /\ d.count = 1
           /\ heap' = [heap EXCEPT ![data[t]] = NULL]
           /\ live' = live \ {data[t]}
           /\ data' = [data EXCEPT ![t] = NULL]
        \/ /\ d.table[k].id = x /\ d.count # 1
           /\ heap' = [heap EXCEPT ![data[t]] = SortedRemoveAt(d, k)]
           /\ UNCHANGED <<live, data>>

RemoveMutate(t) ==
    /\ call[t].op = "remove"
    /\ Goto(t, "w_mutate", "w_publish")
    /\ \/ /\ heap[data[t]].asIndex
          /\ heap' = [heap EXCEPT ![data[t]] = IndexClear(heap[data[t]], call[t].id)]
          /\ UNCHANGED <<live, data>>
       \/ ~heap[data[t]].asIndex /\ RemoveSorted(t)
    /\ result' = [result EXCEPT ![t] = OK]
    /\ UNCHANGED <<lookupData, readCounter, mutex, call, oldData>>

-----------------------------------------------------------------------------
Find(t) == \/ FindLoad(t) \/ FindIncr(t) \/ FindCheck(t) \/ FindUndo(t)
           \/ FindLock(t) \/ FindIncrLocked(t) \/ FindLoadLocked(t)
           \/ FindUnlock(t) \/ FindRead(t) \/ FindReturn(t)

Write(t) == \/ WriterLock(t) \/ WriterSwap(t) \/ AddCalloc(t)
            \/ AddCallocFails(t) \/ WaitUntilNoReaders(t) \/ AddMutate(t)
            \/ RemoveMutate(t) \/ WriterPublish(t) \/ WriterReturn(t)

Start(t) == \/ \E x \in InterpreterId : CallFind(t, x) \/ CallRemove(t, x)
            \/ \E x \in InterpreterId, m \in Module : CallAdd(t, x, m)

Next == \E t \in Thread : Start(t) \/ Find(t) \/ Write(t)

Spec == Init /\ [][Next]_vars

(* A thread inside a call keeps running, and a lock that is free is         *)
(* eventually taken by one of its waiters.                                  *)
FairSpec == Spec /\ \A t \in Thread : WF_vars(Find(t) \/ Write(t))

-----------------------------------------------------------------------------
Pcs == {"idle", "f_load", "f_incr", "f_check", "f_undo", "f_lock", "f_incr2",
        "f_load2", "f_unlock", "f_read", "f_decr", "w_lock", "w_swap",
        "w_alloc", "w_wait", "w_mutate", "w_publish", "w_unlock"}

FindPcs  == {"f_load", "f_incr", "f_check", "f_undo", "f_lock", "f_incr2",
             "f_load2", "f_unlock", "f_read", "f_decr"}
WritePcs == {"w_lock", "w_swap", "w_alloc", "w_wait", "w_mutate", "w_publish",
             "w_unlock"}

(* Where a thread is counted as a reader, and where it owns the mutex.     *)
CountedPcs == {"f_check", "f_undo", "f_load2", "f_unlock", "f_read", "f_decr"}
OwnerPcs   == {"f_incr2", "f_load2", "f_unlock", "w_swap", "w_alloc", "w_wait",
               "w_mutate", "w_publish", "w_unlock"}
Readers    == {t \in Thread : pc[t] \in CountedPcs}

(* Type invariant of the protocol's state; the blocks are described by      *)
(* TablesWellFormed.                                                        *)
TypeOK ==
    /\ lookupData \in Addr \cup {NULL}
    /\ readCounter \in Nat
    /\ mutex \in Thread \cup {NULL}
    /\ live \subseteq Addr
    /\ pc \in [Thread -> Pcs]
    /\ call \in [Thread -> Calls \cup {NoCall}]
    /\ data \in [Thread -> Addr \cup {NULL}]
    /\ oldData \in [Thread -> Addr \cup {NULL}]

(* Every block is a proper table: entries initialised, indexed by id or      *)
(* strictly sorted by id.                                                    *)
TablesWellFormed == \A a \in live : WellFormed(heap[a])

(* The counter that writers spin on is the number of announced readers.     *)
CounterExact == readCounter = Cardinality(Readers)

(* No reader looks at a block while a writer reallocates, moves, frees or     *)
(* reorders it.  The index-mode removal, which only clears one pointer of    *)
(* the block in place, is the exception the code makes.                       *)
InPlaceClear(w) == call[w].op = "remove" /\ heap[data[w]].asIndex
NoReaderDuringMutation ==
    \A r, w \in Thread :
       ~ /\ pc[r] = "f_read" /\ pc[w] = "w_mutate"
         /\ data[r] = data[w] /\ data[r] # NULL
         /\ ~InPlaceClear(w)

(* A reader never dereferences a block that was freed or moved.             *)
ReadersPointLive ==
    \A t \in Thread : pc[t] = "f_read" /\ data[t] # NULL => data[t] \in live

(* The inductive invariant behind the two properties of readers.            *)
MutexOwned == \A t \in Thread : mutex = t <=> pc[t] \in OwnerPcs

WriterState ==
    \A t \in Thread :
       /\ pc[t] \in TakenPcs => lookupData = NULL
       /\ pc[t] = "w_alloc" => data[t] = NULL /\ oldData[t] = NULL /\ call[t].op = "add"
       /\ pc[t] \in {"w_wait", "w_mutate"} /\ call[t].op = "add"
             => data[t] # NULL /\ oldData[t] \in {NULL, data[t]}
       /\ pc[t] = "w_mutate" /\ ~InPlaceClear(t)
             => \A r \in Thread : pc[r] # "f_read"

ReaderState ==
    \A t \in Thread :
       pc[t] \in {"f_unlock", "f_read"} /\ data[t] # NULL => data[t] = Current

ProtocolInv ==
    /\ TypeOK
    /\ CounterExact
    /\ MutexOwned
    /\ WriterState
    /\ ReaderState
    /\ Current # NULL => Current \in live

(* A lookup that no writer disturbs is right for every registered            *)
(* interpreter, whatever lies behind the entries.                            *)
RegisteredFound ==
    \A x \in InterpreterId :
       Registered(x) # NULL => FindOutcomes(heap[Current], x) = {Registered(x)}

(* The table maps an interpreter to the module that was added for it and not *)
(* removed since: a lookup for an interpreter with no entry finds none.      *)
UnregisteredNotFound ==
    \A x \in InterpreterId :
       Current \in live /\ Registered(x) = NULL => FindOutcomes(heap[Current], x) = {NULL}

(* Whoever takes the mutex, and with it the table, gives it back: a writer   *)
(* does not wait for readers for ever.                                        *)
MutexReleased == \A t \in Thread : mutex = t ~> mutex # t
-----------------------------------------------------------------------------
(* The calls as operations on a map.                                       *)
PhaseOf(q) == IF q = "idle" THEN "idle"
              ELSE IF q \in {"f_decr", "w_publish", "w_unlock"} THEN "done" ELSE "called"
RegisteredMap == [x \in InterpreterId |-> Registered(x)]
Phases        == [t \in Thread |-> PhaseOf(pc[t])]

Map == INSTANCE ModuleStateMap WITH
          registered <- RegisteredMap, phase <- Phases, request <- call, answer <- result

(* Every call takes effect atomically on the abstract map: lookups are exact  *)
(* for registered interpreters, additions and removals happen once, at the    *)
(* moment the writer changes its private table, and failures change nothing. *)
ImplementsMap == Map!Spec
=============================================================================
