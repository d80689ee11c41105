-------------------------- MODULE CodeObjectCache --------------------------
(***************************************************************************)
(* The cache of traceback code objects of a module (CodeObjectCache in     *)
(* Cython/Utility/ModuleSetupCode.c) and its only user, __Pyx_AddTraceback  *)
(* in Exceptions.c, in a free-threaded build.  accessor_count is positive    *)
(* while threads read the sorted table and INT_MIN (plus transient readers)  *)
(* while one thread writes it; nobody waits: a reader that meets a writer    *)
(* misses, an insertion that meets anybody is skipped.                       *)
(***************************************************************************)
EXTENDS Counting, Sequences

CONSTANTS Thread,
          Line,      \* the keys: line numbers, negated for C lines; never 0
          Code,      \* code objects
          Chunk,     \* by how many entries the table grows (64)
          MIN,       \* INT_MIN
          None

ASSUME FiniteThreads == IsFiniteSet(Thread)
ASSUME MinAssumption == MIN \in Int /\ MIN + Cardinality(Thread) < 0
ASSUME LineAssumption == Line \subseteq Int \ {0} /\ Chunk \in Nat \ {0} /\ None \notin Code

VARIABLES accessorCount, \* code_cache->accessor_count
          entries,       \* code_cache->entries[0 .. count-1]
          maxCount,      \* code_cache->max_count, 0 while entries is NULL
          pc, line, code,\* per thread: the next step, the key, py_code
          refs,          \* references to each code object, by the cache and the threads
          madeFor        \* the line each code object was created for

cacheVars == <<accessorCount, entries, maxCount, pc, line, code, refs, madeFor>>

CacheInit ==
    /\ accessorCount = 0
    /\ entries = <<>>
    /\ maxCount = 0
    /\ pc = [t \in Thread |-> "idle"]
    /\ line = [t \in Thread |-> None]
    /\ code = [t \in Thread |-> None]
    /\ refs = [c \in Code |-> 0]
    /\ madeFor = [c \in Code |-> None]

-----------------------------------------------------------------------------
(* Mutant: the range shrinks below the middle as it does above it.            *)
HalveTooMuch(E, l, start, end, mid) ==
    IF l < E[mid + 1].line THEN <<start, mid - 1, mid>> ELSE <<mid + 1, end, mid>>

(* One round of the loop of __pyx_bisect_code_objects; positions are C's.     *)
Halve(E, l, start, end, mid) ==
    IF l < E[mid + 1].line THEN <<start, mid, mid>> ELSE <<mid + 1, end, mid>>

Bisect(E, l) ==
    LET n == Len(E)
        search[r \in (0..n) \X (-1..n) \X (0..n)] ==
            LET start == r[1]  end == r[2]  mid == start + (end - start) \div 2
            IN  IF start < end
                THEN IF E[mid + 1].line = l THEN mid ELSE search[Halve(E, l, start, end, mid)]
                ELSE IF l <= E[r[3] + 1].line THEN r[3] ELSE r[3] + 1
    IN  IF n > 0 /\ l > E[n].line THEN n ELSE search[<<0, n - 1, 0>>]

Found(E, l) == E # <<>> /\ LET pos == Bisect(E, l) IN pos < Len(E) /\ E[pos + 1].line = l

-----------------------------------------------------------------------------
Goto(t, label) == pc' = [pc EXCEPT ![t] = label]

AddTraceback(t) ==
    /\ pc[t] = "idle"
    /\ \E l \in Line : line' = [line EXCEPT ![t] = l]
    /\ Goto(t, "findIncr")
    /\ UNCHANGED <<accessorCount, entries, maxCount, code, refs, madeFor>>

FindIncr(t) ==
    /\ pc[t] = "findIncr"
    /\ accessorCount' = accessorCount + 1
    /\ Goto(t, IF accessorCount < 0 THEN "findUndo" ELSE "findRead")
    /\ UNCHANGED <<entries, maxCount, line, code, refs, madeFor>>

FindUndo(t) ==
    /\ pc[t] = "findUndo"
    /\ accessorCount' = accessorCount - 1
    /\ Goto(t, "create")
    /\ UNCHANGED <<entries, maxCount, line, code, refs, madeFor>>

FindRead(t) ==
    /\ pc[t] = "findRead"
    /\ IF Found(entries, line[t])
       THEN LET c == entries[Bisect(entries, line[t]) + 1].code
            IN  /\ code' = [code EXCEPT ![t] = c]
                /\ refs' = [refs EXCEPT ![c] = @ + 1]
       ELSE UNCHANGED <<code, refs>>
    /\ Goto(t, "findDecr")
    /\ UNCHANGED <<accessorCount, entries, maxCount, line, madeFor>>

FindDecr(t) ==
    /\ pc[t] = "findDecr"
    /\ accessorCount' = accessorCount - 1
    /\ Goto(t, IF code[t] = None THEN "create" ELSE "use")
    /\ UNCHANGED <<entries, maxCount, line, code, refs, madeFor>>

CreateCodeObject(t) ==
    /\ pc[t] = "create"
    /\ \/ \E c \in Code :
             /\ refs[c] = 0
             /\ refs' = [refs EXCEPT ![c] = 1]
             /\ madeFor' = [madeFor EXCEPT ![c] = line[t]]
             /\ code' = [code EXCEPT ![t] = c]
             /\ Goto(t, "insert")
             /\ UNCHANGED line
       \/ /\ line' = [line EXCEPT ![t] = None]             \* no memory
          /\ Goto(t, "idle") /\ UNCHANGED <<refs, madeFor, code>>
    /\ UNCHANGED <<accessorCount, entries, maxCount>>

(* Mutant: a writer only stays away from other writers.                       *)
InsertTryAmongReaders(t) ==
    /\ pc[t] = "insert"
    /\ IF accessorCount >= 0
       THEN accessorCount' = accessorCount + MIN /\ Goto(t, "write")
       ELSE UNCHANGED accessorCount /\ Goto(t, "use")
    /\ UNCHANGED <<entries, maxCount, line, code, refs, madeFor>>

(* Mutant: the insertion waits until it finds nobody.                         *)
InsertTrySpinning(t) ==
    /\ pc[t] = "insert" /\ accessorCount = 0
    /\ accessorCount' = MIN /\ Goto(t, "write")
    /\ UNCHANGED <<entries, maxCount, line, code, refs, madeFor>>

InsertTry(t) ==
    /\ pc[t] = "insert"
    /\ IF accessorCount = 0
       THEN accessorCount' = MIN /\ Goto(t, "write")
       ELSE UNCHANGED accessorCount /\ Goto(t, "use")
    /\ UNCHANGED <<entries, maxCount, line, code, refs, madeFor>>

(* Mutant: the code object of the line is overwritten, not released.          *)
ReplaceUnreleased(pos, c) ==
    /\ entries' = [entries EXCEPT ![pos + 1].code = c]
    /\ refs' = [refs EXCEPT ![c] = @ + 1]
    /\ UNCHANGED maxCount

Replace(pos, c) ==
    LET tmp == entries[pos + 1].code
    IN  /\ entries' = [entries EXCEPT ![pos + 1].code = c]
        /\ refs' = [[refs EXCEPT ![c] = @ + 1] EXCEPT ![tmp] = @ - 1]
        /\ UNCHANGED maxCount

(* A table that is full, or not there yet, is allocated first.                *)
InsertAt(pos, l, c) ==
    /\ maxCount' = IF Len(entries) = maxCount THEN maxCount + Chunk ELSE maxCount
    /\ entries' = SubSeq(entries, 1, pos) \o <<[line |-> l, code |-> c]>>
                  \o SubSeq(entries, pos + 1, Len(entries))
    /\ refs' = [refs EXCEPT ![c] = @ + 1]

InsertWrite(t) ==
    /\ pc[t] = "write"
    /\ \/ Found(entries, line[t]) /\ Replace(Bisect(entries, line[t]), code[t])
       \/ /\ ~Found(entries, line[t])
          /\ \/ InsertAt(IF entries = <<>> THEN 0 ELSE Bisect(entries, line[t]), line[t], code[t])
             \/ /\ Len(entries) = maxCount                \* no memory: not cached
                /\ UNCHANGED <<entries, maxCount, refs>>
    /\ Goto(t, "release")
    /\ UNCHANGED <<accessorCount, line, code, madeFor>>

InsertRelease(t) ==
    /\ pc[t] = "release"
    /\ accessorCount' = accessorCount - MIN
    /\ Goto(t, "use")
    /\ UNCHANGED <<entries, maxCount, line, code, refs, madeFor>>

(* The frame is made and the caller's reference dropped.                      *)
UseCodeObject(t) ==
    /\ pc[t] = "use"
    /\ refs' = [refs EXCEPT ![code[t]] = @ - 1]
    /\ code' = [code EXCEPT ![t] = None]
    /\ line' = [line EXCEPT ![t] = None]
    /\ Goto(t, "idle")
    /\ UNCHANGED <<accessorCount, entries, maxCount, madeFor>>

(* The module state is cleared when no thread runs code of the module.        *)
Cleanup ==
    /\ \A t \in Thread : pc[t] = "idle"
    /\ maxCount > 0
    /\ entries' = <<>> /\ maxCount' = 0
    /\ refs' = [c \in Code |-> refs[c] - Cardinality({i \in 1..Len(entries) : entries[i].code = c})]
    /\ UNCHANGED <<accessorCount, pc, line, code, madeFor>>

Find(t) == FindIncr(t) \/ FindUndo(t) \/ FindRead(t) \/ FindDecr(t)
Insert(t) == InsertTry(t) \/ InsertWrite(t) \/ InsertRelease(t)
Step(t) == Find(t) \/ CreateCodeObject(t) \/ Insert(t) \/ UseCodeObject(t)

CacheNext == (\E t \in Thread : AddTraceback(t) \/ Step(t)) \/ Cleanup

CacheSpec == CacheInit /\ [][CacheNext]_cacheVars

-----------------------------------------------------------------------------
Steps == {"idle", "findIncr", "findUndo", "findRead", "findDecr", "create",
          "insert", "write", "release", "use"}
Announced == {"findUndo", "findRead", "findDecr"}
Writing == {"write", "release"}

CacheTypeOK ==
    /\ accessorCount \in Int
    /\ entries \in Seq([line : Line, code : Code])
    /\ maxCount \in Nat
    /\ pc \in [Thread -> Steps]
    /\ line \in [Thread -> Line \cup {None}]
    /\ code \in [Thread -> Code \cup {None}]
    /\ refs \in [Code -> Int]
    /\ madeFor \in [Code -> Line \cup {None}]

(* The counter is the number of announced readers, plus INT_MIN for a writer. *)
AccessorExact ==
    accessorCount = Count(pc, Thread, Announced)
                    + (IF \E t \in Thread : pc[t] \in Writing THEN MIN ELSE 0)

(* Nobody reads or writes the table while a thread writes it.                 *)
NoReadDuringWrite ==
    \A t, u \in Thread : t # u /\ pc[t] = "write" => pc[u] \notin {"findRead", "write"}

(* The inductive part of the protocol.                                       *)
AccessInv ==
    /\ accessorCount \in Int /\ pc \in [Thread -> Steps]
    /\ AccessorExact
    /\ \A t, u \in Thread : pc[t] \in Writing /\ pc[u] \in Writing => t = u
    /\ \A t, u \in Thread : pc[t] \in Writing => pc[u] \notin {"findRead", "findDecr"}

(* The table stays sorted, within its capacity, and the bisection returns for *)
(* every line the number of smaller lines in it.                             *)
TableSorted ==
    /\ \A i, j \in 1..Len(entries) : i < j => entries[i].line < entries[j].line
    /\ Len(entries) <= maxCount
    /\ entries # <<>> => \A l \in Line :
          Bisect(entries, l) = Cardinality({i \in 1..Len(entries) : entries[i].line < l})

(* A code object is referenced once by its entry and once by each thread that *)
(* uses it, and is one that was created for the line looked up.               *)
CodeRefsExact ==
    \A c \in Code :
        refs[c] = Cardinality({i \in 1..Len(entries) : entries[i].code = c})
                  + Cardinality({t \in Thread : code[t] = c})
CodeOfLine == \A t \in Thread : code[t] # None => madeFor[code[t]] = line[t]

(* Whatever the other threads do or stop doing, a thread gets its traceback.  *)
WaitFree(t) == pc[t] # "idle" ~> pc[t] = "idle"
=============================================================================
