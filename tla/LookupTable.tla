---------------------------- MODULE LookupTable ----------------------------
(***************************************************************************)
(* The table behind __Pyx_State_FindModule / AddModule / RemoveModule      *)
(* (Cython/Utility/ModuleSetupCode.c, MultiPhaseInitModuleState): a map    *)
(* from (sub)interpreter ids to the module imported into it.  The table    *)
(* starts as an array indexed by the id and is converted to a sorted array *)
(* once an id reaches SMALL_SIZE.                                          *)
(*                                                                         *)
(* A table value stands for the malloc'ed __Pyx_ModuleStateLookupData: the *)
(* cells from count to allocated - 1 are memory too, and the code can read *)
(* the first of them.                                                      *)
(***************************************************************************)
EXTENDS Integers, FiniteSets

CONSTANTS SMALL_SIZE,   \* __PYX_MODULE_STATE_LOOKUP_SMALL_SIZE, 32 in the source
          Module,       \* the module objects
          NULL          \* the null pointer

ASSUME SmallSizeAssumption == SMALL_SIZE \in Nat \ {0}

Entry(i, m) == [id |-> i, module |-> m]

(* What realloc leaves in the cells it adds: any bytes.                    *)
UNINIT == Entry(-1, NULL)

(* calloc of one cell, in index mode.                                      *)
CallocTable == [asIndex   |-> TRUE, count |-> 0, allocated |-> 1,
                table     |-> [k \in 0..0 |-> Entry(0, NULL)]]

Realloc(d, n, fresh) ==
    [d EXCEPT !.allocated = n,
              !.table = [k \in 0..n-1 |-> IF k < d.allocated THEN d.table[k]
                                                            ELSE fresh[k]]]

-----------------------------------------------------------------------------
(* Lookup.  The scan of a range of at most SMALL_SIZE cells, then the whole *)
(* function: first cell, bisection, scan.                                   *)

Scan(d, begin, end, x) ==
    LET hits == {k \in begin..end-1 : d.table[k].id >= x}
    IN  IF hits = {} THEN end ELSE CHOOSE k \in hits : \A j \in hits : k <= j

(* Mutant: the bisection takes the wrong half.                              *)
HalfSwapped(d, x, begin, end, halfway) ==
    IF d.table[halfway].id < x THEN <<begin, halfway>> ELSE <<halfway, end>>

Half(d, x, begin, end, halfway) ==
    IF d.table[halfway].id < x THEN <<halfway, end>> ELSE <<begin, halfway>>

LowerBound(d, x) ==
    LET narrow[r \in (0..d.count) \X (0..d.count)] ==
          LET begin == r[1]  end == r[2]  halfway == begin + (end - begin) \div 2
          IN  IF end - begin <= SMALL_SIZE THEN Scan(d, begin, end, x)
              ELSE IF d.table[halfway].id = x THEN halfway
              ELSE narrow[Half(d, x, begin, end, halfway)]
    IN  IF d.table[0].id = x THEN 0 ELSE narrow[<<0, d.count>>]

(* The results __Pyx_State_FindModule can return for a table it has loaded. *)
(* "found" is compared with the id without a test of found against count,   *)
(* so in sorted mode it may be the first cell after the entries: if that    *)
(* cell was never written, whether it matches depends on the memory.        *)
FindOutcomes(d, x) ==
    IF d.asIndex
    THEN {IF x < d.count THEN d.table[x].module ELSE NULL}
    ELSE LET k == LowerBound(d, x)
         IN  IF k >= d.allocated \/ d.table[k] = UNINIT THEN Module \cup {NULL}
             ELSE {IF d.table[k].id = x THEN d.table[k].module ELSE NULL}

-----------------------------------------------------------------------------
(* Index mode.                                                             *)

IndexCapacity(n, x) ==
    LET grow[k \in Nat] == IF k > x THEN k
                           ELSE grow[IF k = 0 THEN 1 ELSE 2 * k]
    IN  grow[n]

IndexStore(d, x, m) ==
    [d EXCEPT !.table[x].module = m,
              !.count = IF d.count < x + 1 THEN x + 1 ELSE d.count]

IndexClear(d, x) == IF x < d.count THEN [d EXCEPT !.table[x].module = NULL] ELSE d

(* Compaction of the used cells in order, then the rest of the old range    *)
(* cleared to id 0 and NULL.                                                *)
Convert(d) ==
    LET used    == {k \in 0..d.count-1 : d.table[k].module # NULL}
        n       == Cardinality(used)
        nth(i)  == CHOOSE k \in used : Cardinality({j \in used : j < k}) = i
    IN  [d EXCEPT !.asIndex = FALSE,
                  !.count   = n,
                  !.table   = [i \in 0..d.allocated-1 |->
                                 IF i < n THEN d.table[nth(i)]
                                 ELSE IF i < d.count THEN Entry(0, NULL)
                                 ELSE d.table[i]]]

-----------------------------------------------------------------------------
(* Sorted mode.                                                            *)

Holds(d, k, x) == k < d.count /\ d.table[k].id = x

SortedOverwrite(d, k, m) == [d EXCEPT !.table[k].module = m]

SortedInsertAt(d, k, e) ==
    [d EXCEPT !.count = d.count + 1,
              !.table = [i \in 0..d.allocated-1 |->
                           IF i = k THEN e
                           ELSE IF k < i /\ i <= d.count THEN d.table[i-1]
                           ELSE d.table[i]]]

(* The entries behind k move down by one.  The last one is left in place    *)
(* after the new end.                                                       *)
SortedRemoveAt(d, k) ==
    [d EXCEPT !.count = d.count - 1,
              !.table = [i \in 0..d.allocated-1 |->
                           IF k <= i /\ i < d.count - 1 THEN d.table[i+1]
                           ELSE d.table[i]]]

SortedCapacity(d) == IF d.count + 1 >= d.allocated THEN (d.count + 1) * 2
                                                   ELSE d.allocated

-----------------------------------------------------------------------------
(* What the table means: the module registered for x, or NULL.             *)
Meaning(d, x) ==
    IF d.asIndex
    THEN IF x < d.count THEN d.table[x].module ELSE NULL
    ELSE IF \E k \in 0..d.count-1 : d.table[k].id = x
         THEN d.table[CHOOSE k \in 0..d.count-1 : d.table[k].id = x].module
         ELSE NULL

Sorted(d) == \A i, j \in 0..d.count-1 : i < j => d.table[i].id < d.table[j].id

WellFormed(d) ==
    /\ d.count <= d.allocated
    /\ DOMAIN d.table = 0..d.allocated-1
    /\ \A k \in 0..d.count-1 : d.table[k] # UNINIT
    /\ IF d.asIndex
       THEN \A k \in 0..d.count-1 : d.table[k].id = k /\ k < SMALL_SIZE
       ELSE Sorted(d) /\ \A k \in 0..d.count-1 : d.table[k].module # NULL
=============================================================================
