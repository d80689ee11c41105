---------------------- MODULE ModuleStateLookupProofs ----------------------
(***************************************************************************)
(* Proofs about ModuleStateLookup, for any threads, interpreters and        *)
(* addresses and any SMALL_SIZE.  First the table by itself: what the        *)
(* bisection returns and what storing, converting, inserting and removing   *)
(* make of a table.  Then the protocol: who touches which block when.  Then *)
(* both together: the table is a map on which every call takes effect at    *)
(* one instant.                                                             *)
(***************************************************************************)
EXTENDS ModuleStateLookup, BasicTheorems, TLAPS

-----------------------------------------------------------------------------
(* The table, without the protocol.                                        *)

(* A block as the code keeps it, cells behind the entries included.            *)
Cells == [id : Int, module : Module \cup {NULL}]
IsTable(d) ==
    /\ d \in [asIndex : BOOLEAN, count : Nat, allocated : Nat \ {0},
              table : [0..d.allocated-1 -> Cells]]
    /\ WellFormed(d)
    /\ d.asIndex => \A k \in 0..d.allocated-1 :
                       d.table[k].id = k /\ (k >= d.count => d.table[k].module = NULL)

LEMMA TableFacts ==
    ASSUME NEW d, IsTable(d)
    PROVE  /\ d.asIndex \in BOOLEAN /\ d.count \in Nat /\ d.allocated \in Nat \ {0}
           /\ d.count <= d.allocated /\ d.table \in [0..d.allocated-1 -> Cells]
           /\ \A k \in 0..d.allocated-1 :
                 d.table[k] \in Cells /\ d.table[k].id \in Int /\ d.table[k].module \in Module \cup {NULL}
           /\ \A k \in 0..d.count-1 : k \in 0..d.allocated-1
<1>1. d \in [asIndex : BOOLEAN, count : Nat, allocated : Nat \ {0},
             table : [0..d.allocated-1 -> Cells]]
  BY DEF IsTable
<1>2. d.count <= d.allocated
  BY DEF IsTable, WellFormed
<1>3. d.table \in [0..d.allocated-1 -> Cells] /\ d.count \in Nat /\ d.allocated \in Nat
  BY <1>1
<1>4. \A k \in 0..d.allocated-1 : d.table[k] \in Cells
  BY <1>3
<1>5. \A c \in Cells : c.id \in Int /\ c.module \in Module \cup {NULL}
  BY DEF Cells
<1>6. \A k \in 0..d.count-1 : k \in 0..d.allocated-1
  BY <1>2, <1>3
<1>7. QED
  BY <1>1, <1>2, <1>4, <1>5, <1>6

LEMMA SortedFacts ==
    ASSUME NEW d, IsTable(d), ~d.asIndex
    PROVE  /\ \A i, j \in 0..d.count-1 : i < j => d.table[i].id < d.table[j].id
           /\ \A i, j \in 0..d.count-1 : d.table[i].id = d.table[j].id => i = j
           /\ \A k \in 0..d.count-1 : d.table[k].module \in Module
<1>1. /\ \A i, j \in 0..d.count-1 : i < j => d.table[i].id < d.table[j].id
      /\ \A k \in 0..d.count-1 : d.table[k].module # NULL
  BY DEF IsTable, WellFormed, Sorted
<1>2. d.count \in Nat /\ \A k \in 0..d.count-1 : d.table[k].id \in Int /\ d.table[k].module \in Module \cup {NULL}
  BY TableFacts
<1>3. ASSUME NEW i \in 0..d.count-1, NEW j \in 0..d.count-1, d.table[i].id = d.table[j].id, i # j
      PROVE  FALSE
  <2>1. i < j \/ j < i
    BY <1>2, <1>3
  <2>2. d.table[i].id < d.table[j].id \/ d.table[j].id < d.table[i].id
    BY <1>1, <2>1
  <2>3. QED
    BY <1>2, <1>3, <2>2
<1>4. QED
  BY <1>1, <1>2, <1>3

LEMMA IndexFacts ==
    ASSUME NEW d, IsTable(d), d.asIndex
    PROVE  /\ \A k \in 0..d.allocated-1 : d.table[k].id = k /\ (k >= d.count => d.table[k].module = NULL)
           /\ \A k \in 0..d.count-1 : d.table[k].id = k /\ k < SMALL_SIZE
BY DEF IsTable, WellFormed

(* The first count cells hold the module m for x.                             *)
Listed(d, x, m) == \E k \in 0..d.count-1 : d.table[k].id = x /\ d.table[k].module = m

(* That is what the table means, in both modes.                               *)
LEMMA MeaningListed ==
    ASSUME NEW d, IsTable(d), NEW x \in Nat
    PROVE  /\ Meaning(d, x) \in Module \cup {NULL}
           /\ \A m \in Module : Meaning(d, x) = m <=> Listed(d, x, m)
<1> USE NullAssumption
<1>0. d.count \in Nat
  BY TableFacts
<1>1. CASE d.asIndex
  <2>1. x < d.count => x \in 0..d.count-1
    BY <1>0
  <2>2. \A k \in 0..d.count-1 : d.table[k].id = k /\ d.table[k].module \in Module \cup {NULL}
    BY <1>1, IndexFacts, TableFacts
  <2>3. Meaning(d, x) = IF x < d.count THEN d.table[x].module ELSE NULL
    BY <1>1 DEF Meaning
  <2>4. ASSUME NEW m \in Module, Meaning(d, x) = m PROVE Listed(d, x, m)
    <3>1. x < d.count /\ d.table[x].module = m
      BY <2>3, <2>4
    <3>2. QED
      BY <2>1, <2>2, <3>1 DEF Listed
  <2>5. ASSUME NEW m \in Module, Listed(d, x, m) PROVE Meaning(d, x) = m
    <3>1. x \in 0..d.count-1 /\ d.table[x].module = m
      BY <2>2, <2>5 DEF Listed
    <3>2. x < d.count
      BY <1>0, <3>1
    <3>3. QED
      BY <2>3, <3>1, <3>2
  <2>6. Meaning(d, x) \in Module \cup {NULL}
    BY <2>1, <2>2, <2>3
  <2>7. QED
    BY <2>4, <2>5, <2>6
<1>2. CASE ~d.asIndex
  <2>1. CASE \E k \in 0..d.count-1 : d.table[k].id = x
    <3> DEFINE c == CHOOSE k \in 0..d.count-1 : d.table[k].id = x
    <3>1. c \in 0..d.count-1 /\ d.table[c].id = x
      BY <2>1
    <3>2. Meaning(d, x) = d.table[c].module
      BY <1>2, <2>1 DEF Meaning
    <3> HIDE DEF c
    <3>3. \A k \in 0..d.count-1 : d.table[k].id = x => k = c
      BY <1>2, <3>1, SortedFacts
    <3>4. d.table[c].module \in Module
      BY <1>2, <3>1, SortedFacts
    <3>5. QED
      BY <3>1, <3>2, <3>3, <3>4 DEF Listed
  <2>2. CASE ~\E k \in 0..d.count-1 : d.table[k].id = x
    <3>1. Meaning(d, x) = NULL
      BY <1>2, <2>2 DEF Meaning
    <3>2. \A m : ~Listed(d, x, m)
      BY <2>2 DEF Listed
    <3>3. QED
      BY <3>1, <3>2
  <2>3. QED
    BY <2>1, <2>2
<1>3. QED
  BY <1>1, <1>2

(* The table e means what d means, but m for x.                               *)
Updates(e, d, x, m) ==
    /\ IsTable(e)
    /\ \A y \in Nat : Meaning(e, y) = IF y = x THEN m ELSE Meaning(d, y)

LEMMA UpdatesListed ==
    ASSUME NEW d, IsTable(d), NEW e, IsTable(e), NEW x \in Nat, NEW v \in Module \cup {NULL},
           \A m \in Module : Listed(e, x, m) <=> m = v,
           \A y \in Nat : y # x => \A m \in Module : Listed(e, y, m) <=> Listed(d, y, m)
    PROVE  Updates(e, d, x, v)
<1> USE NullAssumption
<1>1. Meaning(e, x) = v
  BY MeaningListed
<1>2. ASSUME NEW y \in Nat, y # x PROVE Meaning(e, y) = Meaning(d, y)
  <2>1. \A m \in Module : Meaning(e, y) = m <=> Meaning(d, y) = m
    BY <1>2, MeaningListed
  <2>2. Meaning(e, y) \in Module \cup {NULL} /\ Meaning(d, y) \in Module \cup {NULL}
    BY <1>2, MeaningListed
  <2>3. QED
    BY <2>1, <2>2
<1>3. QED
  BY <1>1, <1>2 DEF Updates

-----------------------------------------------------------------------------
(* The lower bound.                                                        *)

(* The entries before k have smaller ids, those from k on do not.             *)
SplitsAt(d, x, k) ==
    /\ k \in 0..d.count
    /\ \A j \in 0..k-1 : d.table[j].id < x
    /\ \A j \in k..d.count-1 : d.table[j].id >= x

States(d) == (0..d.count) \X (0..d.count)
Middle(r) == r[1] + (r[2] - r[1]) \div 2
Narrowed(d, x) == [r \in States(d) |-> Half(d, x, r[1], r[2], Middle(r))]
Stop(d, x) == {r \in States(d) : r[2] - r[1] <= SMALL_SIZE \/ d.table[Middle(r)].id = x}
Val(d, x) == [r \in States(d) |-> IF r[2] - r[1] <= SMALL_SIZE THEN Scan(d, r[1], r[2], x) ELSE Middle(r)]
Measure(d) == [r \in States(d) |-> IF r[1] < r[2] THEN r[2] - r[1] ELSE 0]

(* The equation of the recursive function in LowerBound.                      *)
NarrowOf(d, x, f) ==
    f = [r \in (0..d.count) \X (0..d.count) |->
          LET begin == r[1]  end == r[2]  halfway == begin + (end - begin) \div 2
          IN  IF end - begin <= SMALL_SIZE THEN Scan(d, begin, end, x)
              ELSE IF d.table[halfway].id = x THEN halfway
              ELSE f[Half(d, x, begin, end, halfway)]]

LEMMA MiddleBetween ==
    ASSUME NEW d, d.count \in Nat, NEW r \in States(d), r[2] - r[1] > SMALL_SIZE
    PROVE  /\ r[1] \in 0..d.count /\ r[2] \in 0..d.count /\ Middle(r) \in 0..d.count
           /\ r[1] < Middle(r) /\ Middle(r) < r[2]
<1>1. r[1] \in 0..d.count /\ r[2] \in 0..d.count
  BY DEF States
<1>2. SMALL_SIZE \in Nat /\ SMALL_SIZE >= 1
  BY SmallSizeAssumption
<1>3. ASSUME NEW a \in Int, NEW b \in Int, b - a > 1
      PROVE  LET m == a + (b - a) \div 2 IN m \in Int /\ a < m /\ m < b
  BY <1>3
<1>4. r[2] - r[1] > 1 /\ r[1] \in Int /\ r[2] \in Int
  BY <1>1, <1>2
<1>5. Middle(r) \in Int /\ r[1] < Middle(r) /\ Middle(r) < r[2]
  BY <1>3, <1>4 DEF Middle
<1>6. QED
  BY <1>1, <1>5

LEMMA NarrowStep ==
    ASSUME NEW d, d.count \in Nat, NEW x, NEW r \in States(d), r \notin Stop(d, x)
    PROVE  /\ Narrowed(d, x)[r] \in States(d)
           /\ Measure(d)[Narrowed(d, x)[r]] < Measure(d)[r]
<1> DEFINE a == r[1]  b == r[2]  m == Middle(r)
<1>1. a \in 0..d.count /\ b \in 0..d.count /\ b - a > SMALL_SIZE
  BY SmallSizeAssumption DEF States, Stop
<1>2. m \in 0..d.count /\ a < m /\ m < b
  BY <1>1, MiddleBetween
<1>3. Measure(d)[r] = b - a
  BY <1>1, <1>2 DEF Measure
<1>4. CASE d.table[m].id < x
  <2> DEFINE q == <<m, b>>
  <2>1. Narrowed(d, x)[r] = q
    BY <1>4 DEF Narrowed, Half
  <2>2. q \in States(d) /\ q[1] = m /\ q[2] = b
    BY <1>1, <1>2 DEF States
  <2> HIDE DEF q
  <2>3. Measure(d)[q] = b - m
    BY <1>2, <2>2 DEF Measure
  <2>4. QED
    BY <1>1, <1>2, <1>3, <2>1, <2>2, <2>3
<1>5. CASE ~(d.table[m].id < x)
  <2> DEFINE q == <<a, m>>
  <2>1. Narrowed(d, x)[r] = q
    BY <1>5 DEF Narrowed, Half
  <2>2. q \in States(d) /\ q[1] = a /\ q[2] = m
    BY <1>1, <1>2 DEF States
  <2> HIDE DEF q
  <2>3. Measure(d)[q] = m - a
    BY <1>2, <2>2 DEF Measure
  <2>4. QED
    BY <1>1, <1>2, <1>3, <2>1, <2>2, <2>3
<1>6. QED
  BY <1>4, <1>5

LEMMA NarrowIsTail ==
    ASSUME NEW d, d.count \in Nat, NEW x, NEW f
    PROVE  NarrowOf(d, x, f) <=> TailOf(f, States(d), Stop(d, x), Val(d, x), Narrowed(d, x))
<1>1. ASSUME NEW r \in States(d)
      PROVE  (IF r \in Stop(d, x) THEN Val(d, x)[r] ELSE f[Narrowed(d, x)[r]])
             = LET begin == r[1]  end == r[2]  halfway == begin + (end - begin) \div 2
               IN  IF end - begin <= SMALL_SIZE THEN Scan(d, begin, end, x)
                   ELSE IF d.table[halfway].id = x THEN halfway
                   ELSE f[Half(d, x, begin, end, halfway)]
  <2>1. CASE r[2] - r[1] <= SMALL_SIZE
    BY <2>1 DEF Stop, Val
  <2>2. CASE ~(r[2] - r[1] <= SMALL_SIZE) /\ d.table[Middle(r)].id = x
    BY <2>2 DEF Stop, Val, Middle
  <2>3. CASE ~(r[2] - r[1] <= SMALL_SIZE) /\ d.table[Middle(r)].id # x
    BY <2>3 DEF Stop, Narrowed, Middle
  <2>4. QED
    BY <2>1, <2>2, <2>3
<1>2. QED
  BY <1>1, Zenon DEF NarrowOf, TailOf, States

LEMMA NarrowExists ==
    ASSUME NEW d, d.count \in Nat, NEW x
    PROVE  \E f : NarrowOf(d, x, f)
<1> DEFINE S == States(d)
           V == {Val(d, x)[r] : r \in S}
<1>1. Measure(d) \in [S -> Nat]
  BY DEF Measure, States
<1>2. Val(d, x) \in [S -> V]
  BY DEF Val
<1>3. \A r \in S \ Stop(d, x) : Narrowed(d, x)[r] \in S /\ Measure(d)[Narrowed(d, x)[r]] < Measure(d)[r]
  BY NarrowStep
<1>4. \E f \in [S -> V] : TailOf(f, S, Stop(d, x), Val(d, x), Narrowed(d, x))
  <2> HIDE DEF S, V
  <2>1. QED
    BY <1>1, <1>2, <1>3, TailRecursion
<1>5. QED
  BY <1>4, NarrowIsTail, Zenon

LEMMA LowerBoundValue ==
    ASSUME NEW d, d.count \in Nat, NEW x
    PROVE  \E f : /\ NarrowOf(d, x, f)
                  /\ LowerBound(d, x) = IF d.table[0].id = x THEN 0 ELSE f[<<0, d.count>>]
<1> DEFINE f == CHOOSE g : NarrowOf(d, x, g)
<1>1. NarrowOf(d, x, f)
  BY NarrowExists, Zenon
<1>2. LowerBound(d, x) = IF d.table[0].id = x THEN 0 ELSE f[<<0, d.count>>]
  BY Zenon DEF LowerBound, NarrowOf
<1>3. QED
  BY <1>1, <1>2, Zenon

(* What the loop keeps: the answer lies between begin and end.                *)
GoodRange(d, x, r) ==
    /\ r \in States(d) /\ r[1] <= r[2]
    /\ \A j \in 0..r[1]-1 : d.table[j].id < x
    /\ \A j \in r[2]..d.count-1 : d.table[j].id >= x

LEMMA NarrowKeeps ==
    ASSUME NEW d, IsTable(d), ~d.asIndex, NEW x \in Int, NEW r, GoodRange(d, x, r), r \notin Stop(d, x)
    PROVE  GoodRange(d, x, Narrowed(d, x)[r])
<1> DEFINE a == r[1]  b == r[2]  m == Middle(r)
<1>1. /\ r \in States(d) /\ d.count \in Nat /\ a \in 0..d.count /\ b \in 0..d.count /\ b - a > SMALL_SIZE
      /\ d.table[m].id # x
  BY SmallSizeAssumption, TableFacts DEF GoodRange, States, Stop
<1>2. m \in 0..d.count-1 /\ a < m /\ m < b
  BY <1>1, MiddleBetween
<1>3. \A j \in 0..d.count-1 : d.table[j].id \in Int /\ (j < m => d.table[j].id < d.table[m].id)
                                                   /\ (m < j => d.table[m].id < d.table[j].id)
  BY <1>2, SortedFacts, TableFacts
<1> HIDE DEF a, b, m
<1>4. CASE d.table[m].id < x
  <2> DEFINE q == <<m, b>>
  <2>1. Narrowed(d, x)[r] = q
    BY <1>1, <1>4 DEF Narrowed, Half, a, b, m
  <2>2. q \in States(d) /\ q[1] = m /\ q[2] = b
    BY <1>1, <1>2 DEF States
  <2> HIDE DEF q
  <2>3. ASSUME NEW j \in 0..m-1 PROVE d.table[j].id < x
    <3>1. j \in 0..d.count-1 /\ j < m
      BY <1>1, <1>2
    <3>2. QED
      BY <1>2, <1>3, <1>4, <3>1
  <2>4. \A j \in b..d.count-1 : d.table[j].id >= x
    BY DEF GoodRange, b
  <2>5. QED
    BY <1>1, <1>2, <2>1, <2>2, <2>3, <2>4 DEF GoodRange
<1>5. CASE ~(d.table[m].id < x)
  <2> DEFINE q == <<a, m>>
  <2>1. Narrowed(d, x)[r] = q
    BY <1>1, <1>5 DEF Narrowed, Half, a, b, m
  <2>2. q \in States(d) /\ q[1] = a /\ q[2] = m
    BY <1>1, <1>2 DEF States
  <2> HIDE DEF q
  <2>3. ASSUME NEW j \in m..d.count-1 PROVE d.table[j].id >= x
    <3>1. j \in 0..d.count-1 /\ (j = m \/ m < j)
      BY <1>1, <1>2
    <3>2. QED
      BY <1>2, <1>3, <1>5, <3>1
  <2>4. \A j \in 0..a-1 : d.table[j].id < x
    BY DEF GoodRange, a
  <2>5. QED
    BY <1>1, <1>2, <2>1, <2>2, <2>3, <2>4 DEF GoodRange
<1>6. QED
  BY <1>4, <1>5

(* The scan finds the first entry of the range whose id is not smaller.       *)
LEMMA ScanSplits ==
    ASSUME NEW d, IsTable(d), ~d.asIndex, NEW x \in Int, NEW a \in 0..d.count, NEW b \in 0..d.count, a <= b,
           \A j \in 0..a-1 : d.table[j].id < x,
           \A j \in b..d.count-1 : d.table[j].id >= x
    PROVE  SplitsAt(d, x, Scan(d, a, b, x))
<1> DEFINE hits == {k \in a..b-1 : d.table[k].id >= x}
<1>1. d.count \in Nat /\ \A j \in 0..d.count-1 : d.table[j].id \in Int
  BY TableFacts
<1>2. CASE hits = {}
  <2>1. Scan(d, a, b, x) = b
    BY <1>2 DEF Scan
  <2>2. ASSUME NEW j \in 0..b-1 PROVE d.table[j].id < x
    <3>1. j \in 0..a-1 \/ (j \in a..b-1 /\ j \in 0..d.count-1)
      BY <1>1
    <3>2. QED
      BY <1>1, <1>2, <3>1
  <2>3. QED
    BY <2>1, <2>2 DEF SplitsAt
<1>3. CASE hits # {}
  <2> DEFINE s == Scan(d, a, b, x)
  <2>1. \E k \in hits : \A j \in hits : k <= j
    <3>1. hits \subseteq Nat
      BY <1>1
    <3> HIDE DEF hits
    <3>2. QED
      BY <1>3, <3>1, LeastNatural
  <2>2. s = CHOOSE k \in hits : \A j \in hits : k <= j
    BY <1>3 DEF Scan
  <2>3. s \in hits /\ \A j \in hits : s <= j
    <3> HIDE DEF hits, s
    <3>1. QED
      BY <2>1, <2>2
  <2> HIDE DEF s
  <2>4. s \in a..b-1 /\ d.table[s].id >= x /\ s \in 0..d.count-1
    BY <1>1, <2>3
  <2>5. ASSUME NEW j \in 0..s-1 PROVE d.table[j].id < x
    <3>1. j \in 0..a-1 \/ (j \in a..b-1 /\ j \in 0..d.count-1 /\ j < s)
      BY <1>1, <2>4
    <3>2. CASE j \in a..b-1 /\ j \in 0..d.count-1 /\ j < s
      <4>1. j \notin hits
        BY <2>3, <2>4, <3>2
      <4>2. QED
        BY <1>1, <3>2, <4>1
    <3>3. QED
      BY <3>1, <3>2
  <2>6. ASSUME NEW j \in s..d.count-1 PROVE d.table[j].id >= x
    <3>1. j \in 0..d.count-1 /\ (j = s \/ s < j)
      BY <1>1, <2>4
    <3>2. s < j => d.table[s].id < d.table[j].id
      BY <2>4, <3>1, SortedFacts
    <3>3. d.table[s].id \in Int /\ d.table[j].id \in Int
      BY <1>1, <2>4, <3>1
    <3>4. QED
      BY <2>4, <3>1, <3>2, <3>3
  <2>7. s \in 0..d.count
    BY <1>1, <2>4
  <2>8. QED
    BY <2>5, <2>6, <2>7 DEF SplitsAt, s
<1>4. QED
  BY <1>2, <1>3

LEMMA EqualSplits ==
    ASSUME NEW d, IsTable(d), ~d.asIndex, NEW x \in Int, NEW k \in 0..d.count,
           k < d.count => d.table[k].id = x, k = d.count => k = 0
    PROVE  SplitsAt(d, x, k)
<1>1. d.count \in Nat /\ \A j \in 0..d.count-1 : d.table[j].id \in Int
  BY TableFacts
<1>2. CASE k = d.count
  BY <1>1, <1>2 DEF SplitsAt
<1>3. CASE k # d.count
  <2>1. k \in 0..d.count-1 /\ d.table[k].id = x
    BY <1>1, <1>3
  <2>2. ASSUME NEW j \in 0..d.count-1
        PROVE  /\ d.table[j].id \in Int
               /\ j < k => d.table[j].id < x
               /\ k < j => x < d.table[j].id
    BY <1>1, <2>1, SortedFacts
  <2>3. ASSUME NEW j \in 0..k-1 PROVE d.table[j].id < x
    <3>1. j \in 0..d.count-1 /\ j < k
      BY <1>1, <2>1
    <3>2. QED
      BY <2>2, <3>1
  <2>4. ASSUME NEW j \in k..d.count-1 PROVE d.table[j].id >= x
    <3>1. j \in 0..d.count-1 /\ (j = k \/ k < j)
      BY <1>1, <2>1
    <3>2. QED
      BY <2>1, <2>2, <3>1
  <2>5. QED
    BY <2>3, <2>4 DEF SplitsAt
<1>4. QED
  BY <1>2, <1>3

LEMMA NarrowStops ==
    ASSUME NEW d, IsTable(d), ~d.asIndex, NEW x \in Int, NEW r, GoodRange(d, x, r), r \in Stop(d, x)
    PROVE  SplitsAt(d, x, Val(d, x)[r])
<1>1. r \in States(d) /\ d.count \in Nat /\ r[1] \in 0..d.count /\ r[2] \in 0..d.count /\ r[1] <= r[2]
  BY TableFacts DEF GoodRange, States
<1>2. CASE r[2] - r[1] <= SMALL_SIZE
  <2>1. Val(d, x)[r] = Scan(d, r[1], r[2], x)
    BY <1>1, <1>2 DEF Val
  <2>2. SplitsAt(d, x, Scan(d, r[1], r[2], x))
    BY <1>1, ScanSplits DEF GoodRange
  <2>3. QED
    BY <2>1, <2>2
<1>3. CASE ~(r[2] - r[1] <= SMALL_SIZE)
  <2>1. Val(d, x)[r] = Middle(r) /\ d.table[Middle(r)].id = x
    BY <1>1, <1>3 DEF Val, Stop
  <2>2. r[2] - r[1] > SMALL_SIZE
    BY <1>1, <1>3, SmallSizeAssumption
  <2>3. Middle(r) \in 0..d.count /\ Middle(r) < d.count
    BY <1>1, <2>2, MiddleBetween
  <2>4. SplitsAt(d, x, Middle(r))
    BY <2>1, <2>3, EqualSplits
  <2>5. QED
    BY <2>1, <2>4
<1>4. QED
  BY <1>2, <1>3

LEMMA NarrowCorrect ==
    ASSUME NEW d, IsTable(d), ~d.asIndex, NEW x \in Int, NEW f, NarrowOf(d, x, f), NEW r, GoodRange(d, x, r)
    PROVE  SplitsAt(d, x, f[r])
<1> DEFINE S == States(d)
           T == {q \in S : GoodRange(d, x, q) /\ ~SplitsAt(d, x, f[q])}
           ms == Measure(d)
<1>1. d.count \in Nat
  BY TableFacts
<1>2. ms \in [S -> Nat]
  BY <1>1 DEF Measure, States
<1>3. \A q \in S : f[q] = IF q \in Stop(d, x) THEN Val(d, x)[q] ELSE f[Narrowed(d, x)[q]]
  BY <1>1, NarrowIsTail DEF TailOf
<1>4. SUFFICES ASSUME T # {} PROVE FALSE
  BY DEF GoodRange
<1>5. PICK q \in T : \A u \in T : ms[q] <= ms[u]
  <2>1. T \subseteq S
    OBVIOUS
  <2> HIDE DEF S, T, ms
  <2>2. QED
    BY <1>2, <1>4, <2>1, LeastMeasure
<1>6. q \in S /\ GoodRange(d, x, q) /\ ~SplitsAt(d, x, f[q])
  BY <1>5
<1>7. q \notin Stop(d, x)
  BY <1>3, <1>6, NarrowStops
<1>8. Narrowed(d, x)[q] \in S /\ ms[Narrowed(d, x)[q]] < ms[q]
  BY <1>1, <1>6, <1>7, NarrowStep
<1>9. GoodRange(d, x, Narrowed(d, x)[q])
  BY <1>6, <1>7, NarrowKeeps
<1>10. f[q] = f[Narrowed(d, x)[q]]
  BY <1>3, <1>6, <1>7
<1>11. Narrowed(d, x)[q] \in T
  BY <1>6, <1>8, <1>9, <1>10
<1>12. ms[q] \in Nat /\ ms[Narrowed(d, x)[q]] \in Nat
  <2> HIDE DEF S, ms
  <2>1. QED
    BY <1>2, <1>6, <1>8
<1>13. QED
  <2> HIDE DEF S, T, ms
  <2>1. ms[q] <= ms[Narrowed(d, x)[q]]
    BY <1>5, <1>11
  <2>2. QED
    BY <2>1, <1>8, <1>12

(* In every sorted table, for every id and every SMALL_SIZE, the lower bound is *)
(* the number of entries with a smaller id.                                   *)
THEOREM LowerBoundSplits ==
    ASSUME NEW d, IsTable(d), ~d.asIndex, NEW x \in Int
    PROVE  SplitsAt(d, x, LowerBound(d, x))
<1>1. d.count \in Nat
  BY TableFacts
<1>2. PICK f : /\ NarrowOf(d, x, f)
               /\ LowerBound(d, x) = IF d.table[0].id = x THEN 0 ELSE f[<<0, d.count>>]
  BY <1>1, LowerBoundValue
<1>3. CASE d.table[0].id = x
  <2>1. 0 \in 0..d.count /\ SplitsAt(d, x, 0)
    BY <1>1, <1>3, EqualSplits
  <2>2. QED
    BY <1>2, <1>3, <2>1
<1>4. CASE d.table[0].id # x
  <2> DEFINE q == <<0, d.count>>
  <2>1. q \in States(d) /\ q[1] = 0 /\ q[2] = d.count
    BY <1>1 DEF States
  <2> HIDE DEF q
  <2>2. GoodRange(d, x, q)
    BY <1>1, <2>1 DEF GoodRange
  <2>3. SplitsAt(d, x, f[q])
    BY <1>2, <2>2, NarrowCorrect
  <2>4. QED
    BY <1>2, <1>4, <2>3 DEF q
<1>5. QED
  BY <1>3, <1>4

(* If an entry has the id, that is where the lower bound is.                  *)
LEMMA LowerBoundFinds ==
    ASSUME NEW d, IsTable(d), ~d.asIndex, NEW x \in Int, NEW k \in 0..d.count-1, d.table[k].id = x
    PROVE  LowerBound(d, x) = k
<1> DEFINE b == LowerBound(d, x)
<1>1. /\ b \in 0..d.count /\ d.count \in Nat
      /\ \A j \in 0..b-1 : d.table[j].id < x
      /\ \A j \in b..d.count-1 : d.table[j].id >= x
  BY LowerBoundSplits, TableFacts DEF SplitsAt
<1>2. \A j \in 0..d.count-1 : d.table[j].id \in Int
  BY TableFacts
<1> HIDE DEF b
<1>3. k >= b
  <2>1. CASE k < b
    <3>1. k \in 0..b-1
      BY <1>1, <2>1
    <3>2. QED
      BY <1>1, <1>2, <3>1
  <2>2. QED
    BY <1>1, <2>1
<1>4. ~(b < k)
  <2>1. CASE b < k
    <3>1. b \in 0..d.count-1 /\ b \in b..d.count-1
      BY <1>1, <2>1
    <3>2. d.table[b].id >= x /\ d.table[b].id < d.table[k].id /\ d.table[b].id \in Int
      BY <1>1, <1>2, <2>1, <3>1, SortedFacts
    <3>3. QED
      BY <3>2
  <2>2. QED
    BY <2>1
<1>5. QED
  BY <1>1, <1>3, <1>4 DEF b

(* A lookup finds what the table means, for every id that is registered.      *)
THEOREM FindFinds ==
    ASSUME NEW d, IsTable(d), NEW x \in Nat, Meaning(d, x) # NULL
    PROVE  FindOutcomes(d, x) = {Meaning(d, x)}
<1> USE NullAssumption
<1> DEFINE m == Meaning(d, x)
<1>1. m \in Module /\ Listed(d, x, m)
  BY MeaningListed
<1>2. PICK k \in 0..d.count-1 : d.table[k].id = x /\ d.table[k].module = m
  BY <1>1 DEF Listed
<1>3. d.count \in Nat /\ d.count <= d.allocated /\ d.allocated \in Nat
  BY TableFacts
<1> HIDE DEF m
<1>4. CASE d.asIndex
  <2>1. k = x /\ x < d.count
    BY <1>2, <1>3, <1>4, IndexFacts
  <2>2. QED
    BY <1>2, <1>4, <2>1 DEF FindOutcomes, m
<1>5. CASE ~d.asIndex
  <2>1. LowerBound(d, x) = k
    BY <1>2, <1>5, LowerBoundFinds
  <2>2. ~(k >= d.allocated) /\ d.table[k] # UNINIT
    BY <1>2, <1>3 DEF UNINIT, Entry
  <2>3. FindOutcomes(d, x) = {d.table[k].module}
    BY <1>2, <1>5, <2>1, <2>2 DEF FindOutcomes
  <2>4. QED
    BY <1>2, <2>3 DEF m
<1>6. QED
  BY <1>4, <1>5

-----------------------------------------------------------------------------
(* Index mode.                                                             *)
Grown == [k \in Nat |-> IF k = 0 THEN 1 ELSE 2 * k]
Enough(x) == {k \in Nat : k > x}
Missing(x) == [k \in Nat |-> IF k > x THEN 0 ELSE x + 1 - k]
GrowOf(x, f) == f = [k \in Nat |-> IF k > x THEN k ELSE f[IF k = 0 THEN 1 ELSE 2 * k]]

LEMMA GrowExists ==
    ASSUME NEW x \in Nat
    PROVE  \E f : GrowOf(x, f)
<1> DEFINE id == [k \in Nat |-> k]
<1>1. Missing(x) \in [Nat -> Nat]
  BY DEF Missing
<1>2. id \in [Nat -> Nat]
  OBVIOUS
<1>3. \A k \in Nat \ Enough(x) : Grown[k] \in Nat /\ Missing(x)[Grown[k]] < Missing(x)[k]
  BY DEF Grown, Missing, Enough
<1>4. \E f \in [Nat -> Nat] : TailOf(f, Nat, Enough(x), id, Grown)
  <2> HIDE DEF id
  <2>1. QED
    BY <1>1, <1>2, <1>3, TailRecursion
<1>5. ASSUME NEW f, TailOf(f, Nat, Enough(x), id, Grown) PROVE GrowOf(x, f)
  <2>1. ASSUME NEW k \in Nat
        PROVE  (IF k \in Enough(x) THEN id[k] ELSE f[Grown[k]]) = (IF k > x THEN k ELSE f[IF k = 0 THEN 1 ELSE 2 * k])
    BY DEF Enough, Grown
  <2> HIDE DEF id
  <2>2. QED
    BY <1>5, <2>1, Zenon DEF GrowOf, TailOf
<1>6. QED
  BY <1>4, <1>5

(* Doubling ends above x, for every x.                                        *)
LEMMA GrowCorrect ==
    ASSUME NEW x \in Nat, NEW f, GrowOf(x, f), NEW n \in Nat
    PROVE  f[n] \in Nat /\ f[n] > x /\ f[n] >= n
<1> DEFINE T == {k \in Nat : ~(f[k] \in Nat /\ f[k] > x /\ f[k] >= k)}
           ms == Missing(x)
<1>1. ms \in [Nat -> Nat]
  BY DEF Missing
<1>2. \A k \in Nat : f[k] = IF k > x THEN k ELSE f[Grown[k]]
  BY DEF GrowOf, Grown
<1>3. SUFFICES ASSUME T # {} PROVE FALSE
  OBVIOUS
<1>4. PICK k \in T : \A u \in T : ms[k] <= ms[u]
  <2>1. T \subseteq Nat
    OBVIOUS
  <2> HIDE DEF T, ms
  <2>2. QED
    BY <1>1, <1>3, <2>1, LeastMeasure
<1>5. k \in Nat /\ ~(f[k] \in Nat /\ f[k] > x /\ f[k] >= k)
  BY <1>4
<1>6. k <= x /\ f[k] = f[Grown[k]]
  BY <1>2, <1>5
<1>7. Grown[k] \in Nat /\ Grown[k] >= k /\ ms[Grown[k]] < ms[k]
  BY <1>5, <1>6 DEF Grown, Missing
<1>8. Grown[k] \in T
  BY <1>5, <1>6, <1>7
<1>9. ms[k] \in Nat /\ ms[Grown[k]] \in Nat /\ ms[k] <= ms[Grown[k]]
  BY <1>1, <1>4, <1>5, <1>7, <1>8
<1>10. QED
  BY <1>7, <1>9

LEMMA IndexCapacityHolds ==
    ASSUME NEW n \in Nat, NEW x \in Nat
    PROVE  IndexCapacity(n, x) \in Nat /\ IndexCapacity(n, x) > x /\ IndexCapacity(n, x) >= n
<1> DEFINE f == CHOOSE g : GrowOf(x, g)
<1>1. GrowOf(x, f)
  BY GrowExists, Zenon
<1>2. IndexCapacity(n, x) = f[n]
  BY Zenon DEF IndexCapacity, GrowOf
<1> HIDE DEF f
<1>3. QED
  BY <1>1, <1>2, GrowCorrect

(* What calloc returns is a table that means nothing.                         *)
LEMMA CallocIsTable ==
    IsTable(CallocTable) /\ CallocTable.asIndex /\ \A x \in Nat : Meaning(CallocTable, x) = NULL
<1>1. CallocTable \in [asIndex : BOOLEAN, count : Nat, allocated : Nat \ {0},
                       table : [0..CallocTable.allocated-1 -> Cells]]
  BY DEF CallocTable, Entry, Cells
<1>2. WellFormed(CallocTable)
  BY DEF CallocTable, WellFormed
<1>3. \A k \in 0..CallocTable.allocated-1 :
         CallocTable.table[k].id = k /\ (k >= CallocTable.count => CallocTable.table[k].module = NULL)
  BY DEF CallocTable, Entry
<1>4. QED
  BY <1>1, <1>2, <1>3 DEF IsTable, CallocTable, Meaning

(* What realloc makes of a block.                                             *)
LEMMA ReallocCells ==
    ASSUME NEW d, IsTable(d), NEW n \in Nat, n >= d.allocated,
           NEW fresh, \A k \in 0..n-1 : fresh[k] \in Cells
    PROVE  /\ Realloc(d, n, fresh) \in [asIndex : BOOLEAN, count : Nat, allocated : Nat \ {0}, table : [0..n-1 -> Cells]]
           /\ Realloc(d, n, fresh).asIndex = d.asIndex
           /\ Realloc(d, n, fresh).count = d.count
           /\ Realloc(d, n, fresh).allocated = n
           /\ \A k \in 0..n-1 : Realloc(d, n, fresh).table[k] =
                                   IF k < d.allocated THEN d.table[k] ELSE fresh[k]
<1>1. d \in [asIndex : BOOLEAN, count : Nat, allocated : Nat \ {0}, table : [0..d.allocated-1 -> Cells]]
  BY DEF IsTable
<1> DEFINE tb == [k \in 0..n-1 |-> IF k < d.allocated THEN d.table[k] ELSE fresh[k]]
<1>2. tb \in [0..n-1 -> Cells]
  <2>1. \A k \in 0..n-1 : k < d.allocated => k \in 0..d.allocated-1
    BY <1>1
  <2>2. \A k \in 0..d.allocated-1 : d.table[k] \in Cells
    BY <1>1
  <2>3. QED
    BY <2>1, <2>2
<1>3. Realloc(d, n, fresh) = [d EXCEPT !.allocated = n, !.table = tb]
  BY DEF Realloc
<1>4. \A k \in 0..n-1 : tb[k] = IF k < d.allocated THEN d.table[k] ELSE fresh[k]
  OBVIOUS
<1> HIDE DEF tb
<1>5. n \in Nat \ {0}
  BY <1>1
<1> DEFINE r == [d EXCEPT !.allocated = n, !.table = tb]
<1>6. r.asIndex = d.asIndex /\ r.count = d.count /\ r.allocated = n /\ r.table = tb
  BY <1>1
<1>7. r \in [asIndex : BOOLEAN, count : Nat, allocated : Nat \ {0}, table : [0..n-1 -> Cells]]
  BY <1>1, <1>2, <1>5
<1> HIDE DEF r
<1>8. QED
  BY <1>3, <1>4, <1>6, <1>7 DEF r

LEMMA IndexStoreUpdates ==
    ASSUME NEW d, IsTable(d), d.asIndex, NEW x \in Nat, x < SMALL_SIZE, NEW m \in Module
    PROVE  LET n == IndexCapacity(d.allocated, x)
               e == IndexStore(Realloc(d, n, [k \in 0..n-1 |-> Entry(k, NULL)]), x, m)
           IN  Updates(e, d, x, m)
<1> USE NullAssumption
<1> DEFINE n == IndexCapacity(d.allocated, x)
           fresh == [k \in 0..n-1 |-> Entry(k, NULL)]
           r == Realloc(d, n, fresh)
           e == IndexStore(r, x, m)
<1>1. /\ d.count \in Nat /\ d.allocated \in Nat \ {0} /\ d.count <= d.allocated
      /\ \A k \in 0..d.allocated-1 : d.table[k] \in Cells /\ d.table[k].id = k
                                    /\ d.table[k].module \in Module \cup {NULL}
                                    /\ (k >= d.count => d.table[k].module = NULL)
      /\ \A k \in 0..d.count-1 : k < SMALL_SIZE
  BY TableFacts, IndexFacts
<1>2. n \in Nat /\ n > x /\ n >= d.allocated
  BY <1>1, IndexCapacityHolds
<1> HIDE DEF n
<1>3. \A k \in 0..n-1 : fresh[k] \in Cells /\ fresh[k].id = k /\ fresh[k].module = NULL
  BY <1>2 DEF Entry, Cells
<1> HIDE DEF fresh
<1>4. /\ r \in [asIndex : BOOLEAN, count : Nat, allocated : Nat \ {0}, table : [0..n-1 -> Cells]]
      /\ r.asIndex /\ r.count = d.count /\ r.allocated = n
      /\ \A k \in 0..n-1 : r.table[k] = IF k < d.allocated THEN d.table[k] ELSE fresh[k]
  BY <1>2, <1>3, ReallocCells
<1> HIDE DEF r
<1>5. \A k \in 0..n-1 : /\ r.table[k].id = k /\ r.table[k].module \in Module \cup {NULL}
                        /\ k >= d.count => r.table[k].module = NULL
                        /\ k < d.allocated => r.table[k].module = d.table[k].module
  <2> SUFFICES ASSUME NEW k \in 0..n-1
               PROVE  /\ r.table[k].id = k /\ r.table[k].module \in Module \cup {NULL}
                      /\ k >= d.count => r.table[k].module = NULL
                      /\ k < d.allocated => r.table[k].module = d.table[k].module
    OBVIOUS
  <2>1. CASE k < d.allocated
    <3>1. k \in 0..d.allocated-1
      BY <1>1, <2>1
    <3>2. QED
      BY <1>1, <1>4, <2>1, <3>1
  <2>2. CASE ~(k < d.allocated)
    BY <1>3, <1>4, <2>2
  <2>3. QED
    BY <2>1, <2>2
<1> DEFINE c == IF d.count < x + 1 THEN x + 1 ELSE d.count
           tb == [r.table EXCEPT ![x].module = m]
<1>6. x \in 0..n-1 /\ r.table[x] \in Cells
  BY <1>2, <1>4
<1>7. tb \in [0..n-1 -> Cells]
  BY <1>4, <1>6 DEF Cells
<1>8. /\ e \in [asIndex : BOOLEAN, count : Nat, allocated : Nat \ {0}, table : [0..e.allocated-1 -> Cells]]
      /\ e.asIndex /\ e.count = c /\ e.allocated = n /\ e.table = tb
  <2>1. e = [r EXCEPT !.table = tb, !.count = c]
    BY <1>4 DEF IndexStore
  <2>2. c \in Nat
    BY <1>1
  <2> HIDE DEF tb, c, e
  <2>3. QED
    BY <1>4, <1>7, <2>1, <2>2
<1>9. \A k \in 0..n-1 : /\ tb[k].id = k
                        /\ tb[k].module = IF k = x THEN m ELSE r.table[k].module
  BY <1>4, <1>5, <1>6 DEF Cells
<1>10. c \in Nat /\ c <= n /\ c >= d.count /\ x < c /\ \A k \in 0..c-1 : k \in 0..n-1 /\ k < SMALL_SIZE /\ (k = x \/ k < d.count \/ k >= d.count)
  BY <1>1, <1>2, SmallSizeAssumption
<1> HIDE DEF tb, c, e
<1>11. IsTable(e)
  <2>1. \A k \in 0..e.count-1 : e.table[k] # UNINIT /\ e.table[k].id = k /\ k < SMALL_SIZE
    BY <1>8, <1>9, <1>10 DEF UNINIT, Entry
  <2>2. ASSUME NEW k \in 0..n-1
        PROVE  tb[k].id = k /\ (k >= c => tb[k].module = NULL)
    <3>1. k >= c => k # x /\ k >= d.count
      BY <1>1, <1>10
    <3>2. QED
      BY <1>5, <1>9, <3>1
  <2>3. DOMAIN e.table = 0..e.allocated-1
    BY <1>8
  <2>4. WellFormed(e)
    BY <1>8, <1>10, <2>1, <2>3 DEF WellFormed
  <2>5. QED
    BY <1>8, <2>2, <2>4 DEF IsTable
<1>12. \A v \in Module : Listed(e, x, v) <=> v = m
  <2>1. x \in 0..e.count-1 /\ e.table[x].module = m /\ e.table[x].id = x
    BY <1>6, <1>8, <1>9, <1>10
  <2>2. \A k \in 0..e.count-1 : e.table[k].id = x => k = x
    BY <1>8, <1>9, <1>10
  <2>3. QED
    BY <2>1, <2>2 DEF Listed
<1>13. ASSUME NEW y \in Nat, y # x, NEW v \in Module
       PROVE  Listed(e, y, v) <=> Listed(d, y, v)
  <2>1. ASSUME Listed(d, y, v) PROVE Listed(e, y, v)
    <3>1. y \in 0..d.count-1 /\ d.table[y].module = v
      <4>1. PICK k \in 0..d.count-1 : d.table[k].id = y /\ d.table[k].module = v
        BY <2>1 DEF Listed
      <4>2. k \in 0..d.allocated-1
        BY <1>1
      <4>3. QED
        BY <1>1, <4>1, <4>2
    <3>2. y \in 0..e.count-1 /\ y \in 0..n-1 /\ y < d.allocated
      BY <1>1, <1>2, <1>8, <1>10, <3>1
    <3>3. e.table[y].id = y /\ e.table[y].module = v
      BY <1>5, <1>8, <1>9, <1>13, <3>1, <3>2
    <3>4. QED
      BY <3>2, <3>3 DEF Listed
  <2>2. ASSUME Listed(e, y, v) PROVE Listed(d, y, v)
    <3>1. PICK k \in 0..e.count-1 : e.table[k].id = y /\ e.table[k].module = v
      BY <2>2 DEF Listed
    <3>2. k = y /\ y \in 0..n-1 /\ r.table[y].module = v
      BY <1>8, <1>9, <1>10, <1>13, <3>1
    <3>3. y < d.count
      BY <1>1, <1>5, <3>2
    <3>4. y \in 0..d.count-1 /\ y < d.allocated /\ y \in 0..d.allocated-1
      BY <1>1, <3>3
    <3>5. d.table[y].id = y /\ d.table[y].module = v
      BY <1>1, <1>5, <3>2, <3>4
    <3>6. QED
      BY <3>4, <3>5 DEF Listed
  <2>3. QED
    BY <2>1, <2>2
<1>14. Updates(e, d, x, m)
  BY <1>11, <1>12, <1>13, UpdatesListed
<1>15. QED
  BY <1>14 DEF e, r, fresh, n

LEMMA IndexClearUpdates ==
    ASSUME NEW d, IsTable(d), d.asIndex, NEW x \in Nat
    PROVE  Updates(IndexClear(d, x), d, x, NULL) /\ IndexClear(d, x).asIndex
<1> USE NullAssumption
<1>1. /\ d.count \in Nat /\ d.allocated \in Nat \ {0} /\ d.count <= d.allocated
      /\ \A k \in 0..d.allocated-1 : d.table[k] \in Cells /\ d.table[k].id = k
                                    /\ d.table[k].module \in Module \cup {NULL}
                                    /\ (k >= d.count => d.table[k].module = NULL)
      /\ \A k \in 0..d.count-1 : k \in 0..d.allocated-1 /\ k < SMALL_SIZE
  BY TableFacts, IndexFacts
<1>2. CASE ~(x < d.count)
  <2>1. IndexClear(d, x) = d
    BY <1>2 DEF IndexClear
  <2>2. \A k \in 0..d.count-1 : d.table[k].id # x
    BY <1>1, <1>2
  <2>3. \A v \in Module : ~Listed(d, x, v)
    BY <2>2 DEF Listed
  <2>4. Updates(d, d, x, NULL)
    BY <2>3, UpdatesListed
  <2>5. QED
    BY <2>1, <2>4
<1>3. CASE x < d.count
  <2> DEFINE tb == [d.table EXCEPT ![x].module = NULL]
             e == IndexClear(d, x)
  <2>1. x \in 0..d.allocated-1 /\ d.table \in [0..d.allocated-1 -> Cells]
    BY <1>1, <1>3, TableFacts
  <2>2. tb \in [0..d.allocated-1 -> Cells]
    BY <1>1, <2>1 DEF Cells
  <2>3. \A k \in 0..d.allocated-1 : tb[k].id = k /\ tb[k].module = IF k = x THEN NULL ELSE d.table[k].module
    BY <1>1, <2>1 DEF Cells
  <2>4. /\ e \in [asIndex : BOOLEAN, count : Nat, allocated : Nat \ {0}, table : [0..e.allocated-1 -> Cells]]
        /\ e.asIndex /\ e.count = d.count /\ e.allocated = d.allocated /\ e.table = tb
    <3>1. d \in [asIndex : BOOLEAN, count : Nat, allocated : Nat \ {0}, table : [0..d.allocated-1 -> Cells]]
      BY DEF IsTable
    <3>2. e = [d EXCEPT !.table = tb]
      BY <1>3, <3>1 DEF IndexClear
    <3> HIDE DEF tb, e
    <3>3. QED
      BY <2>2, <3>1, <3>2
  <2> HIDE DEF tb, e
  <2>5. IsTable(e)
    <3>1. \A k \in 0..e.count-1 : e.table[k] # UNINIT /\ e.table[k].id = k /\ k < SMALL_SIZE
      BY <1>1, <2>3, <2>4 DEF UNINIT, Entry
    <3>2. \A k \in 0..e.allocated-1 : e.table[k].id = k /\ (k >= e.count => e.table[k].module = NULL)
      BY <1>1, <2>3, <2>4
    <3>3. DOMAIN e.table = 0..e.allocated-1
      BY <2>4
    <3>4. WellFormed(e)
      BY <1>1, <2>4, <3>1, <3>3 DEF WellFormed
    <3>5. QED
      BY <2>4, <3>2, <3>4 DEF IsTable
  <2>6. \A v \in Module : ~Listed(e, x, v)
    BY <1>1, <2>3, <2>4 DEF Listed
  <2>7. \A y \in Nat : y # x => \A v \in Module : Listed(e, y, v) <=> Listed(d, y, v)
    <3>1. \A k \in 0..d.count-1 : e.table[k].id = d.table[k].id /\ (k # x => e.table[k].module = d.table[k].module)
      BY <1>1, <2>3, <2>4
    <3>2. \A k \in 0..d.count-1 : d.table[k].id = k
      BY <1>1
    <3>3. QED
      BY <2>4, <3>1, <3>2 DEF Listed
  <2>8. Updates(e, d, x, NULL)
    BY <2>5, <2>6, <2>7, UpdatesListed
  <2>9. QED
    BY <2>4, <2>8 DEF e
<1>4. QED
  BY <1>2, <1>3

-----------------------------------------------------------------------------
(* The conversion.                                                         *)

(* The place of k in the enumeration of a set of numbers.                     *)
Rank(U, k) == Cardinality({j \in U : j < k})

LEMMA RankGrows ==
    ASSUME NEW U \in SUBSET Nat, IsFiniteSet(U), NEW k \in U
    PROVE  /\ Rank(U, k) \in 0..Cardinality(U)-1
           /\ \A l \in U : k < l => Rank(U, k) < Rank(U, l)
<1> DEFINE A(l) == {j \in U : j < l}
<1>1. ASSUME NEW T \in SUBSET U, A(k) \subseteq T, k \in T
      PROVE  IsFiniteSet(T) /\ Cardinality(A(k)) \in Nat /\ Cardinality(T) \in Nat /\ Cardinality(A(k)) < Cardinality(T)
  <2>1. IsFiniteSet(T) /\ IsFiniteSet(A(k))
    BY FS_Subset
  <2>2. A(k) \in SUBSET T /\ A(k) # T
    BY <1>1
  <2> HIDE DEF A
  <2>3. Cardinality(A(k)) <= Cardinality(T) /\ Cardinality(A(k)) # Cardinality(T)
    BY <2>1, <2>2, FS_Subset
  <2>4. Cardinality(A(k)) \in Nat /\ Cardinality(T) \in Nat
    BY <2>1, FS_CardinalityType
  <2>5. QED
    BY <2>1, <2>3, <2>4
<1>2. ASSUME NEW l \in U, k < l PROVE A(l) \in SUBSET U /\ A(k) \subseteq A(l) /\ k \in A(l)
  <2>1. U \subseteq Nat /\ k \in Nat /\ l \in Nat
    OBVIOUS
  <2>2. ASSUME NEW j \in U, j < k PROVE j < l
    BY <1>2, <2>1, <2>2
  <2>3. QED
    BY <1>2, <2>2
<1>3. A(k) \subseteq U
  OBVIOUS
<1>4. Rank(U, k) = Cardinality(A(k)) /\ \A l \in U : Rank(U, l) = Cardinality(A(l))
  BY DEF Rank
<1> HIDE DEF A
<1>5. Cardinality(A(k)) \in Nat /\ Cardinality(U) \in Nat /\ Cardinality(A(k)) < Cardinality(U)
  BY <1>1, <1>3
<1>6. \A l \in U : k < l => Cardinality(A(k)) < Cardinality(A(l))
  BY <1>1, <1>2
<1>7. QED
  BY <1>4, <1>5, <1>6

LEMMA RankCovers ==
    ASSUME NEW U \in SUBSET Nat, IsFiniteSet(U)
    PROVE  /\ \A i \in 0..Cardinality(U)-1 : \E k \in U : Rank(U, k) = i
           /\ \A k, l \in U : Rank(U, k) = Rank(U, l) => k = l
           /\ \A k, l \in U : Rank(U, k) < Rank(U, l) => k < l
<1> DEFINE n == Cardinality(U)
           f == [k \in U |-> Rank(U, k)]
<1>1. \A k \in U : Rank(U, k) \in 0..n-1 /\ \A l \in U : k < l => Rank(U, k) < Rank(U, l)
  BY RankGrows
<1>2. n \in Nat
  BY FS_CardinalityType
<1>3. ASSUME NEW k \in U, NEW l \in U, Rank(U, k) = Rank(U, l) PROVE k = l
  <2>1. k < l \/ l < k \/ k = l
    OBVIOUS
  <2>2. Rank(U, k) \in Int /\ Rank(U, l) \in Int
    BY <1>1
  <2>3. QED
    BY <1>1, <1>3, <2>1, <2>2
<1>4. ASSUME NEW k \in U, NEW l \in U, Rank(U, k) < Rank(U, l) PROVE k < l
  <2>1. k < l \/ l < k \/ k = l
    OBVIOUS
  <2>2. Rank(U, k) \in Int /\ Rank(U, l) \in Int
    BY <1>1
  <2>3. QED
    BY <1>1, <1>4, <2>1, <2>2
<1>5. f \in Injection(U, 0..n-1)
  <2>1. f \in [U -> 0..n-1]
    BY <1>1
  <2>2. \A k, l \in U : f[k] = f[l] => k = l
    BY <1>3
  <2> HIDE DEF f
  <2>3. QED
    BY <2>1, <2>2 DEF Injection, IsInjective
<1>6. IsFiniteSet(0..n-1) /\ Cardinality(0..n-1) = n
  <2>1. 0 \in Int /\ n - 1 \in Int
    BY <1>2
  <2>2. IsFiniteSet(0..(n-1)) /\ Cardinality(0..(n-1)) = IF 0 > n - 1 THEN 0 ELSE (n - 1) - 0 + 1
    BY <2>1, FS_Interval
  <2>3. QED
    BY <1>2, <2>2
<1>7. f \in Surjection(U, 0..n-1)
  <2> DEFINE T == 0..n-1
  <2>1. f \in Injection(U, T) /\ IsFiniteSet(T) /\ Cardinality(T) = Cardinality(U)
    BY <1>5, <1>6
  <2> HIDE DEF f, T
  <2>2. f \in Surjection(U, T)
    BY <2>1, FS_Injection
  <2>3. QED
    BY <2>2 DEF T
<1>8. \A i \in 0..n-1 : \E k \in U : f[k] = i
  <2> HIDE DEF f
  <2>1. QED
    BY <1>7 DEF Surjection
<1>9. QED
  BY <1>3, <1>4, <1>8

(* The conversion keeps what the table means.                                 *)
LEMMA ConvertKeeps ==
    ASSUME NEW d, IsTable(d), d.asIndex
    PROVE  /\ IsTable(Convert(d)) /\ ~Convert(d).asIndex
           /\ \A y \in Nat : Meaning(Convert(d), y) = Meaning(d, y)
<1> USE NullAssumption
<1> DEFINE used == {k \in 0..d.count-1 : d.table[k].module # NULL}
           n == Cardinality(used)
           nth(i) == CHOOSE k \in used : Rank(used, k) = i
           tb == [i \in 0..d.allocated-1 |-> IF i < n THEN d.table[nth(i)]
                                             ELSE IF i < d.count THEN Entry(0, NULL)
                                             ELSE d.table[i]]
           e == Convert(d)
<1>1. /\ d.count \in Nat /\ d.allocated \in Nat \ {0} /\ d.count <= d.allocated
      /\ \A k \in 0..d.allocated-1 : d.table[k] \in Cells /\ d.table[k].id = k
                                    /\ d.table[k].module \in Module \cup {NULL}
      /\ \A k \in 0..d.count-1 : k \in 0..d.allocated-1
  BY TableFacts, IndexFacts
<1>2. used \in SUBSET Nat /\ IsFiniteSet(used) /\ n \in Nat /\ n <= d.count
  <2> DEFINE I == 0..(d.count - 1)
  <2>1. IsFiniteSet(I) /\ Cardinality(I) = d.count
    <3>1. 0 \in Int /\ d.count - 1 \in Int
      BY <1>1
    <3>2. IsFiniteSet(0..(d.count - 1)) /\ Cardinality(0..(d.count - 1)) = IF 0 > d.count - 1 THEN 0 ELSE (d.count - 1) - 0 + 1
      BY <3>1, FS_Interval
    <3>3. QED
      BY <1>1, <3>2
  <2>2. used \in SUBSET I /\ used \in SUBSET Nat
    BY <1>1
  <2> HIDE DEF I, used
  <2>3. IsFiniteSet(used) /\ Cardinality(used) <= Cardinality(I)
    BY <2>1, <2>2, FS_Subset
  <2>4. n \in Nat
    BY <2>3, FS_CardinalityType
  <2>5. QED
    BY <2>1, <2>2, <2>3, <2>4
<1>3. e = [d EXCEPT !.asIndex = FALSE, !.count = n, !.table = tb]
  BY Zenon DEF Convert, Rank
<1>4. \A k \in used : k \in 0..d.count-1 /\ d.table[k].module \in Module /\ k \in 0..d.allocated-1
  BY <1>1
<1>5. \A k \in 0..d.count-1 : d.table[k].module # NULL => k \in used
  OBVIOUS
<1> HIDE DEF used, e
<1>6. \A i \in 0..n-1 : nth(i) \in used /\ Rank(used, nth(i)) = i
  <2> SUFFICES ASSUME NEW i \in 0..n-1 PROVE nth(i) \in used /\ Rank(used, nth(i)) = i
    OBVIOUS
  <2>1. \E k \in used : Rank(used, k) = i
    BY <1>2, RankCovers
  <2>2. QED
    BY <2>1
<1> HIDE DEF nth
<1>7. tb \in [0..d.allocated-1 -> Cells]
  <2>1. Entry(0, NULL) \in Cells
    BY DEF Entry, Cells
  <2>2. ASSUME NEW i \in 0..d.allocated-1, i < n PROVE d.table[nth(i)] \in Cells
    <3>1. nth(i) \in used
      BY <1>2, <1>6, <2>2
    <3>2. QED
      BY <1>1, <1>4, <3>1
  <2>3. QED
    BY <1>1, <2>1, <2>2
<1>8. \A i \in 0..n-1 : i \in 0..d.allocated-1 /\ tb[i] = d.table[nth(i)]
  BY <1>1, <1>2
<1> HIDE DEF tb, n
<1>9. /\ e \in [asIndex : BOOLEAN, count : Nat, allocated : Nat \ {0}, table : [0..e.allocated-1 -> Cells]]
      /\ ~e.asIndex /\ e.count = n /\ e.allocated = d.allocated /\ e.table = tb
  <2>1. d \in [asIndex : BOOLEAN, count : Nat, allocated : Nat \ {0}, table : [0..d.allocated-1 -> Cells]]
    BY DEF IsTable
  <2>2. QED
    BY <1>2, <1>3, <1>7, <2>1
<1>10. \A i \in 0..n-1 : e.table[i].id = nth(i) /\ nth(i) \in used /\ Rank(used, nth(i)) = i
                         /\ e.table[i].module = d.table[nth(i)].module /\ e.table[i].module \in Module
  BY <1>1, <1>4, <1>6, <1>8, <1>9
<1>11. IsTable(e)
  <2>1. \A k \in 0..e.count-1 : e.table[k].module # NULL /\ e.table[k] # UNINIT
    BY <1>9, <1>10 DEF UNINIT, Entry
  <2>2. Sorted(e)
    <3> SUFFICES ASSUME NEW i \in 0..n-1, NEW j \in 0..n-1, i < j PROVE e.table[i].id < e.table[j].id
      BY <1>9 DEF Sorted
    <3>1. nth(i) < nth(j)
      <4>1. nth(i) \in used /\ nth(j) \in used /\ Rank(used, nth(i)) < Rank(used, nth(j))
        BY <1>10
      <4>2. \A k, l \in used : Rank(used, k) < Rank(used, l) => k < l
        BY <1>2, RankCovers
      <4>3. QED
        BY <4>1, <4>2
    <3>2. QED
      BY <1>10, <3>1
  <2>3. DOMAIN e.table = 0..e.allocated-1
    BY <1>9
  <2>4. WellFormed(e)
    BY <1>1, <1>2, <1>9, <2>1, <2>2, <2>3 DEF WellFormed
  <2>5. QED
    BY <1>9, <2>4 DEF IsTable
<1>12. ASSUME NEW y \in Nat, NEW v \in Module
       PROVE  Listed(e, y, v) <=> Listed(d, y, v)
  <2>1. ASSUME Listed(e, y, v) PROVE Listed(d, y, v)
    <3>1. PICK i \in 0..n-1 : e.table[i].id = y /\ e.table[i].module = v
      BY <1>9, <2>1 DEF Listed
    <3>2. y \in used /\ d.table[y].module = v
      BY <1>10, <3>1
    <3>3. QED
      BY <1>1, <1>4, <3>2 DEF Listed
  <2>2. ASSUME Listed(d, y, v) PROVE Listed(e, y, v)
    <3>1. y \in used /\ d.table[y].module = v
      BY <1>1, <1>5, <2>2 DEF Listed
    <3>2. Rank(used, y) \in 0..n-1
      BY <1>2, <3>1, RankGrows DEF n
    <3>3. nth(Rank(used, y)) = y
      BY <1>2, <1>6, <3>1, <3>2, RankCovers
    <3>4. QED
      BY <1>9, <1>10, <3>1, <3>2, <3>3 DEF Listed
  <2>3. QED
    BY <2>1, <2>2
<1>13. \A y \in Nat : Meaning(e, y) = Meaning(d, y)
  <2> SUFFICES ASSUME NEW y \in Nat PROVE Meaning(e, y) = Meaning(d, y)
    OBVIOUS
  <2>1. \A v \in Module : Meaning(e, y) = v <=> Meaning(d, y) = v
    BY <1>11, <1>12, MeaningListed
  <2>2. Meaning(e, y) \in Module \cup {NULL} /\ Meaning(d, y) \in Module \cup {NULL}
    BY <1>11, MeaningListed
  <2>3. QED
    BY <2>1, <2>2
<1>14. QED
  BY <1>9, <1>11, <1>13 DEF e

-----------------------------------------------------------------------------
(* Sorted mode.                                                            *)

(* A block in sorted mode whose first cells are entries is a table.           *)
LEMMA SortedIsTable ==
    ASSUME NEW e, e \in [asIndex : BOOLEAN, count : Nat, allocated : Nat \ {0}, table : [0..e.allocated-1 -> Cells]],
           ~e.asIndex, e.count <= e.allocated,
           \A k \in 0..e.count-1 : e.table[k].module \in Module,
           \A i, j \in 0..e.count-1 : i < j => e.table[i].id < e.table[j].id
    PROVE  IsTable(e)
<1> USE NullAssumption
<1>1. \A k \in 0..e.count-1 : e.table[k].module # NULL /\ e.table[k] # UNINIT
  BY DEF UNINIT, Entry
<1>2. DOMAIN e.table = 0..e.allocated-1
  OBVIOUS
<1>3. WellFormed(e)
  BY <1>1, <1>2 DEF WellFormed, Sorted
<1>4. QED
  BY <1>3 DEF IsTable

LEMMA OverwriteUpdates ==
    ASSUME NEW d, IsTable(d), ~d.asIndex, NEW x \in Nat, NEW k \in 0..d.count-1, d.table[k].id = x, NEW m \in Module
    PROVE  Updates(SortedOverwrite(d, k, m), d, x, m)
<1> DEFINE tb == [d.table EXCEPT ![k].module = m]
           e == SortedOverwrite(d, k, m)
<1>1. /\ d.count \in Nat /\ d.allocated \in Nat \ {0} /\ d.count <= d.allocated
      /\ d.table \in [0..d.allocated-1 -> Cells]
      /\ \A j \in 0..d.count-1 : j \in 0..d.allocated-1 /\ d.table[j].id \in Int
  BY TableFacts
<1>2. tb \in [0..d.allocated-1 -> Cells]
  BY <1>1 DEF Cells
<1>3. \A j \in 0..d.count-1 : tb[j].id = d.table[j].id /\ tb[j].module = IF j = k THEN m ELSE d.table[j].module
  <2>1. d.table[k] \in Cells /\ k \in 0..d.allocated-1
    BY <1>1
  <2>2. QED
    BY <1>1, <2>1 DEF Cells
<1>4. /\ e \in [asIndex : BOOLEAN, count : Nat, allocated : Nat \ {0}, table : [0..e.allocated-1 -> Cells]]
      /\ ~e.asIndex /\ e.count = d.count /\ e.allocated = d.allocated /\ e.table = tb
  <2>1. d \in [asIndex : BOOLEAN, count : Nat, allocated : Nat \ {0}, table : [0..d.allocated-1 -> Cells]]
    BY DEF IsTable
  <2>2. e = [d EXCEPT !.table = tb]
    BY <2>1 DEF SortedOverwrite
  <2> HIDE DEF tb, e
  <2>3. QED
    BY <1>2, <2>1, <2>2
<1> HIDE DEF tb, e
<1>5. IsTable(e)
  <2>1. \A j \in 0..e.count-1 : e.table[j].module \in Module
    BY <1>3, <1>4, SortedFacts
  <2>2. \A i, j \in 0..e.count-1 : i < j => e.table[i].id < e.table[j].id
    BY <1>3, <1>4, SortedFacts
  <2>3. QED
    BY <1>1, <1>4, <2>1, <2>2, SortedIsTable
<1>6. \A j \in 0..d.count-1 : d.table[j].id = x => j = k
  BY SortedFacts
<1>7. \A v \in Module : Listed(e, x, v) <=> v = m
  BY <1>3, <1>4, <1>6 DEF Listed
<1>8. \A y \in Nat : y # x => \A v \in Module : Listed(e, y, v) <=> Listed(d, y, v)
  BY <1>3, <1>4 DEF Listed
<1>9. QED
  BY <1>5, <1>7, <1>8, UpdatesListed DEF e

LEMMA RemoveAtUpdates ==
    ASSUME NEW d, IsTable(d), ~d.asIndex, NEW x \in Nat, NEW k \in 0..d.count-1, d.table[k].id = x
    PROVE  Updates(SortedRemoveAt(d, k), d, x, NULL)
<1> USE NullAssumption
<1> DEFINE tb == [i \in 0..d.allocated-1 |-> IF k <= i /\ i < d.count - 1 THEN d.table[i+1] ELSE d.table[i]]
           e == SortedRemoveAt(d, k)
<1>1. /\ d.count \in Nat /\ d.count >= 1 /\ d.allocated \in Nat \ {0} /\ d.count <= d.allocated
      /\ d.table \in [0..d.allocated-1 -> Cells]
      /\ \A j \in 0..d.count-1 : j \in 0..d.allocated-1 /\ d.table[j].id \in Int /\ d.table[j].module \in Module
  BY TableFacts, SortedFacts
<1>2. tb \in [0..d.allocated-1 -> Cells]
  <2> SUFFICES ASSUME NEW i \in 0..d.allocated-1
               PROVE  (IF k <= i /\ i < d.count - 1 THEN d.table[i+1] ELSE d.table[i]) \in Cells
    OBVIOUS
  <2>1. k <= i /\ i < d.count - 1 => i + 1 \in 0..d.allocated-1
    BY <1>1
  <2>2. QED
    BY <1>1, <2>1
<1>0. \A i \in 0..d.count-2 : i \in 0..d.allocated-1 /\ i < d.count - 1 /\ i \in Int
  BY <1>1
<1>3. \A i \in 0..d.count-2 : /\ i \in 0..d.count-1 /\ i + 1 \in 0..d.count-1
                              /\ tb[i] = IF i < k THEN d.table[i] ELSE d.table[i+1]
  BY <1>1, <1>0
<1>4. /\ e \in [asIndex : BOOLEAN, count : Nat, allocated : Nat \ {0}, table : [0..e.allocated-1 -> Cells]]
      /\ ~e.asIndex /\ e.count = d.count - 1 /\ e.allocated = d.allocated /\ e.table = tb
  <2>1. d \in [asIndex : BOOLEAN, count : Nat, allocated : Nat \ {0}, table : [0..d.allocated-1 -> Cells]]
    BY DEF IsTable
  <2>2. e = [d EXCEPT !.count = d.count - 1, !.table = tb]
    BY DEF SortedRemoveAt
  <2>3. d.count - 1 \in Nat
    BY <1>1
  <2> HIDE DEF tb, e
  <2> DEFINE c == d.count - 1
  <2>4. e = [d EXCEPT !.count = c, !.table = tb] /\ c \in Nat
    BY <2>2, <2>3
  <2> HIDE DEF c
  <2>5. ~e.asIndex /\ e.count = c /\ e.allocated = d.allocated /\ e.table = tb
    BY <2>1, <2>4
  <2>6. e \in [asIndex : BOOLEAN, count : Nat, allocated : Nat \ {0}, table : [0..d.allocated-1 -> Cells]]
    BY <1>2, <2>1, <2>4
  <2>7. QED
    BY <2>5, <2>6 DEF c
<1> HIDE DEF tb, e
<1>5. \A i, j \in 0..d.count-1 : i < j => d.table[i].id < d.table[j].id
  BY SortedFacts
<1>6. IsTable(e)
  <2>1. ASSUME NEW i \in 0..e.count-1 PROVE e.table[i].module \in Module
    <3>1. i \in 0..d.count-2
      BY <1>1, <1>4
    <3>2. e.table[i] = d.table[i] \/ e.table[i] = d.table[i+1]
      BY <1>3, <1>4, <3>1
    <3>3. QED
      BY <1>1, <1>3, <3>1, <3>2
  <2>2. ASSUME NEW i \in 0..e.count-1, NEW j \in 0..e.count-1, i < j PROVE e.table[i].id < e.table[j].id
    <3>1. i \in 0..d.count-2 /\ j \in 0..d.count-2
      BY <1>1, <1>4
    <3>2. (i < k \/ ~(i < k)) /\ (j < k \/ ~(j < k)) /\ i < j + 1 /\ i + 1 < j + 1 /\ (i < k => i < j) /\ (~(i < k) => ~(j < k))
      BY <2>2
    <3>3. QED
      BY <1>3, <1>4, <1>5, <2>2, <3>1, <3>2
  <2>3. e.count <= e.allocated
    BY <1>1, <1>4
  <2>4. QED
    BY <1>4, <2>1, <2>2, <2>3, SortedIsTable
<1>7. \A j \in 0..d.count-1 : d.table[j].id = x => j = k
  BY SortedFacts
<1>8. \A v \in Module : ~Listed(e, x, v)
  <2> SUFFICES ASSUME NEW i \in 0..e.count-1, e.table[i].id = x PROVE FALSE
    BY DEF Listed
  <2>1. i \in 0..d.count-2
    BY <1>1, <1>4
  <2>2. (i < k /\ d.table[i].id = x) \/ (~(i < k) /\ d.table[i+1].id = x)
    BY <1>3, <1>4, <2>1
  <2>3. QED
    BY <1>3, <1>7, <2>1, <2>2
<1>9. ASSUME NEW y \in Nat, y # x, NEW v \in Module
      PROVE  Listed(e, y, v) <=> Listed(d, y, v)
  <2>1. ASSUME Listed(e, y, v) PROVE Listed(d, y, v)
    <3>1. PICK i \in 0..e.count-1 : e.table[i].id = y /\ e.table[i].module = v
      BY <2>1 DEF Listed
    <3>2. i \in 0..d.count-2
      BY <1>1, <1>4
    <3>3. e.table[i] = d.table[i] \/ e.table[i] = d.table[i+1]
      BY <1>3, <1>4, <3>2
    <3>4. QED
      BY <1>3, <3>1, <3>2, <3>3 DEF Listed
  <2>2. ASSUME Listed(d, y, v) PROVE Listed(e, y, v)
    <3>1. PICK j \in 0..d.count-1 : d.table[j].id = y /\ d.table[j].module = v
      BY <2>2 DEF Listed
    <3>2. j # k
      BY <1>9, <3>1
    <3>3. CASE j < k
      <4>1. j \in 0..d.count-2 /\ j \in 0..e.count-1
        BY <1>1, <1>4, <3>3
      <4>2. e.table[j] = d.table[j]
        BY <1>3, <1>4, <3>3, <4>1
      <4>3. QED
        BY <3>1, <4>1, <4>2 DEF Listed
    <3>4. CASE k < j
      <4>1. j - 1 \in 0..d.count-2 /\ j - 1 \in 0..e.count-1 /\ ~(j - 1 < k) /\ (j - 1) + 1 = j
        BY <1>1, <1>4, <3>4
      <4>2. e.table[j - 1] = d.table[j]
        BY <1>3, <1>4, <4>1
      <4>3. QED
        BY <3>1, <4>1, <4>2 DEF Listed
    <3>5. QED
      BY <1>1, <3>2, <3>3, <3>4
  <2>3. QED
    BY <2>1, <2>2
<1>10. QED
  BY <1>6, <1>8, <1>9, UpdatesListed DEF e

LEMMA InsertUpdates ==
    ASSUME NEW d, IsTable(d), ~d.asIndex, NEW x \in Nat, NEW m \in Module, ~Holds(d, LowerBound(d, x), x)
    PROVE  LET n == SortedCapacity(d)
               e == SortedInsertAt(Realloc(d, n, [j \in 0..n-1 |-> UNINIT]), LowerBound(d, x), Entry(x, m))
           IN  Updates(e, d, x, m)
<1> USE NullAssumption
<1> DEFINE n == SortedCapacity(d)
           fresh == [j \in 0..n-1 |-> UNINIT]
           r == Realloc(d, n, fresh)
           k == LowerBound(d, x)
           c == Entry(x, m)
           e == SortedInsertAt(r, k, c)
           tb == [i \in 0..r.allocated-1 |-> IF i = k THEN c
                                             ELSE IF k < i /\ i <= r.count THEN r.table[i-1] ELSE r.table[i]]
<1>1. /\ d.count \in Nat /\ d.allocated \in Nat \ {0} /\ d.count <= d.allocated
      /\ \A j \in 0..d.count-1 : j \in 0..d.allocated-1 /\ d.table[j].id \in Int /\ d.table[j].module \in Module
  BY TableFacts, SortedFacts
<1>2. n \in Nat /\ n >= d.allocated /\ n > d.count
  BY <1>1 DEF SortedCapacity
<1>3. /\ k \in 0..d.count
      /\ \A j \in 0..k-1 : d.table[j].id < x
      /\ \A j \in k..d.count-1 : d.table[j].id >= x
  BY LowerBoundSplits DEF SplitsAt
<1>4. k < d.count => d.table[k].id # x
  BY DEF Holds
<1>5. c \in Cells /\ c.id = x /\ c.module = m
  BY DEF Entry, Cells
<1> HIDE DEF k, n, c
<1>6. \A j \in 0..n-1 : fresh[j] \in Cells
  BY DEF UNINIT, Entry, Cells
<1> HIDE DEF fresh
<1>7. /\ r \in [asIndex : BOOLEAN, count : Nat, allocated : Nat \ {0}, table : [0..n-1 -> Cells]]
      /\ ~r.asIndex /\ r.count = d.count /\ r.allocated = n
      /\ \A j \in 0..n-1 : r.table[j] = IF j < d.allocated THEN d.table[j] ELSE fresh[j]
  BY <1>2, <1>6, ReallocCells
<1> HIDE DEF r
<1>8. tb \in [0..n-1 -> Cells]
  <2> SUFFICES ASSUME NEW i \in 0..n-1
               PROVE  (IF i = k THEN c ELSE IF k < i /\ i <= r.count THEN r.table[i-1] ELSE r.table[i]) \in Cells
    BY <1>7
  <2>1. k < i => i - 1 \in 0..n-1
    BY <1>1, <1>2, <1>3
  <2>2. QED
    BY <1>5, <1>7, <2>1
<1>9. \A i \in 0..d.count : /\ i \in 0..n-1
                            /\ i < k => i \in 0..d.count-1 /\ tb[i] = d.table[i]
                            /\ i = k => tb[i] = c
                            /\ k < i => i - 1 \in 0..d.count-1 /\ i - 1 >= k /\ tb[i] = d.table[i-1]
  <2> SUFFICES ASSUME NEW i \in 0..d.count
               PROVE  /\ i \in 0..n-1
                      /\ i < k => i \in 0..d.count-1 /\ tb[i] = d.table[i]
                      /\ i = k => tb[i] = c
                      /\ k < i => i - 1 \in 0..d.count-1 /\ i - 1 >= k /\ tb[i] = d.table[i-1]
    OBVIOUS
  <2>1. i \in 0..n-1
    BY <1>1, <1>2
  <2>2. i < k => i \in 0..d.count-1 /\ i < d.allocated
    BY <1>1, <1>3
  <2>3. k < i => i - 1 \in 0..d.count-1 /\ i - 1 >= k /\ i - 1 < d.allocated /\ i - 1 \in 0..n-1
    BY <1>1, <1>2, <1>3
  <2>4. tb[i] = IF i = k THEN c ELSE IF k < i /\ i <= d.count THEN r.table[i-1] ELSE r.table[i]
    BY <1>7, <2>1
  <2>5. i < k => tb[i] = d.table[i]
    BY <1>3, <1>7, <2>1, <2>2, <2>4
  <2>6. k < i => tb[i] = d.table[i-1]
    BY <1>3, <1>7, <2>1, <2>3, <2>4
  <2> HIDE DEF tb
  <2>7. QED
    BY <2>1, <2>2, <2>3, <2>4, <2>5, <2>6
<1>10. /\ e \in [asIndex : BOOLEAN, count : Nat, allocated : Nat \ {0}, table : [0..e.allocated-1 -> Cells]]
       /\ ~e.asIndex /\ e.count = d.count + 1 /\ e.allocated = n /\ e.table = tb
  <2>1. e = [r EXCEPT !.count = r.count + 1, !.table = tb]
    BY DEF SortedInsertAt
  <2>2. r.count + 1 \in Nat
    BY <1>7
  <2> HIDE DEF tb, e
  <2> DEFINE q == r.count + 1
  <2>3. e = [r EXCEPT !.count = q, !.table = tb] /\ q \in Nat
    BY <2>1, <2>2
  <2> HIDE DEF q
  <2>4. ~e.asIndex /\ e.count = q /\ e.allocated = n /\ e.table = tb
    BY <1>7, <2>3
  <2>5. e \in [asIndex : BOOLEAN, count : Nat, allocated : Nat \ {0}, table : [0..n-1 -> Cells]]
    BY <1>7, <1>8, <2>3
  <2>6. QED
    BY <1>7, <2>4, <2>5 DEF q
<1> HIDE DEF tb, e
<1>11. \A j \in 0..d.count-1 : /\ j < k => d.table[j].id < x
                               /\ j >= k => x < d.table[j].id
  <2> SUFFICES ASSUME NEW j \in 0..d.count-1 PROVE (j < k => d.table[j].id < x) /\ (j >= k => x < d.table[j].id)
    OBVIOUS
  <2>1. j < k => j \in 0..k-1
    BY <1>1, <1>3
  <2>2. j >= k => j \in k..d.count-1 /\ k \in 0..d.count-1 /\ k < d.count /\ k \in k..d.count-1
    BY <1>1, <1>3
  <2>3. ASSUME j >= k PROVE x < d.table[j].id
    <3>1. d.table[k].id >= x /\ d.table[k].id # x /\ d.table[k].id \in Int /\ d.table[j].id \in Int
      BY <1>1, <1>3, <1>4, <2>2, <2>3
    <3>2. j = k \/ k < j
      BY <1>1, <1>3, <2>3
    <3>3. k < j => d.table[k].id < d.table[j].id
      BY <2>2, <2>3, SortedFacts
    <3>4. QED
      BY <3>1, <3>2, <3>3
  <2>4. QED
    BY <1>3, <2>1, <2>3
<1>12. \A i, j \in 0..d.count-1 : i < j => d.table[i].id < d.table[j].id
  BY SortedFacts
<1>13. IsTable(e)
  <2>1. \A i \in 0..e.count-1 : i \in 0..d.count
    BY <1>1, <1>10
  <2>2. ASSUME NEW i \in 0..e.count-1 PROVE e.table[i].module \in Module
    <3>1. i \in 0..d.count /\ (i < k \/ i = k \/ k < i)
      BY <1>3, <2>1
    <3>2. QED
      BY <1>1, <1>5, <1>9, <1>10, <3>1
  <2>3. ASSUME NEW i \in 0..e.count-1, NEW j \in 0..e.count-1, i < j PROVE e.table[i].id < e.table[j].id
    <3>0. i \in 0..d.count /\ j \in 0..d.count /\ k \in Int
      BY <1>3, <2>1
    <3>1. CASE j < k
      <4>1. i < k
        BY <2>3, <3>0, <3>1
      <4>2. QED
        BY <1>9, <1>10, <1>12, <2>3, <3>0, <3>1, <4>1
    <3>2. CASE j = k
      <4>1. i < k
        BY <2>3, <3>2
      <4>2. e.table[i] = d.table[i] /\ i \in 0..d.count-1 /\ e.table[j].id = x
        BY <1>5, <1>9, <1>10, <3>0, <3>2, <4>1
      <4>3. QED
        BY <1>11, <4>1, <4>2
    <3>3. CASE k < j
      <4>1. e.table[j] = d.table[j-1] /\ j - 1 \in 0..d.count-1 /\ j - 1 >= k
        BY <1>9, <1>10, <3>0, <3>3
      <4>2. CASE i < k
        <5>1. i \in 0..d.count-1 /\ e.table[i] = d.table[i] /\ i < j - 1
          BY <1>9, <1>10, <3>0, <4>1, <4>2
        <5>2. QED
          BY <1>12, <4>1, <5>1
      <4>3. CASE i = k
        <5>1. e.table[i].id = x
          BY <1>5, <1>9, <1>10, <3>0, <4>3
        <5>2. QED
          BY <1>11, <4>1, <5>1
      <4>4. CASE k < i
        <5>1. i - 1 \in 0..d.count-1 /\ e.table[i] = d.table[i-1] /\ i - 1 < j - 1
          BY <1>9, <1>10, <2>3, <3>0, <4>4
        <5>2. QED
          BY <1>12, <4>1, <5>1
      <4>5. QED
        BY <3>0, <4>2, <4>3, <4>4
    <3>4. QED
      BY <3>0, <3>1, <3>2, <3>3
  <2>4. e.count <= e.allocated
    BY <1>1, <1>2, <1>10
  <2>5. QED
    BY <1>10, <2>2, <2>3, <2>4, SortedIsTable
<1>14. \A v \in Module : Listed(e, x, v) <=> v = m
  <2>1. k \in 0..e.count-1 /\ e.table[k].id = x /\ e.table[k].module = m
    BY <1>1, <1>3, <1>5, <1>9, <1>10
  <2>2. ASSUME NEW i \in 0..e.count-1, e.table[i].id = x PROVE i = k
    <3>1. \A i1, j1 \in 0..e.count-1 : e.table[i1].id = e.table[j1].id => i1 = j1
      BY <1>10, <1>13, SortedFacts
    <3>2. QED
      BY <2>1, <2>2, <3>1
  <2>3. QED
    BY <2>1, <2>2 DEF Listed
<1>15. ASSUME NEW y \in Nat, y # x, NEW v \in Module
       PROVE  Listed(e, y, v) <=> Listed(d, y, v)
  <2>1. ASSUME Listed(e, y, v) PROVE Listed(d, y, v)
    <3>1. PICK i \in 0..e.count-1 : e.table[i].id = y /\ e.table[i].module = v
      BY <2>1 DEF Listed
    <3>2. i \in 0..d.count /\ i # k /\ (i < k \/ k < i)
      BY <1>1, <1>3, <1>5, <1>9, <1>10, <1>15, <3>1
    <3>3. QED
      BY <1>9, <1>10, <3>1, <3>2 DEF Listed
  <2>2. ASSUME Listed(d, y, v) PROVE Listed(e, y, v)
    <3>1. PICK j \in 0..d.count-1 : d.table[j].id = y /\ d.table[j].module = v
      BY <2>2 DEF Listed
    <3>2. CASE j < k
      <4>1. j \in 0..d.count /\ j \in 0..e.count-1
        BY <1>1, <1>10
      <4>2. e.table[j] = d.table[j]
        BY <1>9, <1>10, <3>2, <4>1
      <4>3. QED
        BY <3>1, <4>1, <4>2 DEF Listed
    <3>3. CASE ~(j < k)
      <4>1. j + 1 \in 0..d.count /\ j + 1 \in 0..e.count-1 /\ k < j + 1 /\ (j + 1) - 1 = j
        BY <1>1, <1>3, <1>10, <3>3
      <4>2. e.table[j + 1] = d.table[j]
        BY <1>9, <1>10, <4>1
      <4>3. QED
        BY <3>1, <4>1, <4>2 DEF Listed
    <3>4. QED
      BY <3>2, <3>3
  <2>3. QED
    BY <2>1, <2>2
<1>16. Updates(e, d, x, m)
  BY <1>13, <1>14, <1>15, UpdatesListed
<1>17. QED
  BY <1>16 DEF e, r, fresh, n, k, c

(* A lookup in a table returns a module or none, also when it reads the cell    *)
(* behind the entries.                                                         *)
LEMMA OutcomesTyped ==
    ASSUME NEW d, IsTable(d), NEW x \in Nat
    PROVE  FindOutcomes(d, x) \subseteq Module \cup {NULL}
<1>1. /\ d.count \in Nat /\ d.count <= d.allocated /\ d.allocated \in Nat
      /\ \A k \in 0..d.allocated-1 : d.table[k].module \in Module \cup {NULL}
  BY TableFacts
<1>2. CASE d.asIndex
  <2>1. x < d.count => x \in 0..d.allocated-1
    BY <1>1
  <2>2. QED
    BY <1>1, <1>2, <2>1 DEF FindOutcomes
<1>3. CASE ~d.asIndex
  <2> DEFINE k == LowerBound(d, x)
  <2>1. k \in 0..d.count
    BY <1>3, LowerBoundSplits DEF SplitsAt
  <2>2. k < d.allocated => k \in 0..d.allocated-1
    BY <1>1, <2>1
  <2>3. k >= d.allocated \/ k < d.allocated
    BY <1>1, <2>1
  <2>4. FindOutcomes(d, x) = IF k >= d.allocated \/ d.table[k] = UNINIT THEN Module \cup {NULL}
                             ELSE {IF d.table[k].id = x THEN d.table[k].module ELSE NULL}
    BY <1>3 DEF FindOutcomes
  <2> HIDE DEF k
  <2>5. QED
    BY <1>1, <2>2, <2>3, <2>4
<1>4. QED
  BY <1>2, <1>3

-----------------------------------------------------------------------------
(* Threads and addresses are not the null pointer, and there are finitely    *)
(* many threads.                                                             *)
USE NullAssumption, ThreadAssumption

(* A step of one thread that moves it in or out of the announced readers and  *)
(* adjusts the counter of FindModule accordingly keeps the counter exact.     *)
LEMMA CounterStep ==
    ASSUME TypeOK, CounterExact, NEW t \in Thread, NEW q \in Pcs,
           pc' = [pc EXCEPT ![t] = q],
           \/ (pc[t] \in CountedPcs <=> q \in CountedPcs) /\ readCounter' = readCounter
           \/ pc[t] \notin CountedPcs /\ q \in CountedPcs /\ readCounter' = readCounter + 1
           \/ pc[t] \in CountedPcs /\ q \notin CountedPcs /\ readCounter' = readCounter - 1
    PROVE  CounterExact' /\ readCounter' \in Nat
<1>1. IsFiniteSet(Readers) /\ Readers \subseteq Thread
  BY FS_Subset DEF Readers
<1>2. Cardinality(Readers) \in Nat
  BY <1>1, FS_CardinalityType
<1>3. \A u \in Thread : u # t => pc'[u] = pc[u]
  BY DEF TypeOK
<1>4. pc'[t] = q
  BY DEF TypeOK
<1>5. CASE (pc[t] \in CountedPcs <=> q \in CountedPcs) /\ readCounter' = readCounter
  <2>1. Readers' = Readers
    BY <1>3, <1>4, <1>5 DEF Readers
  <2>2. QED
    BY <2>1, <1>2, <1>5 DEF CounterExact
<1>6. CASE pc[t] \notin CountedPcs /\ q \in CountedPcs /\ readCounter' = readCounter + 1
  <2>1. Readers' = Readers \cup {t} /\ t \notin Readers
    BY <1>3, <1>4, <1>6 DEF Readers
  <2>2. Cardinality(Readers') = Cardinality(Readers) + 1
    BY <2>1, <1>1, FS_AddElement
  <2>3. QED
    BY <2>2, <1>2, <1>6 DEF CounterExact
<1>7. CASE pc[t] \in CountedPcs /\ q \notin CountedPcs /\ readCounter' = readCounter - 1
  <2>1. Readers' = Readers \ {t} /\ t \in Readers
    BY <1>3, <1>4, <1>7 DEF Readers
  <2>2. Cardinality(Readers') = Cardinality(Readers) - 1
    BY <2>1, <1>1, FS_RemoveElement
  <2>3. Cardinality(Readers') \in Nat
    BY <2>1, <1>1, FS_RemoveElement, FS_CardinalityType
  <2>4. QED
    BY <2>2, <2>3, <1>2, <1>7 DEF CounterExact
<1>8. QED
  BY <1>5, <1>6, <1>7

(* While the counter is zero no thread is reading: what a writer learns by    *)
(* waiting.                                                                   *)
LEMMA NoReaderAtZero ==
    ASSUME TypeOK, CounterExact, readCounter = 0
    PROVE  \A r \in Thread : pc[r] \notin CountedPcs
<1>1. IsFiniteSet(Readers)
  BY FS_Subset DEF Readers
<1>2. Readers = {}
  BY <1>1, FS_EmptySet DEF CounterExact
<1>3. QED
  BY <1>2 DEF Readers

LEMMA InitProtocol == Init => ProtocolInv
<1> SUFFICES ASSUME Init PROVE ProtocolInv
  OBVIOUS
<1>1. Readers = {} /\ Cardinality({}) = 0
  BY FS_EmptySet DEF Init, Readers, CountedPcs
<1>2. TypeOK
  BY DEF Init, TypeOK, Pcs
<1>3. CounterExact
  BY <1>1 DEF Init, CounterExact
<1>4. MutexOwned /\ WriterState /\ ReaderState
  BY DEF Init, MutexOwned, WriterState, ReaderState, OwnerPcs, TakenPcs
<1>5. Current = NULL
  BY DEF Init, Current, Taken
<1>6. QED
  BY <1>2, <1>3, <1>4, <1>5 DEF ProtocolInv

(* What AddModule's change of its table does to the pointers: the writer holds *)
(* a block that is allocated, or none.                                         *)
Holding(t) == \E b \in Addr \cup {NULL} :
                 /\ data' = [data EXCEPT ![t] = b]
                 /\ live' \subseteq Addr
                 /\ b # NULL => b \in live'

LEMMA StoreEffect ==
    ASSUME TypeOK, NEW t \in Thread, data[t] \in live,
           NEW d, Store(t, d) \/ StoreMoved(t, d)
    PROVE  Holding(t)
<1>1. CASE Store(t, d)
  <2>1. data' = [data EXCEPT ![t] = data[t]]
    BY <1>1 DEF Store, TypeOK
  <2>2. QED
    BY <2>1, <1>1 DEF Store, TypeOK, Holding
<1>2. CASE StoreMoved(t, d)
  BY <1>2 DEF StoreMoved, FreeAddr, TypeOK, Holding
<1>3. QED
  BY <1>1, <1>2

LEMMA AddHolding ==
    ASSUME TypeOK, NEW t \in Thread, data[t] \in live, oldData[t] \in {NULL, data[t]},
           AddAsIndex(t) \/ AddSorted(t)
    PROVE  Holding(t)
<1>1. CASE AddAsIndex(t)
  <2>1. CASE UNCHANGED <<heap, live, data>>
    <3>1. data' = [data EXCEPT ![t] = data[t]]
      BY <2>1 DEF TypeOK
    <3>2. QED
      BY <3>1, <2>1 DEF TypeOK, Holding
  <2>2. CASE ~ UNCHANGED <<heap, live, data>>
    <3>1. \E d : Store(t, d) \/ StoreMoved(t, d)
      BY <1>1, <2>2 DEF AddAsIndex
    <3>2. QED
      BY <3>1, StoreEffect
  <2>3. QED
    BY <2>1, <2>2
<1>2. CASE AddSorted(t)
  <2>1. CASE data' = [data EXCEPT ![t] = oldData[t]] /\ UNCHANGED live
    BY <2>1 DEF TypeOK, Holding
  <2>2. CASE ~(data' = [data EXCEPT ![t] = oldData[t]] /\ UNCHANGED live)
    <3>1. \E d : Store(t, d) \/ StoreMoved(t, d)
      BY <1>2, <2>2 DEF AddSorted
    <3>2. QED
      BY <3>1, StoreEffect
  <2>3. QED
    BY <2>1, <2>2
<1>3. QED
  BY <1>1, <1>2

(* One step of FindModule, AddModule or RemoveModule, or the start of a call, *)
(* preserves the invariant; one step per action.                              *)
LEMMA NextProtocol == ProtocolInv /\ [Next]_vars => ProtocolInv'
<1> SUFFICES ASSUME ProtocolInv, [Next]_vars PROVE ProtocolInv'
  OBVIOUS
<1> USE DEF ProtocolInv
<1>0. CASE UNCHANGED vars
  BY <1>0 DEF vars, TypeOK, CounterExact, Readers, MutexOwned, WriterState, ReaderState, Current, Taken, InPlaceClear
<1>1. CASE Next
  <2> SUFFICES ASSUME NEW t \in Thread, Start(t) \/ Find(t) \/ Write(t)
               PROVE  ProtocolInv'
    BY <1>1 DEF Next
  <2> DEFINE Rest == /\ MutexOwned' /\ WriterState' /\ ReaderState'
                     /\ (Current # NULL => Current \in live)'
  <2>1. CASE Start(t)
    <3>1. TypeOK' /\ CounterExact'
      BY <2>1, CounterStep DEF Start, CallFind, CallAdd, CallRemove, Begin, Calls, Ops, Goto, shared, TypeOK, Pcs, CountedPcs
    <3>2. Rest
      BY <2>1 DEF Start, CallFind, CallAdd, CallRemove, Begin, Calls, Ops, Goto, shared, TypeOK, Pcs, OwnerPcs, TakenPcs,
         MutexOwned, WriterState, ReaderState, Current, Taken, InPlaceClear
    <3>3. QED
      BY <3>1, <3>2
  <2>2. CASE FindLoad(t)
    <3>1. TypeOK' /\ CounterExact'
      BY <2>2, CounterStep DEF FindLoad, Goto, shared, TypeOK, Pcs, CountedPcs
    <3>2. Rest
      BY <2>2 DEF FindLoad, Goto, shared, TypeOK, Pcs, OwnerPcs, TakenPcs,
         MutexOwned, WriterState, ReaderState, Current, Taken, InPlaceClear
    <3>3. QED
      BY <3>1, <3>2
  <2>3. CASE FindIncr(t)
    <3>1. TypeOK' /\ CounterExact'
      BY <2>3, CounterStep DEF FindIncr, Goto, shared, TypeOK, Pcs, CountedPcs
    <3>2. Rest
      BY <2>3 DEF FindIncr, Goto, shared, TypeOK, Pcs, OwnerPcs, TakenPcs,
         MutexOwned, WriterState, ReaderState, Current, Taken, InPlaceClear
    <3>3. QED
      BY <3>1, <3>2
  <2>4. CASE FindCheck(t)
    <3>1. TypeOK' /\ CounterExact'
      BY <2>4, CounterStep DEF FindCheck, Goto, shared, TypeOK, Pcs, CountedPcs
    <3>2. Rest
      BY <2>4 DEF FindCheck, Goto, shared, TypeOK, Pcs, OwnerPcs, TakenPcs,
         MutexOwned, WriterState, ReaderState, Current, Taken, InPlaceClear
    <3>3. QED
      BY <3>1, <3>2
  <2>5. CASE FindUndo(t)
    <3>1. TypeOK' /\ CounterExact'
      BY <2>5, CounterStep DEF FindUndo, Goto, shared, TypeOK, Pcs, CountedPcs
    <3>2. Rest
      BY <2>5 DEF FindUndo, Goto, shared, TypeOK, Pcs, OwnerPcs, TakenPcs,
         MutexOwned, WriterState, ReaderState, Current, Taken, InPlaceClear
    <3>3. QED
      BY <3>1, <3>2
  <2>6. CASE FindLock(t)
    <3>1. TypeOK' /\ CounterExact'
      BY <2>6, CounterStep DEF FindLock, Goto, shared, TypeOK, Pcs, CountedPcs
    <3>2. Rest
      BY <2>6 DEF FindLock, Goto, shared, TypeOK, Pcs, OwnerPcs, TakenPcs,
         MutexOwned, WriterState, ReaderState, Current, Taken, InPlaceClear
    <3>3. QED
      BY <3>1, <3>2
  <2>7. CASE FindIncrLocked(t)
    <3>1. TypeOK' /\ CounterExact'
      BY <2>7, CounterStep DEF FindIncrLocked, Goto, shared, TypeOK, Pcs, CountedPcs
    <3>2. Rest
      BY <2>7 DEF FindIncrLocked, Goto, shared, TypeOK, Pcs, OwnerPcs, TakenPcs,
         MutexOwned, WriterState, ReaderState, Current, Taken, InPlaceClear
    <3>3. QED
      BY <3>1, <3>2
  <2>8. CASE FindLoadLocked(t)
    <3>1. TypeOK' /\ CounterExact'
      BY <2>8, CounterStep DEF FindLoadLocked, Goto, shared, TypeOK, Pcs, CountedPcs
    <3>2. Rest
      BY <2>8 DEF FindLoadLocked, Goto, shared, TypeOK, Pcs, OwnerPcs, TakenPcs,
         MutexOwned, WriterState, ReaderState, Current, Taken, InPlaceClear
    <3>3. QED
      BY <3>1, <3>2
  <2>9. CASE FindUnlock(t)
    <3>1. TypeOK' /\ CounterExact'
      BY <2>9, CounterStep DEF FindUnlock, Goto, shared, TypeOK, Pcs, CountedPcs
    <3>2. Rest
      BY <2>9 DEF FindUnlock, Goto, shared, TypeOK, Pcs, OwnerPcs, TakenPcs,
         MutexOwned, WriterState, ReaderState, Current, Taken, InPlaceClear
    <3>3. QED
      BY <3>1, <3>2
  <2>10. CASE FindRead(t)
    <3>1. TypeOK' /\ CounterExact'
      BY <2>10, CounterStep DEF FindRead, Goto, shared, TypeOK, Pcs, CountedPcs
    <3>2. Rest
      BY <2>10 DEF FindRead, Goto, shared, TypeOK, Pcs, OwnerPcs, TakenPcs,
         MutexOwned, WriterState, ReaderState, Current, Taken, InPlaceClear
    <3>3. QED
      BY <3>1, <3>2
  <2>11. CASE FindReturn(t)
    <3>1. TypeOK' /\ CounterExact'
      BY <2>11, CounterStep DEF FindReturn, Return, Goto, shared, TypeOK, Pcs, CountedPcs
    <3>2. Rest
      BY <2>11 DEF FindReturn, Return, Goto, shared, TypeOK, Pcs, OwnerPcs, TakenPcs,
         MutexOwned, WriterState, ReaderState, Current, Taken, InPlaceClear
    <3>3. QED
      BY <3>1, <3>2
  <2>12. CASE WriterLock(t)
    <3>1. TypeOK' /\ CounterExact'
      BY <2>12, CounterStep DEF WriterLock, Goto, shared, TypeOK, Pcs, CountedPcs
    <3>2. Rest
      BY <2>12 DEF WriterLock, Goto, shared, TypeOK, Pcs, OwnerPcs, TakenPcs,
         MutexOwned, WriterState, ReaderState, Current, Taken, InPlaceClear
    <3>3. QED
      BY <3>1, <3>2
  <2>13. CASE WriterSwap(t)
    <3>1. TypeOK' /\ CounterExact'
      BY <2>13, CounterStep DEF WriterSwap, Goto, shared, TypeOK, Pcs, CountedPcs
    <3>2. Rest
      BY <2>13 DEF WriterSwap, Goto, shared, TypeOK, Pcs, OwnerPcs, TakenPcs,
         MutexOwned, WriterState, ReaderState, Current, Taken, InPlaceClear
    <3>3. QED
      BY <3>1, <3>2
  <2>14. CASE AddCalloc(t)
    <3>1. PICK a \in FreeAddr : /\ live' = live \cup {a}
                                /\ data' = [data EXCEPT ![t] = a]
      BY <2>14 DEF AddCalloc
    <3>2. /\ pc[t] = "w_alloc" /\ pc' = [pc EXCEPT ![t] = "w_wait"]
          /\ UNCHANGED <<lookupData, readCounter, mutex, call, oldData, result>>
      BY <2>14 DEF AddCalloc, Goto
    <3>3. a \in Addr
      BY <3>1 DEF FreeAddr
    <3>4. TypeOK' /\ CounterExact'
      BY <3>1, <3>2, <3>3, CounterStep DEF TypeOK, Pcs, CountedPcs
    <3>5. /\ mutex = t /\ oldData[t] = NULL /\ data[t] = NULL /\ Current = NULL
          /\ \A u \in Thread \ {t} : pc[u] \notin TakenPcs
      BY <3>2 DEF TypeOK, MutexOwned, WriterState, OwnerPcs, TakenPcs, Current, Taken
    <3>6. MutexOwned' /\ ReaderState'
      BY <3>1, <3>2, <3>5 DEF TypeOK, MutexOwned, OwnerPcs, ReaderState
    <3>7. WriterState'
      BY <3>1, <3>2, <3>3, <3>5 DEF TypeOK, WriterState, TakenPcs
    <3>8. (Current # NULL => Current \in live)'
      BY <3>1, <3>2, <3>5 DEF TypeOK, Current, Taken, TakenPcs
    <3>9. QED
      BY <3>4, <3>6, <3>7, <3>8
  <2>15. CASE AddCallocFails(t)
    <3>1. TypeOK' /\ CounterExact'
      BY <2>15, CounterStep DEF AddCallocFails, FreeAddr, Goto, shared, TypeOK, Pcs, CountedPcs
    <3>2. Rest
      BY <2>15 DEF AddCallocFails, FreeAddr, Goto, shared, TypeOK, Pcs, OwnerPcs, TakenPcs,
         MutexOwned, WriterState, ReaderState, Current, Taken, InPlaceClear
    <3>3. QED
      BY <3>1, <3>2
  <2>16. CASE WaitUntilNoReaders(t)
    <3>1. TypeOK' /\ CounterExact'
      BY <2>16, CounterStep DEF WaitUntilNoReaders, Goto, shared, TypeOK, Pcs, CountedPcs
    <3>2. Rest
      BY <2>16, NoReaderAtZero DEF WaitUntilNoReaders, Goto, shared, TypeOK, Pcs, OwnerPcs, TakenPcs,
         MutexOwned, WriterState, ReaderState, Current, Taken, InPlaceClear, CountedPcs
    <3>3. QED
      BY <3>1, <3>2
  <2>17. CASE AddMutate(t)
    <3>1. pc[t] = "w_mutate" /\ call[t].op = "add"
      BY <2>17 DEF AddMutate, Goto
    <3>2. data[t] \in live /\ oldData[t] \in {NULL, data[t]} /\ Current = data[t]
      BY <3>1 DEF WriterState, MutexOwned, OwnerPcs, Current, Taken, TakenPcs
    <3>3. \A r \in Thread : pc[r] # "f_read"
      BY <3>1 DEF WriterState, InPlaceClear
    <3>4. Holding(t)
      BY <2>17, <3>2, AddHolding DEF AddMutate
    <3>5. PICK b \in Addr \cup {NULL} :
                 /\ data' = [data EXCEPT ![t] = b]
                 /\ live' \subseteq Addr
                 /\ b # NULL => b \in live'
      BY <3>4 DEF Holding
    <3>6. /\ pc' = [pc EXCEPT ![t] = "w_publish"]
          /\ UNCHANGED <<lookupData, readCounter, mutex, call, oldData>>
      BY <2>17 DEF AddMutate, Goto
    <3>7. TypeOK' /\ CounterExact'
      BY <3>1, <3>5, <3>6, CounterStep DEF TypeOK, Pcs, CountedPcs
    <3>8. \A u \in Thread : pc'[u] \in OwnerPcs <=> pc[u] \in OwnerPcs
      BY <3>1, <3>6 DEF TypeOK, OwnerPcs
    <3>9. mutex = t /\ \A u \in Thread \ {t} : pc[u] \notin TakenPcs \cup {"f_unlock", "f_read"}
      BY <3>1, <3>3 DEF MutexOwned, OwnerPcs, TakenPcs
    <3>10. MutexOwned' /\ WriterState' /\ ReaderState'
      BY <3>1, <3>5, <3>6, <3>8, <3>9 DEF TypeOK, MutexOwned, WriterState, ReaderState, TakenPcs
    <3>11. (Current # NULL => Current \in live)'
      BY <3>5, <3>6, <3>9 DEF TypeOK, Current, Taken, TakenPcs
    <3>12. QED
      BY <3>7, <3>10, <3>11
  <2>18. CASE RemoveMutate(t)
    <3>1. TypeOK' /\ CounterExact'
      BY <2>18, CounterStep DEF RemoveMutate, RemoveSorted, Goto, shared, TypeOK, Pcs, CountedPcs
    <3>2. Rest
      BY <2>18 DEF RemoveMutate, RemoveSorted, Goto, shared, TypeOK, Pcs, OwnerPcs, TakenPcs,
         MutexOwned, WriterState, ReaderState, Current, Taken, InPlaceClear
    <3>3. QED
      BY <3>1, <3>2
  <2>19. CASE WriterPublish(t)
    <3>1. TypeOK' /\ CounterExact'
      BY <2>19, CounterStep DEF WriterPublish, Goto, shared, TypeOK, Pcs, CountedPcs
    <3>2. Rest
      BY <2>19 DEF WriterPublish, Goto, shared, TypeOK, Pcs, OwnerPcs, TakenPcs,
         MutexOwned, WriterState, ReaderState, Current, Taken, InPlaceClear
    <3>3. QED
      BY <3>1, <3>2
  <2>20. CASE WriterReturn(t)
    <3>1. TypeOK' /\ CounterExact'
      BY <2>20, CounterStep DEF WriterReturn, Return, Goto, shared, TypeOK, Pcs, CountedPcs
    <3>2. Rest
      BY <2>20 DEF WriterReturn, Return, Goto, shared, TypeOK, Pcs, OwnerPcs, TakenPcs,
         MutexOwned, WriterState, ReaderState, Current, Taken, InPlaceClear
    <3>3. QED
      BY <3>1, <3>2
  <2>21. QED
    BY <2>1, <2>2, <2>3, <2>4, <2>5, <2>6, <2>7, <2>8, <2>9, <2>10, <2>11, <2>12, <2>13, <2>14, <2>15, <2>16, <2>17, <2>18, <2>19, <2>20 DEF Find, Write
<1>2. QED
  BY <1>0, <1>1

(* The protocol state stays well typed, the counter exact, the mutex owned by  *)
(* who is inside it, and validated readers hold the current table.             *)
THEOREM ProtocolInvariant == Spec => []ProtocolInv
<1>1. QED
  BY InitProtocol, NextProtocol, PTL DEF Spec

(* FindModule never reads a block while AddModule or RemoveModule reallocates, *)
(* reorders or frees it.                                                       *)
THEOREM ReadersAndWritersExclude == Spec => []NoReaderDuringMutation
<1>1. ProtocolInv => NoReaderDuringMutation
  BY DEF ProtocolInv, NoReaderDuringMutation, WriterState
<1>2. QED
  BY <1>1, ProtocolInvariant, PTL

(* FindModule never dereferences a pointer to a freed or moved block.          *)
THEOREM ReadersReadLiveBlocks == Spec => []ReadersPointLive
<1>1. ProtocolInv => ReadersPointLive
  BY DEF ProtocolInv, ReadersPointLive, ReaderState
<1>2. QED
  BY <1>1, ProtocolInvariant, PTL

(* The counter a writer spins on counts exactly the announced readers.         *)
THEOREM ReaderCounterExact == Spec => []CounterExact
<1>1. ProtocolInv => CounterExact
  BY DEF ProtocolInv
<1>2. QED
  BY <1>1, ProtocolInvariant, PTL

-----------------------------------------------------------------------------
(* The tables under the protocol.                                          *)

Blocks == heap = [a \in Addr |-> heap[a]] /\ \A a \in live : IsTable(heap[a])

(* A block allocated by this very call is as calloc left it until the call     *)
(* has waited for the readers.                                                 *)
Fresh == \A t \in Thread :
    pc[t] \in {"w_wait", "w_mutate"} /\ call[t].op = "add" /\ oldData[t] = NULL
        => heap[data[t]] = CallocTable

CallsMade ==
    \A t \in Thread :
       /\ pc[t] = "idle" => call[t] = NoCall
       /\ pc[t] # "idle" => call[t] \in Calls
       /\ pc[t] \in FindPcs => call[t].op = "find"
       /\ pc[t] \in WritePcs => call[t].op \in {"add", "remove"}
       /\ call[t].op = "add" => call[t].module \in Module

(* What is being removed is still registered, and removed once.                *)
Removing ==
    /\ \A t \in Thread, x \in InterpreterId :
          call[t].op = "remove" /\ call[t].id = x /\ pc[t] \in {"w_lock", "w_swap", "w_wait", "w_mutate"}
             => Registered(x) # NULL
    /\ \A t, u \in Thread :
          call[t].op = "remove" /\ call[u].op = "remove" /\ call[t].id = call[u].id => t = u

(* A reader that found no table reads as long as nothing is registered.        *)
NothingToFind ==
    \A t \in Thread :
       pc[t] \in {"f_unlock", "f_read"} /\ data[t] = NULL
          => \A x \in InterpreterId : Registered(x) = NULL

(* The inductive invariant: every block in use is a table, whoever works on     *)
(* one, and what a call has seen still holds when it acts on it.                *)
LookupInv ==
    /\ ProtocolInv
    /\ Blocks /\ Fresh
    /\ CallsMade /\ Removing
    /\ NothingToFind
    /\ result = [t \in Thread |-> result[t]]

LEMMA InitLookup == Init => LookupInv
<1> SUFFICES ASSUME Init PROVE LookupInv
  OBVIOUS
<1>1. ProtocolInv
  BY InitProtocol
<1>2. Blocks /\ Fresh /\ NothingToFind /\ result = [t \in Thread |-> result[t]]
  BY DEF Init, Blocks, Fresh, NothingToFind
<1>3. CallsMade /\ Removing
  BY DEF Init, CallsMade, Removing, NoCall, FindPcs, WritePcs
<1>4. QED
  BY <1>1, <1>2, <1>3 DEF LookupInv

(* Outside the critical part of AddModule and RemoveModule no step touches a    *)
(* block or changes which one is the table, whoever holds it.                   *)
Quiet(t) == \/ Start(t) \/ Find(t) \/ WriterLock(t) \/ WriterSwap(t) \/ AddCallocFails(t)
            \/ WaitUntilNoReaders(t) \/ WriterPublish(t) \/ WriterReturn(t)
Kept == UNCHANGED <<heap, live>> /\ Current' = Current

LEMMA QuietKeeps ==
    ASSUME ProtocolInv, NEW t \in Thread, Quiet(t)
    PROVE  Kept
<1> USE DEF ProtocolInv, TypeOK, MutexOwned, OwnerPcs, TakenPcs, Current, Taken, Kept
<1>1. CASE Start(t)
  BY <1>1 DEF Start, CallFind, CallAdd, CallRemove, Begin, Goto, shared
<1>2. CASE FindLoad(t) \/ FindIncr(t) \/ FindCheck(t) \/ FindUndo(t)
  BY <1>2 DEF FindLoad, FindIncr, FindCheck, FindUndo, Goto, shared
<1>3. CASE FindLock(t) \/ FindIncrLocked(t) \/ FindLoadLocked(t) \/ FindUnlock(t)
  BY <1>3 DEF FindLock, FindIncrLocked, FindLoadLocked, FindUnlock, Goto, shared
<1>4. CASE FindRead(t) \/ FindReturn(t)
  BY <1>4 DEF FindRead, FindReturn, Return, Goto, shared
<1>5. CASE WriterLock(t) \/ AddCallocFails(t) \/ WaitUntilNoReaders(t) \/ WriterPublish(t)
  BY <1>5 DEF WriterLock, AddCallocFails, WaitUntilNoReaders, WriterPublish, Goto, shared
<1>6. CASE WriterSwap(t)
  BY <1>6 DEF WriterSwap, Goto
<1>7. CASE WriterReturn(t)
  BY <1>7 DEF WriterReturn, Return
<1>8. QED
  BY <1>1, <1>2, <1>3, <1>4, <1>5, <1>6, <1>7 DEF Quiet, Find

LEMMA KeptMeaning ==
    ASSUME Kept
    PROVE  \A x : Registered(x)' = Registered(x)
BY DEF Kept, Registered

(* The table AddModule allocates means nothing, like the null pointer before.  *)
LEMMA CallocEffect ==
    ASSUME LookupInv, NEW t \in Thread, AddCalloc(t)
    PROVE  /\ Blocks' /\ heap'[data'[t]] = CallocTable
           /\ \A x \in Nat : Registered(x)' = Registered(x)
<1>1. PICK a \in FreeAddr : /\ heap' = [heap EXCEPT ![a] = CallocTable]
                            /\ live' = live \cup {a}
                            /\ data' = [data EXCEPT ![t] = a]
  BY DEF AddCalloc
<1>2. pc[t] = "w_alloc" /\ pc' = [pc EXCEPT ![t] = "w_wait"] /\ mutex' = mutex
  BY DEF AddCalloc, Goto
<1>3. a \in Addr /\ a \notin live /\ heap = [b \in Addr |-> heap[b]] /\ \A b \in live : b \in Addr /\ IsTable(heap[b])
  BY DEF FreeAddr, LookupInv, ProtocolInv, TypeOK, Blocks
<1>4. heap' = [b \in Addr |-> heap'[b]] /\ heap'[a] = CallocTable /\ \A b \in live : heap'[b] = heap[b]
  BY <1>1, <1>3
<1>5. Blocks'
  BY <1>1, <1>3, <1>4, CallocIsTable DEF Blocks
<1>6. mutex = t /\ data[t] = NULL /\ NULL \notin live
  BY <1>2, <1>3 DEF LookupInv, ProtocolInv, MutexOwned, WriterState, OwnerPcs
<1>7. Current = NULL /\ Current' = a /\ data'[t] = a
  BY <1>1, <1>2, <1>6 DEF LookupInv, ProtocolInv, TypeOK, Current, Taken, TakenPcs
<1>8. ASSUME NEW x \in Nat PROVE Registered(x)' = Registered(x)
  <2>1. Registered(x) = NULL
    BY <1>6, <1>7 DEF Registered
  <2>2. Registered(x)' = Meaning(CallocTable, x)
    BY <1>1, <1>4, <1>7 DEF Registered
  <2>3. QED
    BY <2>1, <2>2, CallocIsTable
<1>9. QED
  BY <1>4, <1>5, <1>7, <1>8

(* What AddModule stores, in place or in a moved block, is the only thing that *)
(* changes on the heap.                                                        *)
LEMMA StoreTables ==
    ASSUME LookupInv, NEW t \in Thread, data[t] \in live,
           NEW d, IsTable(d), Store(t, d) \/ StoreMoved(t, d)
    PROVE  /\ Blocks' /\ data'[t] \in live' /\ heap'[data'[t]] = d
           /\ result' = [result EXCEPT ![t] = OK]
<1>1. /\ data[t] \in Addr /\ live \subseteq Addr /\ heap = [b \in Addr |-> heap[b]] /\ (\A b \in live : IsTable(heap[b]))
      /\ data \in [Thread -> Addr \cup {NULL}]
  BY DEF LookupInv, ProtocolInv, TypeOK, Blocks
<1>2. CASE Store(t, d)
  <2>1. /\ heap' = [heap EXCEPT ![data[t]] = d] /\ live' = live /\ data' = data
        /\ result' = [result EXCEPT ![t] = OK]
    BY <1>2 DEF Store
  <2>2. heap' = [b \in Addr |-> heap'[b]] /\ heap'[data[t]] = d /\ \A b \in live : b # data[t] => heap'[b] = heap[b]
    BY <1>1, <2>1
  <2>3. QED
    BY <1>1, <2>1, <2>2 DEF Blocks
<1>3. CASE StoreMoved(t, d)
  <2>1. PICK a \in FreeAddr \cup {data[t]} :
               /\ heap' = [[heap EXCEPT ![data[t]] = NULL] EXCEPT ![a] = d]
               /\ live' = (live \ {data[t]}) \cup {a}
               /\ data' = [data EXCEPT ![t] = a]
               /\ result' = [result EXCEPT ![t] = OK]
    BY <1>3 DEF StoreMoved
  <2>2. a \in Addr /\ data'[t] = a
    BY <1>1, <2>1 DEF FreeAddr
  <2>3. heap' = [b \in Addr |-> heap'[b]] /\ heap'[a] = d /\ \A b \in live \ {data[t]} : b # a => heap'[b] = heap[b]
    BY <1>1, <2>1, <2>2
  <2>4. Blocks'
    BY <1>1, <2>1, <2>3 DEF Blocks
  <2>5. QED
    BY <2>1, <2>2, <2>3, <2>4
<1>4. QED
  BY <1>2, <1>3

(* Where a writer is, the table it holds is what is registered.                *)
LEMMA WriterHolds ==
    ASSUME LookupInv, NEW t \in Thread, pc[t] = "w_mutate",
           pc' = [pc EXCEPT ![t] = "w_publish"], mutex' = mutex
    PROVE  Current = data[t] /\ Current' = data'[t] /\ mutex = t /\ call[t] \in Calls
           /\ NULL \notin live
<1>1. mutex = t /\ pc \in [Thread -> Pcs] /\ live \subseteq Addr
  BY DEF LookupInv, ProtocolInv, TypeOK, MutexOwned, OwnerPcs
<1>2. QED
  BY <1>1 DEF LookupInv, CallsMade, Current, Taken, TakenPcs

(* AddModule at its one step that counts: it registers its module for its       *)
(* interpreter, or fails and changes nothing, whatever realloc does.            *)
LEMMA AddEffect ==
    ASSUME LookupInv, NEW t \in Thread, AddMutate(t)
    PROVE  /\ Blocks'
           /\ \/ /\ result' = [result EXCEPT ![t] = OK]
                 /\ \A y \in Nat : Registered(y)' = IF y = call[t].id THEN call[t].module ELSE Registered(y)
              \/ /\ result' = [result EXCEPT ![t] = ERROR]
                 /\ \A y \in Nat : Registered(y)' = Registered(y)
<1> DEFINE d == heap[data[t]]
           x == call[t].id
           m == call[t].module
<1>1. /\ call[t].op = "add" /\ pc[t] = "w_mutate" /\ pc' = [pc EXCEPT ![t] = "w_publish"] /\ mutex' = mutex
      /\ AddAsIndex(t) \/ AddSorted(t)
  BY DEF AddMutate, Goto
<1>2. Current = data[t] /\ Current' = data'[t] /\ mutex = t /\ call[t] \in Calls /\ NULL \notin live
  BY <1>1, WriterHolds
<1>3. data[t] \in live /\ oldData[t] \in {NULL, data[t]} /\ (oldData[t] = NULL => d = CallocTable)
  BY <1>1, <1>2 DEF LookupInv, ProtocolInv, WriterState, Fresh
<1>4. x \in Nat /\ m \in Module
  BY <1>1, <1>2, InterpreterIdAssumption DEF LookupInv, CallsMade, Calls
<1>5. IsTable(d) /\ live \subseteq Addr /\ heap = [b \in Addr |-> heap[b]] /\ data \in [Thread -> Addr \cup {NULL}]
  BY <1>3 DEF LookupInv, ProtocolInv, TypeOK, Blocks
<1>6. \A y \in Nat : Registered(y) = Meaning(d, y)
  BY <1>2, <1>3 DEF Registered
<1>7. ASSUME NEW e, Store(t, e) \/ StoreMoved(t, e), Updates(e, d, x, m)
      PROVE  /\ Blocks' /\ result' = [result EXCEPT ![t] = OK]
             /\ \A y \in Nat : Registered(y)' = IF y = x THEN m ELSE Registered(y)
  <2>1. Blocks' /\ data'[t] \in live' /\ heap'[data'[t]] = e /\ result' = [result EXCEPT ![t] = OK]
    BY <1>3, <1>7, StoreTables DEF Updates
  <2>2. \A y \in Nat : Registered(y)' = Meaning(e, y)
    BY <1>2, <2>1 DEF Registered
  <2>3. QED
    BY <1>6, <1>7, <2>1, <2>2 DEF Updates
<1>8. CASE AddAsIndex(t)
  <2> DEFINE n == IndexCapacity(d.allocated, x)
             e == IndexStore(Realloc(d, n, [k \in 0..n-1 |-> Entry(k, NULL)]), x, m)
  <2>1. /\ d.asIndex /\ x < SMALL_SIZE
        /\ \/ Store(t, e) \/ StoreMoved(t, e)
           \/ result' = [result EXCEPT ![t] = ERROR] /\ UNCHANGED <<heap, live, data>>
    BY <1>8, Zenon DEF AddAsIndex
  <2>2. Updates(e, d, x, m)
    BY <1>4, <1>5, <2>1, IndexStoreUpdates
  <2> HIDE DEF e
  <2>3. CASE Store(t, e) \/ StoreMoved(t, e)
    BY <1>7, <2>2, <2>3
  <2>4. CASE result' = [result EXCEPT ![t] = ERROR] /\ UNCHANGED <<heap, live, data>>
    <3>1. Blocks'
      BY <2>4 DEF LookupInv, Blocks
    <3>2. Kept
      BY <1>2, <2>4 DEF Kept
    <3>3. QED
      BY <2>4, <3>1, <3>2, KeptMeaning
  <2>5. QED
    BY <2>1, <2>3, <2>4
<1>9. CASE AddSorted(t)
  <2> DEFINE c == IF d.asIndex THEN Convert(d) ELSE d
             k == LowerBound(c, x)
             n == SortedCapacity(c)
             e == SortedInsertAt(Realloc(c, n, [j \in 0..n-1 |-> UNINIT]), k, Entry(x, m))
             o == SortedOverwrite(c, k, m)
  <2>1. \/ Holds(c, k, x) /\ Store(t, o)
        \/ ~Holds(c, k, x) /\ (Store(t, e) \/ StoreMoved(t, e))
        \/ /\ heap' = [heap EXCEPT ![data[t]] = c]
           /\ data' = [data EXCEPT ![t] = oldData[t]]
           /\ result' = [result EXCEPT ![t] = ERROR]
           /\ live' = live
    BY <1>9, Zenon DEF AddSorted
  <2>2. IsTable(c) /\ ~c.asIndex /\ \A y \in Nat : Meaning(c, y) = Meaning(d, y)
    BY <1>5, ConvertKeeps
  <2> HIDE DEF c
  <2>3. ASSUME NEW f, Updates(f, c, x, m) PROVE Updates(f, d, x, m)
    BY <2>2, <2>3 DEF Updates
  <2>4. CASE Holds(c, k, x) /\ Store(t, o)
    <3>1. k \in 0..c.count-1 /\ c.table[k].id = x
      <4>1. k \in 0..c.count /\ c.count \in Nat
        BY <1>4, <2>2, LowerBoundSplits, TableFacts DEF SplitsAt
      <4>2. k < c.count /\ c.table[k].id = x
        BY <2>4 DEF Holds
      <4> HIDE DEF k
      <4>3. QED
        BY <4>1, <4>2
    <3>2. Updates(o, d, x, m)
      BY <1>4, <2>2, <2>3, <3>1, OverwriteUpdates
    <3> HIDE DEF o
    <3>3. QED
      BY <1>7, <2>4, <3>2
  <2>5. CASE ~Holds(c, k, x) /\ (Store(t, e) \/ StoreMoved(t, e))
    <3>1. Updates(e, d, x, m)
      BY <1>4, <2>2, <2>3, <2>5, InsertUpdates
    <3> HIDE DEF e
    <3>2. QED
      BY <1>7, <2>5, <3>1
  <2>6. CASE /\ heap' = [heap EXCEPT ![data[t]] = c]
             /\ data' = [data EXCEPT ![t] = oldData[t]]
             /\ result' = [result EXCEPT ![t] = ERROR]
             /\ live' = live
    <3>1. heap' = [b \in Addr |-> heap'[b]] /\ heap'[data[t]] = c /\ \A b \in live : b # data[t] => heap'[b] = heap[b]
      BY <1>3, <1>5, <2>6
    <3>2. Blocks'
      BY <2>2, <2>6, <3>1 DEF LookupInv, Blocks
    <3>3. data'[t] = oldData[t]
      BY <1>5, <2>6
    <3>4. CASE oldData[t] = data[t]
      <4>1. \A y \in Nat : Registered(y)' = Meaning(c, y)
        BY <1>2, <1>3, <2>6, <3>1, <3>3, <3>4 DEF Registered
      <4>2. QED
        BY <1>6, <2>2, <2>6, <3>2, <4>1
    <3>5. CASE oldData[t] = NULL
      <4>1. \A y \in Nat : Registered(y)' = NULL
        BY <1>2, <2>6, <3>3, <3>5 DEF Registered
      <4>2. \A y \in Nat : Registered(y) = NULL
        BY <1>3, <1>6, <3>5, CallocIsTable
      <4>3. QED
        BY <2>6, <3>2, <4>1, <4>2
    <3>6. QED
      BY <1>3, <3>4, <3>5
  <2>7. QED
    BY <2>1, <2>4, <2>5, <2>6
<1>10. QED
  BY <1>1, <1>8, <1>9

(* RemoveModule at its one step that counts: its interpreter, and no other, is *)
(* unregistered.  The bisection finds the entry because it is still there.     *)
LEMMA RemoveEffect ==
    ASSUME LookupInv, NEW t \in Thread, RemoveMutate(t)
    PROVE  /\ Blocks' /\ result' = [result EXCEPT ![t] = OK]
           /\ \A y \in Nat : Registered(y)' = IF y = call[t].id THEN NULL ELSE Registered(y)
<1> DEFINE d == heap[data[t]]
           x == call[t].id
           k == LowerBound(d, x)
<1>1. /\ call[t].op = "remove" /\ pc[t] = "w_mutate" /\ pc' = [pc EXCEPT ![t] = "w_publish"] /\ mutex' = mutex
      /\ result' = [result EXCEPT ![t] = OK]
      /\ \/ d.asIndex /\ heap' = [heap EXCEPT ![data[t]] = IndexClear(d, x)] /\ UNCHANGED <<live, data>>
         \/ ~d.asIndex /\ RemoveSorted(t)
  BY DEF RemoveMutate, Goto
<1>2. Current = data[t] /\ Current' = data'[t] /\ mutex = t /\ call[t] \in Calls /\ NULL \notin live
  BY <1>1, WriterHolds
<1>3. Registered(x) # NULL
  <2>1. x \in InterpreterId
    BY <1>2 DEF Calls
  <2>2. QED
    BY <1>1, <2>1 DEF LookupInv, Removing
<1>4. data[t] \in live /\ x \in Nat
  BY <1>2, <1>3, InterpreterIdAssumption DEF Registered, Calls
<1>5. IsTable(d) /\ live \subseteq Addr /\ heap = [b \in Addr |-> heap[b]] /\ data \in [Thread -> Addr \cup {NULL}]
  BY <1>4 DEF LookupInv, ProtocolInv, TypeOK, Blocks
<1>6. \A y \in Nat : Registered(y) = Meaning(d, y)
  BY <1>2, <1>4 DEF Registered
<1>7. ASSUME NEW e, heap' = [heap EXCEPT ![data[t]] = e], UNCHANGED <<live, data>>, Updates(e, d, x, NULL)
      PROVE  Blocks' /\ \A y \in Nat : Registered(y)' = IF y = x THEN NULL ELSE Registered(y)
  <2>1. heap' = [b \in Addr |-> heap'[b]] /\ heap'[data[t]] = e /\ \A b \in live : b # data[t] => heap'[b] = heap[b]
    BY <1>4, <1>5, <1>7
  <2>2. Blocks'
    BY <1>7, <2>1 DEF LookupInv, Blocks, Updates
  <2>3. \A y \in Nat : Registered(y)' = Meaning(e, y)
    BY <1>2, <1>4, <1>7, <2>1 DEF Registered
  <2>4. QED
    BY <1>6, <1>7, <2>2, <2>3 DEF Updates
<1>8. CASE d.asIndex
  <2>1. heap' = [heap EXCEPT ![data[t]] = IndexClear(d, x)] /\ UNCHANGED <<live, data>>
    BY <1>1, <1>8
  <2> DEFINE e == IndexClear(d, x)
  <2>2. Updates(e, d, x, NULL)
    BY <1>4, <1>5, <1>8, IndexClearUpdates
  <2>3. heap' = [heap EXCEPT ![data[t]] = e] /\ UNCHANGED <<live, data>>
    BY <2>1
  <2> HIDE DEF e
  <2>4. QED
    BY <1>1, <1>7, <2>2, <2>3
<1>9. CASE ~d.asIndex
  <2>1. PICK j \in 0..d.count-1 : d.table[j].id = x
    <3>1. Meaning(d, x) # NULL
      BY <1>3, <1>4, <1>6
    <3>2. PICK m \in Module : Listed(d, x, m)
      BY <1>4, <1>5, <3>1, MeaningListed
    <3>3. QED
      BY <3>2 DEF Listed
  <2>2. k = j /\ k \in 0..d.count-1 /\ d.table[k].id = x
    BY <1>4, <1>5, <1>9, <2>1, LowerBoundFinds
  <2>3. \/ /\ d.count = 1
           /\ heap' = [heap EXCEPT ![data[t]] = NULL]
           /\ live' = live \ {data[t]}
           /\ data' = [data EXCEPT ![t] = NULL]
        \/ heap' = [heap EXCEPT ![data[t]] = SortedRemoveAt(d, k)] /\ UNCHANGED <<live, data>>
    BY <1>1, <1>9, <2>2 DEF RemoveSorted
  <2> HIDE DEF k
  <2>4. CASE heap' = [heap EXCEPT ![data[t]] = SortedRemoveAt(d, k)] /\ UNCHANGED <<live, data>>
    <3>1. Updates(SortedRemoveAt(d, k), d, x, NULL)
      BY <1>4, <1>5, <1>9, <2>2, RemoveAtUpdates
    <3>2. QED
      BY <1>1, <1>7, <2>4, <3>1
  <2>5. CASE /\ d.count = 1
             /\ heap' = [heap EXCEPT ![data[t]] = NULL]
             /\ live' = live \ {data[t]}
             /\ data' = [data EXCEPT ![t] = NULL]
    <3>1. heap' = [b \in Addr |-> heap'[b]] /\ \A b \in live' : heap'[b] = heap[b]
      BY <1>5, <2>5
    <3>2. Blocks'
      BY <2>5, <3>1 DEF LookupInv, Blocks
    <3>3. \A y \in Nat : Registered(y)' = NULL
      BY <1>2, <1>5, <2>5 DEF Registered
    <3>4. ASSUME NEW y \in Nat, y # x PROVE Registered(y) = NULL
      <4>1. \A i \in 0..d.count-1 : i = k
        BY <2>2, <2>5
      <4>2. ~\E i \in 0..d.count-1 : d.table[i].id = y
        BY <2>2, <3>4, <4>1
      <4>3. QED
        BY <1>6, <1>9, <4>2 DEF Meaning
    <3>5. QED
      BY <1>1, <3>2, <3>3, <3>4
  <2>6. QED
    BY <2>3, <2>4, <2>5
<1>10. QED
  BY <1>8, <1>9

(* The five conjuncts of the invariant that speak about the callers' view; each *)
(* for a step of one thread.                                                   *)
LEMMA BlocksStep ==
    ASSUME LookupInv, NEW t \in Thread, Quiet(t) \/ AddCalloc(t) \/ AddMutate(t) \/ RemoveMutate(t)
    PROVE  Blocks' /\ (result = [u \in Thread |-> result[u]])'
<1>1. CASE Quiet(t)
  <2>1. Blocks'
    BY <1>1, QuietKeeps DEF LookupInv, Blocks, Kept
  <2>2. result' = result \/ \E v : result' = [result EXCEPT ![t] = v]
    BY <1>1 DEF Quiet, Start, Find, CallFind, CallAdd, CallRemove, Begin, FindLoad, FindIncr, FindCheck, FindUndo,
       FindLock, FindIncrLocked, FindLoadLocked, FindUnlock, FindRead, FindReturn, Return, WriterLock, WriterSwap,
       AddCallocFails, WaitUntilNoReaders, WriterPublish, WriterReturn
  <2>3. QED
    BY <2>1, <2>2 DEF LookupInv
<1>2. CASE AddCalloc(t)
  BY <1>2, CallocEffect DEF AddCalloc, LookupInv
<1>3. CASE AddMutate(t)
  BY <1>3, AddEffect DEF LookupInv
<1>4. CASE RemoveMutate(t)
  BY <1>4, RemoveEffect DEF LookupInv
<1>5. QED
  BY <1>1, <1>2, <1>3, <1>4

LEMMA CallsStep ==
    ASSUME LookupInv, NEW t \in Thread, Start(t) \/ Find(t) \/ Write(t)
    PROVE  CallsMade'
<1>1. pc \in [Thread -> Pcs] /\ call \in [Thread -> Calls \cup {NoCall}] /\ CallsMade
  BY DEF LookupInv, ProtocolInv, TypeOK
<1>2. CASE Start(t)
  <2>1. \E op \in Ops, x \in InterpreterId, m \in Module \cup {NULL}, first \in {"f_load", "w_lock"} :
           /\ call' = [call EXCEPT ![t] = [op |-> op, id |-> x, module |-> m]]
           /\ pc' = [pc EXCEPT ![t] = first]
           /\ (op = "find" /\ first = "f_load") \/ (op \in {"add", "remove"} /\ first = "w_lock")
           /\ op = "add" => m \in Module
    BY <1>2 DEF Start, CallFind, CallRemove, CallAdd, Begin, Goto, Ops
  <2>2. QED
    BY <1>1, <2>1 DEF CallsMade, Calls, Ops, FindPcs, WritePcs
<1>3. CASE FindReturn(t) \/ WriterReturn(t)
  BY <1>1, <1>3 DEF FindReturn, WriterReturn, Return, CallsMade, NoCall, FindPcs, WritePcs
<1>4. CASE ~(Start(t) \/ FindReturn(t) \/ WriterReturn(t))
  <2>1. call' = call /\ \E q : /\ pc' = [pc EXCEPT ![t] = q]
                               /\ (pc[t] \in FindPcs /\ q \in FindPcs) \/ (pc[t] \in WritePcs /\ q \in WritePcs)
    <3>1. CASE Find(t)
      BY <1>4, <3>1 DEF Find, FindLoad, FindIncr, FindCheck, FindUndo, FindLock, FindIncrLocked, FindLoadLocked,
         FindUnlock, FindRead, Goto, FindPcs
    <3>2. CASE Write(t)
      BY <1>4, <3>2 DEF Write, WriterLock, WriterSwap, AddCalloc, AddCallocFails, WaitUntilNoReaders, AddMutate,
         RemoveMutate, WriterPublish, Goto, WritePcs
    <3>3. QED
      BY <1>4, <3>1, <3>2
  <2>2. QED
    BY <1>1, <2>1 DEF CallsMade, FindPcs, WritePcs
<1>5. QED
  BY <1>2, <1>3, <1>4

LEMMA FreshStep ==
    ASSUME LookupInv, NEW t \in Thread, Start(t) \/ Find(t) \/ Write(t)
    PROVE  Fresh'
<1>1. /\ pc \in [Thread -> Pcs] /\ data \in [Thread -> Addr \cup {NULL}] /\ oldData \in [Thread -> Addr \cup {NULL}]
      /\ call \in [Thread -> Calls \cup {NoCall}]
      /\ \A u \in Thread : mutex = u <=> pc[u] \in OwnerPcs
      /\ Fresh
  BY DEF LookupInv, ProtocolInv, TypeOK, MutexOwned
<1>2. SUFFICES ASSUME NEW u \in Thread, pc'[u] \in {"w_wait", "w_mutate"}, call'[u].op = "add", oldData'[u] = NULL
               PROVE  heap'[data'[u]] = CallocTable
  BY DEF Fresh
<1>3. CASE Start(t)
  BY <1>1, <1>2, <1>3 DEF Start, CallFind, CallRemove, CallAdd, Begin, Goto, shared, Fresh
<1>4. CASE Find(t)
  <2>1. CASE FindReturn(t)
    BY <1>1, <1>2, <2>1 DEF FindReturn, Return, Fresh
  <2>2. CASE ~FindReturn(t)
    BY <1>1, <1>2, <1>4, <2>2 DEF Find, FindLoad, FindIncr, FindCheck, FindUndo, FindLock, FindIncrLocked,
       FindLoadLocked, FindUnlock, FindRead, Goto, shared, Fresh
  <2>3. QED
    BY <2>1, <2>2
<1>5. CASE WriterLock(t) \/ AddCallocFails(t) \/ WaitUntilNoReaders(t) \/ WriterPublish(t)
  BY <1>1, <1>2, <1>5 DEF WriterLock, AddCallocFails, WaitUntilNoReaders, WriterPublish, Goto, shared, Fresh
<1>6. CASE WriterSwap(t)
  BY <1>1, <1>2, <1>6 DEF WriterSwap, Goto, Fresh
<1>7. CASE WriterReturn(t)
  BY <1>1, <1>2, <1>7 DEF WriterReturn, Return, Fresh
<1>8. CASE AddCalloc(t)
  <2>1. u = t
    BY <1>1, <1>2, <1>8 DEF AddCalloc, Goto, OwnerPcs
  <2>2. QED
    BY <1>8, <2>1, CallocEffect
<1>9. CASE AddMutate(t) \/ RemoveMutate(t)
  BY <1>1, <1>2, <1>9 DEF AddMutate, RemoveMutate, Goto, OwnerPcs
<1>10. QED
  BY <1>3, <1>4, <1>5, <1>6, <1>7, <1>8, <1>9 DEF Write

LEMMA QuietOrNot ==
    ASSUME NEW t \in Thread, Start(t) \/ Find(t) \/ Write(t)
    PROVE  Quiet(t) \/ AddCalloc(t) \/ AddMutate(t) \/ RemoveMutate(t)
BY DEF Quiet, Write

LEMMA RemovingStep ==
    ASSUME LookupInv, NEW t \in Thread, Start(t) \/ Find(t) \/ Write(t)
    PROVE  Removing'
<1> DEFINE W == {"w_lock", "w_swap", "w_wait", "w_mutate"}
<1>1. /\ pc \in [Thread -> Pcs] /\ call \in [Thread -> Calls \cup {NoCall}]
      /\ InterpreterId \subseteq Nat
      /\ \A u \in Thread : pc[u] \in FindPcs => call[u].op = "find"
      /\ Removing
  BY InterpreterIdAssumption DEF LookupInv, ProtocolInv, TypeOK, CallsMade
<1>2. CASE Quiet(t)
  <2>1. \A x : Registered(x)' = Registered(x)
    BY <1>2, QuietKeeps, KeptMeaning DEF LookupInv
  <2>2. CASE Start(t)
    <3>1. \E op \in Ops, x \in InterpreterId, m \in Module \cup {NULL}, first \in {"f_load", "w_lock"} :
           /\ call' = [call EXCEPT ![t] = [op |-> op, id |-> x, module |-> m]]
           /\ pc' = [pc EXCEPT ![t] = first]
           /\ op = "remove" => /\ Registered(x) # NULL
                               /\ \A u \in Thread : ~(call[u].op = "remove" /\ call[u].id = x)
      BY <2>2 DEF Start, CallFind, CallRemove, CallAdd, Begin, Goto, Ops
    <3>2. PICK op \in Ops, x \in InterpreterId, m \in Module \cup {NULL}, first \in {"f_load", "w_lock"} :
           /\ call' = [call EXCEPT ![t] = [op |-> op, id |-> x, module |-> m]]
           /\ pc' = [pc EXCEPT ![t] = first]
           /\ op = "remove" => /\ Registered(x) # NULL
                               /\ \A u \in Thread : ~(call[u].op = "remove" /\ call[u].id = x)
      BY <3>1
    <3>3. call'[t].op = op /\ call'[t].id = x /\ \A u \in Thread \ {t} : call'[u] = call[u] /\ pc'[u] = pc[u]
      BY <1>1, <3>2
    <3>4. ASSUME NEW u \in Thread, NEW y \in InterpreterId, call'[u].op = "remove", call'[u].id = y, pc'[u] \in W
          PROVE  Registered(y) # NULL
      <4>1. CASE u = t
        BY <3>2, <3>3, <3>4, <4>1
      <4>2. CASE u # t
        BY <1>1, <3>3, <3>4, <4>2 DEF Removing
      <4>3. QED
        BY <4>1, <4>2
    <3>5. ASSUME NEW u \in Thread, NEW v \in Thread,
                 call'[u].op = "remove", call'[v].op = "remove", call'[u].id = call'[v].id
          PROVE  u = v
      BY <1>1, <3>2, <3>3, <3>5 DEF Removing
    <3>6. QED
      BY <2>1, <3>4, <3>5 DEF Removing
  <2>3. CASE ~Start(t)
    <3>1. call' = call \/ call' = [call EXCEPT ![t] = NoCall]
      BY <1>2, <2>3 DEF Quiet, Find, FindLoad, FindIncr, FindCheck, FindUndo, FindLock, FindIncrLocked,
         FindLoadLocked, FindUnlock, FindRead, FindReturn, Return, WriterLock, WriterSwap, AddCallocFails,
         WaitUntilNoReaders, WriterPublish, WriterReturn, shared
    <3>2. ASSUME NEW u \in Thread, call'[u].op = "remove"
          PROVE  call'[u] = call[u] /\ (pc'[u] \in W => pc[u] \in W)
      <4>1. call'[u] = call[u]
        BY <1>1, <3>1, <3>2 DEF NoCall
      <4>2. pc[u] \notin FindPcs /\ call[u].op = "remove"
        BY <1>1, <3>2, <4>1
      <4>3. pc'[u] \in W => pc[u] \in W
        BY <1>1, <1>2, <2>3, <4>2 DEF Quiet, Find, FindLoad, FindIncr, FindCheck, FindUndo, FindLock, FindIncrLocked,
           FindLoadLocked, FindUnlock, FindRead, FindReturn, Return, WriterLock, WriterSwap, AddCallocFails,
           WaitUntilNoReaders, WriterPublish, WriterReturn, Goto, FindPcs
      <4>4. QED
        BY <4>1, <4>3
    <3>3. ASSUME NEW u \in Thread, NEW y \in InterpreterId, call'[u].op = "remove", call'[u].id = y, pc'[u] \in W
          PROVE  Registered(y) # NULL
      BY <1>1, <3>2, <3>3 DEF Removing
    <3>4. ASSUME NEW u \in Thread, NEW v \in Thread,
                 call'[u].op = "remove", call'[v].op = "remove", call'[u].id = call'[v].id
          PROVE  u = v
      BY <1>1, <3>2, <3>4 DEF Removing
    <3>5. QED
      BY <2>1, <3>3, <3>4 DEF Removing
  <2>4. QED
    BY <2>2, <2>3
<1>3. CASE AddCalloc(t) \/ AddMutate(t) \/ RemoveMutate(t)
  <2>1. call' = call /\ \A u \in Thread \ {t} : pc'[u] = pc[u]
    BY <1>1, <1>3 DEF AddCalloc, AddMutate, RemoveMutate, Goto
  <2>2. call[t].op = "remove" => RemoveMutate(t) /\ pc[t] \in W /\ pc'[t] \notin W
    BY <1>1, <1>3 DEF AddCalloc, AddMutate, RemoveMutate, Goto, LookupInv, ProtocolInv, WriterState
  <2>3. RemoveMutate(t) => call[t].op = "remove"
    BY DEF RemoveMutate
  <2>4. ASSUME NEW u \in Thread, NEW x \in InterpreterId, call[u].op = "remove", call[u].id = x, pc'[u] \in W
        PROVE  Registered(x)' # NULL
    <3>1. u # t /\ pc[u] \in W
      BY <2>1, <2>2, <2>4
    <3>2. Registered(x) # NULL /\ x \in Nat
      BY <1>1, <2>4, <3>1 DEF Removing
    <3>3. RemoveMutate(t) => x # call[t].id
      BY <1>1, <2>3, <2>4, <3>1 DEF Removing
    <3>4. CASE AddCalloc(t)
      BY <3>2, <3>4, CallocEffect
    <3>5. CASE AddMutate(t)
      <4>1. call[t].module \in Module
        BY <3>5 DEF AddMutate, LookupInv, CallsMade
      <4>2. QED
        BY <3>2, <3>5, <4>1, AddEffect
    <3>6. CASE RemoveMutate(t)
      BY <3>2, <3>3, <3>6, RemoveEffect
    <3>7. QED
      BY <1>3, <3>4, <3>5, <3>6
  <2>5. QED
    BY <1>1, <2>1, <2>4 DEF Removing
<1>4. QED
  BY <1>2, <1>3, QuietOrNot

LEMMA NothingStep ==
    ASSUME LookupInv, NEW t \in Thread, Start(t) \/ Find(t) \/ Write(t)
    PROVE  NothingToFind'
<1> DEFINE R == {"f_unlock", "f_read"}
<1>1. /\ pc \in [Thread -> Pcs] /\ data \in [Thread -> Addr \cup {NULL}] /\ live \subseteq Addr
      /\ \A u \in Thread : mutex = u <=> pc[u] \in OwnerPcs
      /\ NothingToFind
  BY DEF LookupInv, ProtocolInv, TypeOK, MutexOwned
<1>2. ASSUME NEW u \in Thread, pc[u] \in R, data[u] = NULL, NEW x \in InterpreterId
      PROVE  Registered(x) = NULL /\ x \in Nat
  BY <1>1, <1>2, InterpreterIdAssumption DEF NothingToFind
<1>3. CASE Quiet(t) /\ ~FindLoadLocked(t)
  <2>1. \A x : Registered(x)' = Registered(x)
    BY <1>3, QuietKeeps, KeptMeaning DEF LookupInv
  <2>2. ASSUME NEW u \in Thread, pc'[u] \in R, data'[u] = NULL
        PROVE  pc[u] \in R /\ data[u] = NULL
    BY <1>1, <1>3, <2>2 DEF Quiet, Start, CallFind, CallRemove, CallAdd, Begin, Find, FindLoad, FindIncr, FindCheck,
       FindUndo, FindLock, FindIncrLocked, FindUnlock, FindRead, FindReturn, Return, WriterLock, WriterSwap,
       AddCallocFails, WaitUntilNoReaders, WriterPublish, WriterReturn, Goto
  <2>3. QED
    BY <1>2, <2>1, <2>2 DEF NothingToFind
<1>4. CASE FindLoadLocked(t)
  <2>1. \A x : Registered(x)' = Registered(x)
    BY <1>4, QuietKeeps, KeptMeaning DEF LookupInv, Quiet, Find
  <2>2. mutex = t /\ Current = lookupData
    BY <1>1, <1>4 DEF FindLoadLocked, Goto, OwnerPcs, Current, Taken, TakenPcs
  <2>3. ASSUME NEW u \in Thread, pc'[u] \in R, data'[u] = NULL, NEW x \in InterpreterId
        PROVE  Registered(x) = NULL
    <3>1. CASE u = t
      <4>1. Current = NULL
        BY <1>1, <1>4, <2>2, <2>3, <3>1 DEF FindLoadLocked
      <4>2. QED
        BY <1>1, <4>1 DEF Registered
    <3>2. CASE u # t
      <4>1. pc[u] \in R /\ data[u] = NULL
        BY <1>1, <1>4, <2>3, <3>2 DEF FindLoadLocked, Goto
      <4>2. QED
        BY <1>2, <4>1
    <3>3. QED
      BY <3>1, <3>2
  <2>4. QED
    BY <2>1, <2>3 DEF NothingToFind
<1>5. CASE AddCalloc(t) \/ AddMutate(t) \/ RemoveMutate(t)
  <2>1. ASSUME NEW u \in Thread, pc'[u] \in R
        PROVE  u # t /\ pc[u] \in R
    BY <1>1, <1>5, <2>1 DEF AddCalloc, AddMutate, RemoveMutate, Goto
  <2>2. ASSUME AddCalloc(t) \/ RemoveMutate(t), NEW u \in Thread, pc'[u] \in R, data'[u] = NULL
        PROVE  data[u] = NULL
    BY <1>1, <2>1, <2>2 DEF AddCalloc, RemoveMutate, RemoveSorted
  <2>3. ASSUME AddCalloc(t) \/ RemoveMutate(t), NEW u \in Thread, pc'[u] \in R, data'[u] = NULL, NEW x \in InterpreterId
        PROVE  Registered(x)' = NULL
    <3>1. Registered(x) = NULL /\ x \in Nat
      BY <1>2, <2>1, <2>2, <2>3
    <3>2. QED
      BY <2>3, <3>1, CallocEffect, RemoveEffect
  <2>4. AddMutate(t) => \A u \in Thread : pc[u] \notin R
    BY <1>1 DEF AddMutate, Goto, LookupInv, ProtocolInv, WriterState, InPlaceClear, OwnerPcs
  <2>5. QED
    BY <1>5, <2>1, <2>3, <2>4 DEF NothingToFind
<1>6. QED
  BY <1>3, <1>4, <1>5, QuietOrNot

LEMMA NextLookup == LookupInv /\ [Next]_vars => LookupInv'
<1> SUFFICES ASSUME LookupInv, [Next]_vars PROVE LookupInv'
  OBVIOUS
<1>1. ProtocolInv'
  BY NextProtocol DEF LookupInv
<1>2. CASE UNCHANGED vars
  <2>1. Kept
    BY <1>2 DEF vars, Kept, Current, Taken
  <2>2. \A x : Registered(x)' = Registered(x)
    BY <2>1, KeptMeaning
  <2>3. Blocks' /\ Fresh' /\ CallsMade' /\ (result = [t \in Thread |-> result[t]])'
    BY <1>2 DEF vars, LookupInv, Blocks, Fresh, CallsMade
  <2>4. Removing' /\ NothingToFind'
    BY <1>2, <2>2 DEF vars, LookupInv, Removing, NothingToFind
  <2>5. QED
    BY <1>1, <2>3, <2>4 DEF LookupInv
<1>3. CASE Next
  <2>1. PICK t \in Thread : Start(t) \/ Find(t) \/ Write(t)
    BY <1>3 DEF Next
  <2>2. QED
    BY <1>1, <2>1, QuietOrNot, BlocksStep, CallsStep, FreshStep, RemovingStep, NothingStep DEF LookupInv
<1>4. QED
  BY <1>2, <1>3

(* Whatever the threads do, the table stays a map: every block in use is well   *)
(* formed, what a removal looks for is there, and a reader that saw no table    *)
(* has nothing to find.                                                        *)
THEOREM LookupInvariant == Spec => []LookupInv
<1>1. QED
  BY InitLookup, NextLookup, PTL DEF Spec

(* No sequence of additions, conversions, moves and removals breaks a table.   *)
THEOREM TablesStayWellFormed == Spec => []TablesWellFormed
<1>1. LookupInv => TablesWellFormed
  BY DEF LookupInv, Blocks, IsTable, TablesWellFormed
<1>2. QED
  BY <1>1, LookupInvariant, PTL

(* A registered interpreter is found in every reachable table, by index or by   *)
(* bisection and scan.                                                         *)
THEOREM RegisteredAlwaysFound == Spec => []RegisteredFound
<1>1. ASSUME LookupInv, NEW x \in InterpreterId, Registered(x) # NULL
      PROVE  FindOutcomes(heap[Current], x) = {Registered(x)}
  <2>1. Current \in live /\ Registered(x) = Meaning(heap[Current], x)
    BY <1>1 DEF Registered
  <2>2. IsTable(heap[Current]) /\ x \in Nat
    BY <1>1, <2>1, InterpreterIdAssumption DEF LookupInv, Blocks
  <2>3. QED
    BY <1>1, <2>1, <2>2, FindFinds
<1>2. LookupInv => RegisteredFound
  BY <1>1 DEF RegisteredFound
<1>3. QED
  BY <1>2, LookupInvariant, PTL

-----------------------------------------------------------------------------
(* The calls as operations on a map.                                       *)

LEMMA PhaseStep ==
    ASSUME pc \in [Thread -> Pcs], NEW t \in Thread, NEW q, pc' = [pc EXCEPT ![t] = q]
    PROVE  Phases' = [Phases EXCEPT ![t] = PhaseOf(q)] /\ Phases[t] = PhaseOf(pc[t])
<1>1. \A u \in Thread : pc'[u] = IF u = t THEN q ELSE pc[u]
  OBVIOUS
<1>2. QED
  BY <1>1 DEF Phases

LEMMA SameMap ==
    ASSUME \A x \in Nat : Registered(x)' = Registered(x)
    PROVE  RegisteredMap' = RegisteredMap
BY InterpreterIdAssumption DEF RegisteredMap

LEMMA ChangedMap ==
    ASSUME NEW z \in InterpreterId, NEW m, \A x \in Nat : Registered(x)' = IF x = z THEN m ELSE Registered(x)
    PROVE  RegisteredMap' = [RegisteredMap EXCEPT ![z] = m]
BY InterpreterIdAssumption DEF RegisteredMap

(* A step inside a call that leaves the map alone.                              *)
LEMMA InnerStep ==
    ASSUME pc \in [Thread -> Pcs], NEW t \in Thread, NEW q, pc' = [pc EXCEPT ![t] = q], PhaseOf(q) = PhaseOf(pc[t]),
           \A x \in Nat : Registered(x)' = Registered(x), call' = call, result' = result
    PROVE  UNCHANGED Map!avars
<1>1. Phases' = Phases
  BY PhaseStep DEF Phases
<1>2. QED
  BY <1>1, SameMap DEF Map!avars

LEMMA InvokeStep ==
    ASSUME LookupInv, NEW t \in Thread, Start(t)
    PROVE  Map!Invoke(t)
<1>1. RegisteredMap' = RegisteredMap
  BY QuietKeeps, KeptMeaning, SameMap DEF LookupInv, Quiet
<1>2. \E op \in Ops, x \in InterpreterId, m \in Module \cup {NULL}, first \in {"f_load", "w_lock"} :
           /\ call' = [call EXCEPT ![t] = [op |-> op, id |-> x, module |-> m]]
           /\ pc[t] = "idle" /\ pc' = [pc EXCEPT ![t] = first]
           /\ result' = result
  BY DEF Start, CallFind, CallRemove, CallAdd, Begin, Goto, Ops
<1>3. PICK op \in Ops, x \in InterpreterId, m \in Module \cup {NULL}, first \in {"f_load", "w_lock"} :
           /\ call' = [call EXCEPT ![t] = [op |-> op, id |-> x, module |-> m]]
           /\ pc[t] = "idle" /\ pc' = [pc EXCEPT ![t] = first]
           /\ result' = result
  BY <1>2
<1>4. Phases[t] = "idle" /\ Phases' = [Phases EXCEPT ![t] = "called"]
  BY <1>3, PhaseStep DEF PhaseOf, LookupInv, ProtocolInv, TypeOK
<1> DEFINE c == [op |-> op, id |-> x, module |-> m]
<1>5. c \in [op : {"find", "add", "remove"}, id : InterpreterId, module : Module \cup {NULL}]
  BY DEF Ops
<1>6. call' = [call EXCEPT ![t] = c]
  BY <1>3
<1> HIDE DEF c
<1>7. QED
  BY <1>1, <1>3, <1>4, <1>5, <1>6 DEF Map!Invoke

LEMMA RespondStep ==
    ASSUME LookupInv, NEW t \in Thread, FindReturn(t) \/ WriterReturn(t)
    PROVE  Map!Respond(t)
<1>1. RegisteredMap' = RegisteredMap
  BY QuietKeeps, KeptMeaning, SameMap DEF LookupInv, Quiet, Find
<1>2. /\ pc[t] \in {"f_decr", "w_unlock"} /\ pc' = [pc EXCEPT ![t] = "idle"]
      /\ call' = [call EXCEPT ![t] = NoCall] /\ result' = [result EXCEPT ![t] = NULL]
  BY DEF FindReturn, WriterReturn, Return
<1>3. Phases[t] = "done" /\ Phases' = [Phases EXCEPT ![t] = "idle"]
  BY <1>2, PhaseStep DEF PhaseOf, LookupInv, ProtocolInv, TypeOK
<1>4. QED
  BY <1>1, <1>2, <1>3 DEF Map!Respond, NoCall

(* What a reader reads is what is registered at that moment.                    *)
LEMMA FindStep ==
    ASSUME LookupInv, NEW t \in Thread, FindRead(t)
    PROVE  Map!Find(t)
<1>1. RegisteredMap' = RegisteredMap
  BY QuietKeeps, KeptMeaning, SameMap DEF LookupInv, Quiet, Find
<1>2. pc[t] = "f_read" /\ pc' = [pc EXCEPT ![t] = "f_decr"] /\ call' = call
  BY DEF FindRead, Goto, shared
<1>3. Phases[t] = "called" /\ Phases' = [Phases EXCEPT ![t] = "done"]
  BY <1>2, PhaseStep DEF PhaseOf, LookupInv, ProtocolInv, TypeOK
<1>4. call[t].op = "find" /\ call[t].id \in InterpreterId /\ call[t].id \in Nat
  BY <1>2, InterpreterIdAssumption DEF LookupInv, CallsMade, Calls, FindPcs
<1> DEFINE x == call[t].id
<1>5. RegisteredMap[x] = Registered(x)
  BY <1>4 DEF RegisteredMap
<1>6. data[t] # NULL => data[t] = Current /\ data[t] \in live
  BY <1>2 DEF LookupInv, ProtocolInv, ReaderState
<1>7. PICK r \in IF data[t] = NULL THEN {NULL}
                 ELSE IF data[t] \notin live THEN Module \cup {NULL}
                 ELSE FindOutcomes(heap[data[t]], x) :
             result' = [result EXCEPT ![t] = r]
  BY DEF FindRead
<1>8. r \in Module \cup {NULL} /\ (Registered(x) # NULL => r = Registered(x))
  <2>1. CASE data[t] = NULL
    <3>1. Registered(x) = NULL
      BY <1>2, <1>4, <2>1 DEF LookupInv, NothingToFind
    <3>2. QED
      BY <1>7, <2>1, <3>1
  <2>2. CASE data[t] # NULL
    <3> DEFINE d == heap[Current]
    <3>1. r \in FindOutcomes(d, x) /\ IsTable(d) /\ Registered(x) = Meaning(d, x) /\ x \in Nat
      BY <1>4, <1>6, <1>7, <2>2 DEF LookupInv, Blocks, Registered
    <3> HIDE DEF d, x
    <3>2. r \in Module \cup {NULL}
      BY <3>1, OutcomesTyped
    <3>3. Registered(x) # NULL => r = Registered(x)
      BY <3>1, FindFinds
    <3>4. QED
      BY <3>2, <3>3
  <2>3. QED
    BY <2>1, <2>2
<1>9. Map!Answer(t, r)
  BY <1>2, <1>3, <1>7 DEF Map!Answer
<1>10. QED
  BY <1>1, <1>4, <1>5, <1>8, <1>9 DEF Map!Find

LEMMA AddStep ==
    ASSUME LookupInv, NEW t \in Thread, AddCallocFails(t) \/ AddMutate(t)
    PROVE  Map!Add(t)
<1>1. /\ pc[t] \in {"w_alloc", "w_mutate"} /\ pc' = [pc EXCEPT ![t] = "w_publish"] /\ call' = call
      /\ call[t].op = "add"
  BY DEF AddCallocFails, AddMutate, Goto, shared, LookupInv, ProtocolInv, WriterState
<1>2. Phases[t] = "called" /\ Phases' = [Phases EXCEPT ![t] = "done"]
  BY <1>1, PhaseStep DEF PhaseOf, LookupInv, ProtocolInv, TypeOK
<1>3. CASE AddCallocFails(t)
  <2>1. RegisteredMap' = RegisteredMap
    BY <1>3, QuietKeeps, KeptMeaning, SameMap DEF LookupInv, Quiet
  <2>2. result' = [result EXCEPT ![t] = "error"]
    BY <1>3 DEF AddCallocFails, ERROR
  <2>3. QED
    BY <1>1, <1>2, <2>1, <2>2 DEF Map!Add, Map!Answer
<1>4. CASE AddMutate(t)
  <2>1. CASE /\ result' = [result EXCEPT ![t] = OK]
             /\ \A y \in Nat : Registered(y)' = IF y = call[t].id THEN call[t].module ELSE Registered(y)
    <3>1. call[t].id \in InterpreterId
      BY <1>1 DEF LookupInv, CallsMade, Calls
    <3>2. RegisteredMap' = [RegisteredMap EXCEPT ![call[t].id] = call[t].module]
      BY <2>1, <3>1, ChangedMap
    <3>3. QED
      BY <1>1, <1>2, <2>1, <3>2 DEF Map!Add, Map!Answer, OK
  <2>2. CASE /\ result' = [result EXCEPT ![t] = ERROR]
             /\ \A y \in Nat : Registered(y)' = Registered(y)
    <3>1. RegisteredMap' = RegisteredMap
      BY <2>2, SameMap
    <3>2. QED
      BY <1>1, <1>2, <2>2, <3>1 DEF Map!Add, Map!Answer, ERROR
  <2>3. QED
    BY <1>4, <2>1, <2>2, AddEffect
<1>5. QED
  BY <1>3, <1>4

LEMMA RemoveStep ==
    ASSUME LookupInv, NEW t \in Thread, RemoveMutate(t)
    PROVE  Map!Remove(t)
<1>1. /\ pc[t] = "w_mutate" /\ pc' = [pc EXCEPT ![t] = "w_publish"] /\ call' = call
      /\ call[t].op = "remove"
  BY DEF RemoveMutate, Goto
<1>2. Phases[t] = "called" /\ Phases' = [Phases EXCEPT ![t] = "done"]
  BY <1>1, PhaseStep DEF PhaseOf, LookupInv, ProtocolInv, TypeOK
<1>3. call[t].id \in InterpreterId
  BY <1>1 DEF LookupInv, CallsMade, Calls
<1>4. /\ result' = [result EXCEPT ![t] = OK]
      /\ \A y \in Nat : Registered(y)' = IF y = call[t].id THEN NULL ELSE Registered(y)
  BY RemoveEffect
<1>5. RegisteredMap' = [RegisteredMap EXCEPT ![call[t].id] = NULL]
  BY <1>3, <1>4, ChangedMap
<1>6. QED
  BY <1>1, <1>2, <1>4, <1>5 DEF Map!Remove, Map!Answer, OK

LEMMA InnerSteps ==
    ASSUME LookupInv, NEW t \in Thread,
           \/ FindLoad(t) \/ FindIncr(t) \/ FindCheck(t) \/ FindUndo(t) \/ FindLock(t) \/ FindIncrLocked(t)
           \/ FindLoadLocked(t) \/ FindUnlock(t) \/ WriterLock(t) \/ WriterSwap(t) \/ AddCalloc(t)
           \/ WaitUntilNoReaders(t) \/ WriterPublish(t)
    PROVE  UNCHANGED Map!avars
<1>1. \A x \in Nat : Registered(x)' = Registered(x)
  BY QuietKeeps, KeptMeaning, CallocEffect DEF LookupInv, Quiet, Find
<1>2. /\ call' = call /\ result' = result
      /\ \E q : pc' = [pc EXCEPT ![t] = q] /\ PhaseOf(q) = PhaseOf(pc[t])
  BY DEF FindLoad, FindIncr, FindCheck, FindUndo, FindLock, FindIncrLocked, FindLoadLocked, FindUnlock, WriterLock,
     WriterSwap, AddCalloc, WaitUntilNoReaders, WriterPublish, Goto, shared, PhaseOf
<1>3. QED
  BY <1>1, <1>2, InnerStep DEF LookupInv, ProtocolInv, TypeOK

LEMMA MapNext == LookupInv /\ [Next]_vars => [Map!Next]_Map!avars
<1> SUFFICES ASSUME LookupInv, [Next]_vars PROVE [Map!Next]_Map!avars
  OBVIOUS
<1>1. CASE UNCHANGED vars
  <2>1. Kept
    BY <1>1 DEF vars, Kept, Current, Taken
  <2>2. RegisteredMap' = RegisteredMap
    BY <2>1, KeptMeaning, SameMap
  <2>3. QED
    BY <1>1, <2>2 DEF vars, Map!avars, Phases
<1>2. CASE Next
  <2>1. PICK t \in Thread : Start(t) \/ Find(t) \/ Write(t)
    BY <1>2 DEF Next
  <2>2. \/ Map!Invoke(t) \/ Map!Find(t) \/ Map!Add(t) \/ Map!Remove(t) \/ Map!Respond(t)
        \/ UNCHANGED Map!avars
    BY <2>1, InvokeStep, RespondStep, FindStep, AddStep, RemoveStep, InnerSteps DEF Find, Write
  <2>3. QED
    BY <2>2 DEF Map!Next
<1>3. QED
  BY <1>1, <1>2

LEMMA MapInit == Init => Map!Init
<1> SUFFICES ASSUME Init PROVE Map!Init
  OBVIOUS
<1>1. RegisteredMap = [x \in InterpreterId |-> NULL]
  BY DEF Init, RegisteredMap, Registered
<1>2. Phases = [t \in Thread |-> "idle"]
  BY DEF Init, Phases, PhaseOf
<1>3. QED
  BY <1>1, <1>2 DEF Init, Map!Init, NoCall

(* The table, its readers and its writers together are a map: every call of     *)
(* FindModule, AddModule and RemoveModule takes effect at one instant.          *)
THEOREM LookupImplementsMap == Spec => ImplementsMap
<1>1. QED
  BY MapInit, MapNext, LookupInvariant, PTL DEF Spec, ImplementsMap, Map!Spec
=============================================================================
