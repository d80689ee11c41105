------------------------- MODULE SharedObjectsProofs -------------------------
(***************************************************************************)
(* The proofs about what threads share at run time and count by hand:        *)
(* CodeObjectCache.tla, then Memview.tla with its two components.            *)
(*                                                                         *)
(* The accessor count keeps readers and writers of the code object cache     *)
(* apart, the bisection is right for every table, the table stays sorted      *)
(* and the references to code objects are counted, for any number of          *)
(* threads, lines and code objects.                                          *)
(*                                                                         *)
(* The reference counting of memoryview slices is right for any number of     *)
(* slices and of Python references, and the lock pool for any number of       *)
(* objects.                                                                  *)
(***************************************************************************)
EXTENDS CodeObjectCache, Memview, BasicTheorems, SequenceTheorems


-----------------------------------------------------------------------------
(* The bisection and the table, without the protocol.                      *)
(* The search of Bisect as a tail recursion: its states (start, end and    *)
(* the last middle), where it stops, with what value, and which state      *)
(* follows.                                                                *)
SearchStates(n) == (0..n) \X (-1..n) \X (0..n)

Mid(r) == r[1] + (r[2] - r[1]) \div 2

Stop(E, l) == {r \in SearchStates(Len(E)) : r[1] < r[2] => E[Mid(r) + 1].line = l}
Val(E, l) == [r \in SearchStates(Len(E)) |->
                IF r[1] < r[2] THEN Mid(r) ELSE IF l <= E[r[3] + 1].line THEN r[3] ELSE r[3] + 1]
Nxt(E, l) == [r \in SearchStates(Len(E)) |-> Halve(E, l, r[1], r[2], Mid(r))]

Measure(n) == [r \in SearchStates(n) |-> IF r[1] < r[2] THEN r[2] - r[1] ELSE 0]

(* The middle is below the end, so that both halves are smaller.           *)
LEMMA MidBetween ==
    ASSUME NEW a \in Int, NEW b \in Int, a < b
    PROVE  LET m == a + (b - a) \div 2 IN m \in Int /\ a <= m /\ m < b
  OBVIOUS

(* A round of the loop stays within the table and comes closer to its      *)
(* end.                                                                    *)
LEMMA SearchStep ==
    ASSUME NEW E, NEW l, Len(E) \in Nat, NEW r \in SearchStates(Len(E)), r \notin Stop(E, l)
    PROVE  /\ Nxt(E, l)[r] \in SearchStates(Len(E))
           /\ Measure(Len(E))[Nxt(E, l)[r]] < Measure(Len(E))[r]
<1> DEFINE n == Len(E)  a == r[1]  b == r[2]  m == Mid(r)
<1>1. a \in 0..n /\ b \in -1..n /\ r[3] \in 0..n /\ a < b
  BY DEF SearchStates, Stop
<1>2. m \in Int /\ a <= m /\ m < b
  BY <1>1, MidBetween DEF Mid
<1>3. CASE l < E[m + 1].line
  <2>1. Nxt(E, l)[r] = <<a, m, m>>
    BY <1>3 DEF Nxt, Halve
  <2> DEFINE q == <<a, m, m>>
  <2>2. q \in SearchStates(n) /\ q[1] = a /\ q[2] = m
    BY <1>1, <1>2 DEF SearchStates
  <2>3. Measure(n)[q] = IF a < m THEN m - a ELSE 0
    BY <2>2 DEF Measure
  <2>4. Measure(n)[r] = b - a
    BY <1>1 DEF Measure
  <2>5. QED
    BY <1>1, <1>2, <2>1, <2>2, <2>3, <2>4
<1>4. CASE ~(l < E[m + 1].line)
  <2>1. Nxt(E, l)[r] = <<m + 1, b, m>>
    BY <1>4 DEF Nxt, Halve
  <2> DEFINE q == <<m + 1, b, m>>
  <2>2. q \in SearchStates(n) /\ q[1] = m + 1 /\ q[2] = b
    BY <1>1, <1>2 DEF SearchStates
  <2>3. Measure(n)[q] = IF m + 1 < b THEN b - (m + 1) ELSE 0
    BY <2>2 DEF Measure
  <2>4. Measure(n)[r] = b - a
    BY <1>1 DEF Measure
  <2>5. QED
    BY <1>1, <1>2, <2>1, <2>2, <2>3, <2>4
<1>5. QED
  BY <1>3, <1>4

(* The equation of the recursive function in Bisect.                       *)
SearchOf(E, l, f) ==
    f = [r \in SearchStates(Len(E)) |->
           LET start == r[1]  end == r[2]  mid == start + (end - start) \div 2
            IN  IF start < end
                THEN IF E[mid + 1].line = l THEN mid ELSE f[Halve(E, l, start, end, mid)]
                ELSE IF l <= E[r[3] + 1].line THEN r[3] ELSE r[3] + 1]

(* It is the equation of a tail recursion.                                 *)
LEMMA SearchIsTail ==
    ASSUME NEW E, NEW l, Len(E) \in Nat, NEW f
    PROVE  SearchOf(E, l, f) <=> TailOf(f, SearchStates(Len(E)), Stop(E, l), Val(E, l), Nxt(E, l))
<1>1. ASSUME NEW r \in SearchStates(Len(E))
      PROVE  (IF r \in Stop(E, l) THEN Val(E, l)[r] ELSE f[Nxt(E, l)[r]])
             = LET start == r[1]  end == r[2]  mid == start + (end - start) \div 2
               IN  IF start < end
                   THEN IF E[mid + 1].line = l THEN mid ELSE f[Halve(E, l, start, end, mid)]
                   ELSE IF l <= E[r[3] + 1].line THEN r[3] ELSE r[3] + 1
  <2>1. CASE ~(r[1] < r[2])
    BY <2>1 DEF Stop, Val
  <2>2. CASE r[1] < r[2] /\ E[Mid(r) + 1].line = l
    BY <2>2 DEF Stop, Val, Mid
  <2>3. CASE r[1] < r[2] /\ E[Mid(r) + 1].line # l
    BY <2>3 DEF Stop, Nxt, Mid
  <2>4. QED
    BY <2>1, <2>2, <2>3
<1>2. QED
  BY <1>1, Zenon DEF SearchOf, TailOf

(* So a function with that equation exists.                                *)
LEMMA SearchExists ==
    ASSUME NEW E, NEW l, Len(E) \in Nat
    PROVE  \E f : SearchOf(E, l, f)
<1> DEFINE S == SearchStates(Len(E))
<1>1. Measure(Len(E)) \in [S -> Nat]
  BY DEF Measure, SearchStates
<1>2. Val(E, l) \in [S -> Int]
  BY DEF Val, SearchStates, Mid
<1>3. \A r \in S \ Stop(E, l) : Nxt(E, l)[r] \in S /\ Measure(Len(E))[Nxt(E, l)[r]] < Measure(Len(E))[r]
  BY SearchStep
<1>4. \E f \in [S -> Int] : TailOf(f, S, Stop(E, l), Val(E, l), Nxt(E, l))
  <2> HIDE DEF S
  <2>1. QED
    BY <1>1, <1>2, <1>3, TailRecursion
<1>5. QED
  BY <1>4, SearchIsTail, Zenon

(* Bisect returns a value of such a function.                              *)
LEMMA BisectValue ==
    ASSUME NEW E, NEW l, Len(E) \in Nat
    PROVE  \E f : /\ SearchOf(E, l, f)
                  /\ Bisect(E, l) = IF Len(E) > 0 /\ l > E[Len(E)].line THEN Len(E) ELSE f[<<0, Len(E) - 1, 0>>]
<1> DEFINE f == CHOOSE g : SearchOf(E, l, g)
<1>1. SearchOf(E, l, f)
  BY SearchExists, Zenon
<1>2. Bisect(E, l) = IF Len(E) > 0 /\ l > E[Len(E)].line THEN Len(E) ELSE f[<<0, Len(E) - 1, 0>>]
  BY Zenon DEF Bisect, SearchOf, SearchStates
<1>3. QED
  BY <1>1, <1>2, Zenon

-----------------------------------------------------------------------------
(* A table as it is kept: strictly sorted by line.                         *)
IsSorted(E) == \A i, j \in 1..Len(E) : i < j => E[i].line < E[j].line
IsTable(E) == E \in Seq([line : Line, code : Code]) /\ IsSorted(E)

(* The entries before position k are those with a smaller line.            *)
SplitsAt(E, l, k) ==
    /\ k \in 0..Len(E)
    /\ \A i \in 1..k : E[i].line < l
    /\ \A i \in k+1..Len(E) : E[i].line >= l

(* What the loop keeps: the answer lies between start and end, and once    *)
(* they meet the last middle is the answer or just before it.              *)
GoodSearch(E, l, r) ==
    /\ r \in SearchStates(Len(E)) /\ 0 <= r[1] /\ r[1] <= r[2] /\ r[2] < Len(E)
    /\ \A i \in 1..r[1] : E[i].line < l
    /\ E[r[2] + 1].line >= l
    /\ r[1] = r[2] => r[3] \in {r[1], r[1] - 1}

(* The entries of a table are entries, with lines that can be compared.    *)
LEMMA TableFacts ==
    ASSUME NEW E, IsTable(E)
    PROVE  /\ Len(E) \in Nat
           /\ \A i \in 1..Len(E) : E[i] \in [line : Line, code : Code] /\ E[i].line \in Int /\ E[i].code \in Code
           /\ \A i, j \in 1..Len(E) : i < j => E[i].line < E[j].line
<1>1. Len(E) \in Nat
  BY DEF IsTable
<1>2. \A i \in 1..Len(E) : E[i] \in [line : Line, code : Code]
  BY ElementOfSeq DEF IsTable
<1>3. \A i \in 1..Len(E) : E[i].line \in Int /\ E[i].code \in Code
  BY <1>2, LineAssumption
<1>4. QED
  BY <1>1, <1>2, <1>3 DEF IsTable, IsSorted

(* One round of the loop keeps it.                                         *)
LEMMA GoodStep ==
    ASSUME NEW E, IsTable(E), NEW l \in Int, NEW r, GoodSearch(E, l, r), r \notin Stop(E, l)
    PROVE  GoodSearch(E, l, Nxt(E, l)[r])
<1> DEFINE n == Len(E)  a == r[1]  b == r[2]  m == Mid(r)
<1>1. a \in 0..n /\ b \in -1..n /\ r[3] \in 0..n /\ a < b /\ n \in Nat /\ b < n
  BY TableFacts DEF SearchStates, Stop, GoodSearch
<1>2. m \in Int /\ a <= m /\ m < b /\ m + 1 \in 1..n
  BY <1>1, MidBetween DEF Mid
<1>3. E[m + 1].line # l /\ E[m + 1].line \in Int
  BY <1>1, <1>2, TableFacts DEF Stop, GoodSearch
<1>4. CASE l < E[m + 1].line
  <2>1. Nxt(E, l)[r] = <<a, m, m>>
    BY <1>4 DEF Nxt, Halve, GoodSearch
  <2> DEFINE q == <<a, m, m>>
  <2>2. q \in SearchStates(n) /\ q[1] = a /\ q[2] = m /\ q[3] = m
    BY <1>1, <1>2 DEF SearchStates
  <2> HIDE DEF q
  <2>3. GoodSearch(E, l, q)
    BY <1>1, <1>2, <1>3, <1>4, <2>2 DEF GoodSearch
  <2>4. QED
    BY <2>1, <2>3 DEF q
<1>5. CASE ~(l < E[m + 1].line)
  <2>1. Nxt(E, l)[r] = <<m + 1, b, m>>
    BY <1>5 DEF Nxt, Halve, GoodSearch
  <2> DEFINE q == <<m + 1, b, m>>
  <2>2. q \in SearchStates(n) /\ q[1] = m + 1 /\ q[2] = b /\ q[3] = m
    BY <1>1, <1>2 DEF SearchStates
  <2>3. ASSUME NEW i \in 1..m + 1 PROVE E[i].line < l
    <3>1. i \in 1..n /\ (i = m + 1 \/ i < m + 1)
      BY <1>1, <1>2
    <3>2. E[m + 1].line < l
      BY <1>3, <1>5
    <3>3. E[i].line \in Int
      BY <3>1, TableFacts
    <3>4. CASE i = m + 1
      BY <3>2, <3>4
    <3>5. CASE i < m + 1
      <4>1. E[i].line < E[m + 1].line
        BY <1>2, <3>1, <3>5, TableFacts
      <4>2. QED
        BY <4>1, <3>2, <3>3, <1>3
    <3>6. QED
      BY <3>1, <3>4, <3>5
  <2>4. E[b + 1].line >= l
    BY DEF GoodSearch
  <2> HIDE DEF q, m, a, b
  <2>a. 0 <= q[1] /\ q[1] <= q[2] /\ q[2] < n /\ q[3] = q[1] - 1
    BY <1>1, <1>2, <2>2
  <2>b. (\A i \in 1..q[1] : E[i].line < l) /\ E[q[2] + 1].line >= l
    BY <2>2, <2>3, <2>4
  <2>5. GoodSearch(E, l, q)
    BY <2>2, <2>a, <2>b DEF GoodSearch
  <2>6. QED
    BY <2>1, <2>5 DEF q
<1>6. QED
  BY <1>4, <1>5

(* When the loop stops, the value returned splits the table.               *)
LEMMA GoodStop ==
    ASSUME NEW E, IsTable(E), NEW l \in Int, NEW r, GoodSearch(E, l, r), r \in Stop(E, l)
    PROVE  SplitsAt(E, l, Val(E, l)[r])
<1> DEFINE n == Len(E)  a == r[1]  b == r[2]  m == Mid(r)
<1>1. a \in 0..n /\ b \in 0..n-1 /\ r[3] \in 0..n /\ a <= b /\ n \in Nat /\ r \in SearchStates(n)
  BY TableFacts DEF SearchStates, Stop, GoodSearch
<1>2. ASSUME NEW k \in 0..n-1, \A i \in 1..k : E[i].line < l, E[k + 1].line >= l PROVE SplitsAt(E, l, k)
  <2>1. ASSUME NEW i \in k+1..n PROVE E[i].line >= l
    <3>1. i \in 1..n /\ k + 1 \in 1..n /\ (i = k + 1 \/ k + 1 < i)
      BY <1>1
    <3>2. E[i].line \in Int /\ E[k + 1].line \in Int
      BY <3>1, TableFacts
    <3>3. CASE i = k + 1
      BY <3>3, <1>2
    <3>4. CASE k + 1 < i
      <4>1. E[k + 1].line < E[i].line
        BY <3>1, <3>4, TableFacts
      <4>2. QED
        BY <4>1, <3>2, <1>2
    <3>5. QED
      BY <3>1, <3>3, <3>4
  <2>2. QED
    BY <1>1, <1>2, <2>1 DEF SplitsAt
<1>3. CASE a < b
  <2>0. m \in Int /\ a <= m /\ m < b
    BY <1>1, <1>3, MidBetween DEF Mid
  <2>1. m \in Int /\ a <= m /\ m < b /\ m + 1 \in 1..n /\ m \in 0..n-1
    <3> HIDE DEF m, a, b
    <3>1. QED
      BY <1>1, <2>0
  <2>2. E[m + 1].line = l
    BY <1>3 DEF Stop
  <2>3. Val(E, l)[r] = m
    BY <1>1, <1>3 DEF Val
  <2>4. \A i \in 1..m : E[i].line < l
    BY <1>1, <2>1, <2>2, TableFacts
  <2>5. SplitsAt(E, l, m)
    BY <1>1, <1>2, <2>1, <2>2, <2>4
  <2>6. QED
    BY <2>3, <2>5
<1>4. CASE a = b
  <2>1. r[3] \in {a, a - 1} /\ (\A i \in 1..a : E[i].line < l) /\ E[a + 1].line >= l
    BY <1>4 DEF GoodSearch
  <2>2. SplitsAt(E, l, a)
    BY <1>1, <1>2, <1>4, <2>1
  <2>3. Val(E, l)[r] = IF l <= E[r[3] + 1].line THEN r[3] ELSE r[3] + 1
    BY <1>1, <1>4 DEF Val
  <2>4. CASE r[3] = a
    <3>1. E[a + 1].line \in Int
      BY <1>1, <1>4, TableFacts
    <3>2. QED
      BY <2>1, <2>2, <2>3, <2>4, <3>1
  <2>5. CASE r[3] = a - 1
    <3>1. a \in 1..n /\ r[3] + 1 = a
      BY <1>1, <2>5
    <3>2. E[a].line < l /\ E[a].line \in Int
      BY <2>1, <3>1, TableFacts
    <3>3. QED
      BY <2>2, <2>3, <3>1, <3>2
  <2>6. QED
    BY <2>1, <2>4, <2>5
<1>5. QED
  BY <1>1, <1>3, <1>4

(* So the search returns where the table splits: a counterexample with     *)
(* the fewest entries left would have a smaller one.                       *)
LEMMA SearchCorrect ==
    ASSUME NEW E, IsTable(E), NEW l \in Int, NEW f, SearchOf(E, l, f), NEW r, GoodSearch(E, l, r)
    PROVE  SplitsAt(E, l, f[r])
<1> DEFINE S == SearchStates(Len(E))
           T == {q \in S : GoodSearch(E, l, q) /\ ~SplitsAt(E, l, f[q])}
           ms == Measure(Len(E))
<1>1. Len(E) \in Nat
  BY TableFacts
<1>2. ms \in [S -> Nat]
  BY <1>1 DEF Measure, SearchStates
<1>3. \A q \in S : f[q] = IF q \in Stop(E, l) THEN Val(E, l)[q] ELSE f[Nxt(E, l)[q]]
  BY <1>1, SearchIsTail DEF TailOf
<1>4. SUFFICES ASSUME T # {} PROVE FALSE
  BY DEF GoodSearch
<1>5. PICK q \in T : \A u \in T : ms[q] <= ms[u]
  <2>1. T \subseteq S
    OBVIOUS
  <2> HIDE DEF S, T, ms
  <2>2. QED
    BY <1>2, <1>4, <2>1, LeastMeasure
<1>6. q \in S /\ GoodSearch(E, l, q) /\ ~SplitsAt(E, l, f[q])
  BY <1>5
<1>7. q \notin Stop(E, l)
  BY <1>3, <1>6, GoodStop
<1>8. Nxt(E, l)[q] \in S /\ ms[Nxt(E, l)[q]] < ms[q]
  BY <1>1, <1>6, <1>7, SearchStep
<1>9. GoodSearch(E, l, Nxt(E, l)[q])
  BY <1>6, <1>7, GoodStep
<1>10. f[q] = f[Nxt(E, l)[q]]
  BY <1>3, <1>6, <1>7
<1>11. Nxt(E, l)[q] \in T
  BY <1>6, <1>8, <1>9, <1>10
<1>12. ms[q] \in Nat /\ ms[Nxt(E, l)[q]] \in Nat
  <2> HIDE DEF S, ms
  <2>1. QED
    BY <1>2, <1>6, <1>8
<1>13. QED
  <2> HIDE DEF S, T, ms
  <2>1. ms[q] <= ms[Nxt(E, l)[q]]
    BY <1>5, <1>11
  <2>2. QED
    BY <2>1, <1>8, <1>12

(* __pyx_bisect_code_objects returns, for every sorted table and every     *)
(* line, the number of entries with a smaller line.                        *)
THEOREM BisectSplits ==
    ASSUME NEW E, IsTable(E), E # <<>>, NEW l \in Int
    PROVE  SplitsAt(E, l, Bisect(E, l))
<1> DEFINE n == Len(E)  q == <<0, n - 1, 0>>
<1>1. n \in Nat /\ n > 0
  BY EmptySeq DEF IsTable
<1>2. n \in 1..n /\ E[n].line \in Int
  BY <1>1, TableFacts
<1>3. PICK f : SearchOf(E, l, f) /\ Bisect(E, l) = IF n > 0 /\ l > E[n].line THEN n ELSE f[q]
  BY <1>1, BisectValue
<1>4. CASE l > E[n].line
  <2>1. ASSUME NEW i \in 1..n PROVE E[i].line < l
    <3>1. E[i].line \in Int
      BY TableFacts
    <3>2. i = n \/ (i < n /\ E[i].line < E[n].line)
      BY <1>1, <1>2, TableFacts
    <3>3. QED
      BY <1>2, <1>4, <3>1, <3>2
  <2>2. QED
    BY <1>1, <1>3, <1>4, <2>1 DEF SplitsAt
<1>5. CASE ~(l > E[n].line)
  <2>1. q \in SearchStates(n) /\ q[1] = 0 /\ q[2] = n - 1 /\ q[3] = 0
    BY <1>1 DEF SearchStates
  <2>2. E[n].line >= l
    BY <1>2, <1>5
  <2>3. GoodSearch(E, l, q)
    <3> HIDE DEF q
    <3>1. QED
      BY <1>1, <2>1, <2>2 DEF GoodSearch
  <2>4. SplitsAt(E, l, f[q])
    <3> HIDE DEF q
    <3>1. QED
      BY <1>3, <2>3, SearchCorrect
  <2>5. QED
    BY <1>3, <1>5, <2>4
<1>6. QED
  BY <1>4, <1>5

-----------------------------------------------------------------------------
Entry == [line : Line, code : Code]

(* The table with entry e put at position pos.                             *)
Inserted(E, pos, e) == SubSeq(E, 1, pos) \o <<e>> \o SubSeq(E, pos + 1, Len(E))

(* What it consists of.                                                    *)
LEMMA InsertedElements ==
    ASSUME NEW E \in Seq(Entry), NEW pos \in 0..Len(E), NEW e \in Entry
    PROVE  LET F == Inserted(E, pos, e) IN
           /\ F \in Seq(Entry) /\ Len(F) = Len(E) + 1
           /\ \A i \in 1..pos : F[i] = E[i]
           /\ F[pos + 1] = e
           /\ \A i \in pos+2..Len(E)+1 : F[i] = E[i - 1]
<1> DEFINE A == SubSeq(E, 1, pos)  B == SubSeq(E, pos + 1, Len(E))  n == Len(E)  M == <<e>>
<1>1. n \in Nat /\ pos \in Int /\ \A i \in 1..n : E[i] \in Entry
  BY ElementOfSeq
<1>2. A \in Seq(Entry) /\ Len(A) = pos /\ \A i \in 1..pos : A[i] = E[i]
  <2>1. \A i \in 1..pos : E[i] \in Entry
    BY <1>1
  <2>2. /\ A \in Seq(Entry) /\ Len(A) = (IF 1 <= pos THEN pos - 1 + 1 ELSE 0)
        /\ \A i \in 1..pos - 1 + 1 : A[i] = E[1 + i - 1]
    BY <1>1, <2>1, SubSeqProperties
  <2>3. QED
    <3> HIDE DEF A
    <3>1. QED
      BY <1>1, <2>2
<1>3. B \in Seq(Entry) /\ Len(B) = n - pos /\ \A i \in 1..n - pos : B[i] = E[pos + i]
  <2>1. \A i \in pos + 1..n : E[i] \in Entry
    BY <1>1
  <2>2. /\ B \in Seq(Entry) /\ Len(B) = (IF pos + 1 <= n THEN n - (pos + 1) + 1 ELSE 0)
        /\ \A i \in 1..n - (pos + 1) + 1 : B[i] = E[pos + 1 + i - 1]
    BY <1>1, <2>1, SubSeqProperties
  <2>3. QED
    <3> HIDE DEF B
    <3>1. QED
      BY <1>1, <2>2
<1>4. M \in Seq(Entry) /\ Len(M) = 1 /\ M[1] = e
  OBVIOUS
<1> HIDE DEF A, B, M
<1>5. /\ A \o M \in Seq(Entry) /\ Len(A \o M) = pos + 1
      /\ \A i \in 1..pos + 1 : (A \o M)[i] = IF i <= pos THEN A[i] ELSE M[i - pos]
  <2>1. /\ A \o M \in Seq(Entry) /\ Len(A \o M) = Len(A) + Len(M)
        /\ \A i \in 1..Len(A) + Len(M) : (A \o M)[i] = IF i <= Len(A) THEN A[i] ELSE M[i - Len(A)]
    BY <1>2, <1>4, ConcatProperties
  <2>2. QED
    BY <1>2, <1>4, <2>1
<1> DEFINE C == A \o M  F == C \o B
<1>6. /\ F \in Seq(Entry) /\ Len(F) = pos + 1 + (n - pos)
      /\ \A i \in 1..pos + 1 + (n - pos) : F[i] = IF i <= pos + 1 THEN C[i] ELSE B[i - (pos + 1)]
  <2> HIDE DEF C
  <2>1. C \in Seq(Entry) /\ Len(C) = pos + 1
    BY <1>5 DEF C
  <2>2. /\ F \in Seq(Entry) /\ Len(F) = Len(C) + Len(B)
        /\ \A i \in 1..Len(C) + Len(B) : F[i] = IF i <= Len(C) THEN C[i] ELSE B[i - Len(C)]
    BY <1>3, <2>1, ConcatProperties
  <2>3. QED
    <3> HIDE DEF F
    <3>1. QED
      BY <1>3, <2>1, <2>2
<1>7. F = Inserted(E, pos, e)
  BY DEF Inserted, A, B, M
<1>8. Len(F) = n + 1
  BY <1>1, <1>6
<1>9. ASSUME NEW i \in 1..pos PROVE F[i] = E[i]
  BY <1>1, <1>2, <1>5, <1>6
<1>10. F[pos + 1] = e
  <2>1. F[pos + 1] = C[pos + 1]
    <3> HIDE DEF F, C
    <3>1. QED
      BY <1>1, <1>6
  <2>2. C[pos + 1] = M[pos + 1 - pos]
    <3>1. pos + 1 \in 1..pos + 1 /\ ~(pos + 1 <= pos)
      BY <1>1
    <3>2. QED
      BY <1>5, <3>1
  <2>3. pos + 1 - pos = 1
    BY <1>1
  <2>4. QED
    BY <1>4, <2>1, <2>2, <2>3
<1>11. ASSUME NEW i \in pos+2..n+1 PROVE F[i] = E[i - 1]
  <2>1. i \in 1..pos + 1 + (n - pos) /\ ~(i <= pos + 1) /\ i - (pos + 1) \in 1..n - pos /\ pos + (i - (pos + 1)) = i - 1
    BY <1>1
  <2>2. F[i] = B[i - (pos + 1)]
    <3> HIDE DEF F, C
    <3>1. QED
      BY <1>6, <2>1
  <2>3. B[i - (pos + 1)] = E[pos + (i - (pos + 1))]
    BY <1>3, <2>1
  <2>4. QED
    BY <2>1, <2>2, <2>3
<1>12. QED
  <2> HIDE DEF F
  <2>1. QED
    BY <1>6, <1>7, <1>8, <1>9, <1>10, <1>11

(* The entries that hold code object c.                                    *)
EntriesOf(E, c) == {i \in 1..Len(E) : E[i].code = c}

(* There are finitely many.                                                *)
LEMMA EntriesFinite == ASSUME NEW E, Len(E) \in Nat, NEW c
    PROVE IsFiniteSet(EntriesOf(E, c)) /\ Cardinality(EntriesOf(E, c)) \in Nat
<1>1. IsFiniteSet(1..Len(E))
  BY FS_Interval
<1>2. IsFiniteSet(EntriesOf(E, c))
  BY <1>1, FS_Subset DEF EntriesOf
<1>3. QED
  BY <1>2, FS_CardinalityType

(* An insertion adds one to the entries of its code object only.           *)
LEMMA EntriesOfInserted ==
    ASSUME NEW E \in Seq(Entry), NEW pos \in 0..Len(E), NEW e \in Entry, NEW c
    PROVE  Cardinality(EntriesOf(Inserted(E, pos, e), c))
             = Cardinality(EntriesOf(E, c)) + (IF e.code = c THEN 1 ELSE 0)
<1> DEFINE F == Inserted(E, pos, e)  n == Len(E)  S == EntriesOf(E, c)  T == EntriesOf(F, c) \ {pos + 1}
           g == [i \in S |-> IF i <= pos THEN i ELSE i + 1]
<1>1. n \in Nat /\ pos \in 0..n /\ IsFiniteSet(S) /\ Cardinality(S) \in Nat
  BY EntriesFinite
<1>2. F \in Seq(Entry) /\ Len(F) = n + 1
  BY InsertedElements
<1>3. \A i \in 1..pos : F[i] = E[i]
  BY InsertedElements
<1>4. F[pos + 1] = e
  BY InsertedElements
<1>5. \A i \in pos+2..n+1 : F[i] = E[i - 1]
  BY InsertedElements
<1> HIDE DEF F
<1>6. ASSUME NEW i \in S PROVE g[i] \in T
  <2>1. i \in 1..n /\ E[i].code = c
    BY DEF EntriesOf
  <2>2. CASE i <= pos
    BY <1>1, <1>2, <1>3, <2>1, <2>2 DEF EntriesOf
  <2>3. CASE ~(i <= pos)
    <3>1. i + 1 \in pos + 2..n + 1 /\ i + 1 - 1 = i /\ i + 1 # pos + 1 /\ i + 1 \in 1..n + 1
      BY <1>1, <2>1, <2>3
    <3>2. F[i + 1] = E[i]
      <4>1. ASSUME NEW k, k = i + 1 PROVE F[k] = E[i]
        <5>1. k \in pos + 2..n + 1 /\ k - 1 = i
          BY <3>1, <4>1, <2>1
        <5>2. QED
          BY <1>5, <5>1
      <4>2. QED
        BY <4>1
    <3>3. QED
      BY <1>2, <2>1, <2>3, <3>1, <3>2 DEF EntriesOf
  <2>4. QED
    BY <2>2, <2>3
<1>7. ASSUME NEW i \in S, NEW j \in S, g[i] = g[j] PROVE i = j
  BY <1>1, <1>7 DEF EntriesOf
<1>8. ASSUME NEW k \in T PROVE \E i \in S : g[i] = k
  <2>1. k \in 1..n + 1 /\ k # pos + 1 /\ F[k].code = c
    BY <1>2 DEF EntriesOf
  <2>2. CASE k <= pos
    <3>1. k \in S
      BY <1>1, <1>3, <2>1, <2>2 DEF EntriesOf
    <3>2. g[k] = k
      BY <2>2, <3>1
    <3>3. QED
      BY <3>1, <3>2
  <2>3. CASE ~(k <= pos)
    <3>1. k \in pos + 2..n + 1 /\ k - 1 \in 1..n /\ ~(k - 1 <= pos)
      BY <1>1, <2>1, <2>3
    <3>2. k - 1 \in S
      BY <1>5, <2>1, <3>1 DEF EntriesOf
    <3>3. g[k - 1] = k
      BY <3>1, <3>2
    <3>4. QED
      BY <3>2, <3>3
  <2>4. QED
    BY <2>2, <2>3
<1> HIDE DEF S, T
<1>9. g \in [S -> T]
  BY <1>6
<1> HIDE DEF g
<1>10. g \in Bijection(S, T)
  BY <1>7, <1>8, <1>9 DEF Bijection, Injection, Surjection, IsInjective
<1>11. IsFiniteSet(T) /\ Cardinality(T) = Cardinality(S)
  BY <1>1, <1>10, FS_Bijection DEF ExistsBijection
<1>12. pos + 1 \notin T
  BY DEF T
<1>13. EntriesOf(F, c) = IF e.code = c THEN T \cup {pos + 1} ELSE T
  <2>1. pos + 1 \in 1..n + 1
    BY <1>1
  <2>2. pos + 1 \in EntriesOf(F, c) <=> e.code = c
    BY <1>2, <1>4, <2>1 DEF EntriesOf
  <2>3. QED
    BY <2>2 DEF T
<1>14. Cardinality(T \cup {pos + 1}) = Cardinality(T) + 1
  BY <1>11, <1>12, FS_AddElement
<1>15. Cardinality(EntriesOf(F, c)) = Cardinality(S) + (IF e.code = c THEN 1 ELSE 0)
  BY <1>1, <1>11, <1>13, <1>14
<1>16. QED
  BY <1>15 DEF F, S

-----------------------------------------------------------------------------
(* Where a thread has no code object yet, and where it has one.            *)
Before == {"idle", "findIncr", "findUndo", "findRead", "create"}
After == {"insert", "write", "release", "use"}

(* How many threads use code object c.                                     *)
Users(c) == Count(code, Thread, {c})

(* The inductive invariant. The references can only be counted together    *)
(* with who holds a code object when, and that a code object is made when  *)
(* nobody refers to it keeps the lines right.                              *)
CacheType ==
    /\ IsTable(entries) /\ maxCount \in Nat /\ Len(entries) <= maxCount
    /\ pc \in [Thread -> Steps]
    /\ line \in [Thread -> Line \cup {None}]
    /\ code \in [Thread -> Code \cup {None}]
    /\ refs \in [Code -> Int]
    /\ madeFor \in [Code -> Line \cup {None}]

Places ==
    \A t \in Thread : /\ pc[t] # "idle" => line[t] \in Line
                      /\ pc[t] \in Before => code[t] = None
                      /\ pc[t] \in After => code[t] # None

RefsCounted == \A c \in Code : refs[c] = Cardinality(EntriesOf(entries, c)) + Users(c)

EntriesMadeFor == \A i \in 1..Len(entries) : madeFor[entries[i].code] = entries[i].line

CacheInv == CacheType /\ Places /\ RefsCounted /\ CodeOfLine /\ EntriesMadeFor

(* The number of users is a number.                                        *)
LEMMA UsersNat == ASSUME NEW c PROVE Users(c) \in Nat
  BY FiniteThreads, CountType DEF Users

(* No thread holds a code object that has no user.                         *)
LEMMA NoUser == ASSUME NEW c, Users(c) = 0, NEW t \in Thread PROVE code[t] # c
  BY FiniteThreads, CountPositive, UsersNat DEF Users

(* The users of each code object when thread t gets or drops one.          *)
LEMMA UsersMove ==
    ASSUME code \in [Thread -> Code \cup {None}], NEW t \in Thread, NEW q \in Code \cup {None},
           code' = [code EXCEPT ![t] = q], NEW c
    PROVE  Users(c)' = Users(c) + (IF q = c THEN 1 ELSE 0) - (IF code[t] = c THEN 1 ELSE 0)
<1>1. code'[t] = q /\ \A u \in Thread \ {t} : code'[u] = code[u]
  OBVIOUS
<1>2. Count(code', Thread, {c}) = Count(code, Thread, {c}) + (IF code'[t] \in {c} THEN 1 ELSE 0)
                                                           - (IF code[t] \in {c} THEN 1 ELSE 0)
  <2>1. ASSUME NEW f, NEW g, \A u \in Thread \ {t} : g[u] = f[u]
        PROVE  Count(g, Thread, {c}) = Count(f, Thread, {c}) + (IF g[t] \in {c} THEN 1 ELSE 0)
                                                             - (IF f[t] \in {c} THEN 1 ELSE 0)
    BY <2>1, FiniteThreads, CountMove
  <2>2. QED
    BY <1>1, <2>1
<1>3. Users(c)' = Count(code', Thread, {c})
  BY DEF Users
<1>4. QED
  BY <1>1, <1>2, <1>3 DEF Users

(* What the invariant says of the entries.                                 *)
LEMMA CacheFacts ==
    ASSUME CacheInv
    PROVE  /\ Len(entries) \in Nat
           /\ \A i \in 1..Len(entries) : entries[i].code \in Code /\ entries[i].line \in Line
  BY TableFacts DEF CacheInv, CacheType

(* The entries of a code object are counted by a number.                   *)
LEMMA EntriesNat == ASSUME CacheInv, NEW c PROVE Cardinality(EntriesOf(entries, c)) \in Nat
  BY EntriesFinite, CacheFacts

(* The empty table is one.                                                 *)
LEMMA EmptyTable == IsTable(<<>>) /\ \A c : Cardinality(EntriesOf(<<>>, c)) = 0
<1>1. IsTable(<<>>)
  BY EmptySeq DEF IsTable, IsSorted
<1>2. Len(<<>>) = 0
  BY EmptySeq
<1>3. \A c : EntriesOf(<<>>, c) = {}
  BY <1>2 DEF EntriesOf
<1>4. QED
  BY <1>1, <1>3, FS_EmptySet

(* The initial state.                                                      *)
LEMMA CacheInitInv == CacheInit => CacheInv
<1> SUFFICES ASSUME CacheInit PROVE CacheInv
  OBVIOUS
<1>1. CacheType
  BY EmptyTable, EmptySeq DEF CacheInit, CacheType, Steps
<1>2. Places /\ CodeOfLine
  BY DEF CacheInit, Places, CodeOfLine, After
<1>3. EntriesMadeFor
  BY EmptySeq DEF CacheInit, EntriesMadeFor
<1>4. RefsCounted
  <2>1. ASSUME NEW c \in Code PROVE Users(c) = 0
    <3>1. \A t \in Thread : code[t] \notin {c}
      BY LineAssumption DEF CacheInit
    <3>2. ~(Users(c) > 0)
      BY <3>1, FiniteThreads, CountPositive DEF Users
    <3>3. QED
      BY <3>2, UsersNat
  <2>2. QED
    BY <2>1, EmptyTable DEF CacheInit, RefsCounted
<1>5. QED
  BY <1>1, <1>2, <1>3, <1>4 DEF CacheInv

(* Steps that change neither the table nor who uses what.                  *)
LEMMA KeepsCode ==
    ASSUME CacheInv, UNCHANGED <<entries, maxCount, code, refs, madeFor>>,
           pc' \in [Thread -> Steps], line' \in [Thread -> Line \cup {None}],
           Places', CodeOfLine'
    PROVE  CacheInv'
<1>1. CacheType'
  BY DEF CacheInv, CacheType, IsTable, IsSorted
<1>2. RefsCounted'
  <2>1. \A c : Users(c)' = Users(c)
    BY DEF Users
  <2>2. QED
    BY <2>1 DEF CacheInv, RefsCounted
<1>3. EntriesMadeFor'
  BY DEF CacheInv, EntriesMadeFor
<1>4. QED
  BY <1>1, <1>2, <1>3 DEF CacheInv

(* The steps that only announce, withdraw or move on.                      *)
LEMMA MovesInv ==
    ASSUME CacheInv, NEW t \in Thread,
           \/ AddTraceback(t) \/ FindIncr(t) \/ FindUndo(t) \/ FindDecr(t) \/ InsertTry(t) \/ InsertRelease(t)
    PROVE  CacheInv'
<1>1. UNCHANGED <<entries, maxCount, code, refs, madeFor>>
  BY DEF AddTraceback, FindIncr, FindUndo, FindDecr, InsertTry, InsertRelease
<1>2. CASE AddTraceback(t)
  <2>1. PICK l \in Line : line' = [line EXCEPT ![t] = l]
    BY <1>2 DEF AddTraceback
  <2>2. pc[t] = "idle" /\ code[t] = None /\ pc' = [pc EXCEPT ![t] = "findIncr"] /\ code' = code
    BY <1>2 DEF AddTraceback, Goto, CacheInv, Places, Before
  <2>3. pc' \in [Thread -> Steps] /\ line' \in [Thread -> Line \cup {None}]
    BY <2>1, <2>2 DEF CacheInv, CacheType, Steps
  <2>4. Places'
    BY <2>1, <2>2, <2>3 DEF CacheInv, CacheType, Places, Before, After
  <2>5. CodeOfLine'
    BY <1>1, <2>1, <2>2 DEF CacheInv, CacheType, CodeOfLine
  <2>6. QED
    BY <1>1, <2>3, <2>4, <2>5, KeepsCode
<1>3. ASSUME NEW p, pc' = [pc EXCEPT ![t] = p], line' = line, p \in Steps, pc[t] # "idle", code' = code,
             p \in Before => code[t] = None, p \in After => code[t] # None
      PROVE  CacheInv'
  <2>1. pc' \in [Thread -> Steps] /\ line' \in [Thread -> Line \cup {None}]
    BY <1>3 DEF CacheInv, CacheType
  <2>2. Places'
    BY <1>3 DEF CacheInv, CacheType, Places
  <2>3. CodeOfLine'
    BY <1>1, <1>3 DEF CacheInv, CodeOfLine
  <2>4. QED
    BY <1>1, <2>1, <2>2, <2>3, KeepsCode
<1>4. CASE FindIncr(t)
  <2>1. PICK p \in {"findUndo", "findRead"} : pc' = [pc EXCEPT ![t] = p]
    BY <1>4 DEF FindIncr, Goto
  <2>2. pc[t] = "findIncr" /\ code[t] = None /\ line' = line
    BY <1>4 DEF FindIncr, CacheInv, Places, Before
  <2>3. QED
    BY <1>1, <1>3, <2>1, <2>2 DEF Steps, Before, After
<1>5. CASE FindUndo(t)
  <2>1. pc[t] = "findUndo" /\ code[t] = None /\ line' = line /\ pc' = [pc EXCEPT ![t] = "create"]
    BY <1>5 DEF FindUndo, Goto, CacheInv, Places, Before
  <2>2. QED
    BY <1>1, <1>3, <2>1 DEF Steps, Before, After
<1>6. CASE FindDecr(t)
  <2>1. pc[t] = "findDecr" /\ line' = line /\ pc' = [pc EXCEPT ![t] = IF code[t] = None THEN "create" ELSE "use"]
    BY <1>6 DEF FindDecr, Goto
  <2>2. CASE code[t] = None
    BY <1>1, <1>3, <2>1, <2>2 DEF Steps, Before, After
  <2>3. CASE code[t] # None
    BY <1>1, <1>3, <2>1, <2>3 DEF Steps, Before, After
  <2>4. QED
    BY <2>2, <2>3
<1>7. CASE InsertTry(t)
  <2>1. PICK p \in {"write", "use"} : pc' = [pc EXCEPT ![t] = p]
    BY <1>7 DEF InsertTry, Goto
  <2>2. pc[t] = "insert" /\ code[t] # None /\ line' = line
    BY <1>7 DEF InsertTry, CacheInv, Places, After
  <2>3. QED
    BY <1>1, <1>3, <2>1, <2>2 DEF Steps, Before, After
<1>8. CASE InsertRelease(t)
  <2>1. pc[t] = "release" /\ code[t] # None /\ line' = line /\ pc' = [pc EXCEPT ![t] = "use"]
    BY <1>8 DEF InsertRelease, Goto, CacheInv, Places, After
  <2>2. QED
    BY <1>1, <1>3, <2>1 DEF Steps, Before, After
<1>9. QED
  BY <1>2, <1>4, <1>5, <1>6, <1>7, <1>8

(* A line that is found has an entry at the position of the bisection.     *)
LEMMA FoundEntry ==
    ASSUME NEW E, IsTable(E), NEW l \in Line, Found(E, l)
    PROVE  /\ Bisect(E, l) + 1 \in 1..Len(E) /\ E[Bisect(E, l) + 1].line = l
           /\ E[Bisect(E, l) + 1].code \in Code
<1>1. l \in Int /\ E # <<>> /\ Len(E) \in Nat
  BY LineAssumption, TableFacts DEF Found
<1>2. Bisect(E, l) \in 0..Len(E)
  BY <1>1, BisectSplits DEF SplitsAt
<1>3. Bisect(E, l) < Len(E) /\ E[Bisect(E, l) + 1].line = l
  BY DEF Found
<1>4. Bisect(E, l) + 1 \in 1..Len(E)
  BY <1>1, <1>2, <1>3
<1>5. QED
  BY <1>3, <1>4, TableFacts

(* A reader takes a new reference to the code object of the entry.         *)
LEMMA FindReadInv == ASSUME CacheInv, NEW t \in Thread, FindRead(t) PROVE CacheInv'
<1>1. /\ pc[t] = "findRead" /\ code[t] = None /\ line[t] \in Line /\ pc' = [pc EXCEPT ![t] = "findDecr"]
      /\ UNCHANGED <<accessorCount, entries, maxCount, line, madeFor>>
  BY DEF FindRead, Goto, CacheInv, Places, Before
<1>2. pc' \in [Thread -> Steps]
  BY <1>1 DEF CacheInv, CacheType, Steps
<1>3. CASE ~Found(entries, line[t])
  <2>1. code' = code /\ refs' = refs
    BY <1>3 DEF FindRead
  <2>2. Places'
    BY <1>1, <2>1 DEF CacheInv, CacheType, Places, Before, After
  <2>3. CodeOfLine'
    BY <1>1, <2>1 DEF CacheInv, CodeOfLine
  <2>4. line' \in [Thread -> Line \cup {None}]
    BY <1>1 DEF CacheInv, CacheType
  <2>5. QED
    BY <1>1, <1>2, <2>1, <2>2, <2>3, <2>4, KeepsCode
<1>4. CASE Found(entries, line[t])
  <2> DEFINE k == Bisect(entries, line[t]) + 1  c == entries[k].code
  <2>1. k \in 1..Len(entries) /\ entries[k].line = line[t] /\ c \in Code
    BY <1>1, <1>4, FoundEntry DEF CacheInv, CacheType
  <2>2. code' = [code EXCEPT ![t] = c] /\ refs' = [refs EXCEPT ![c] = @ + 1]
    BY <1>4 DEF FindRead
  <2> HIDE DEF k
  <2>3. c # None /\ madeFor[c] = line[t]
    BY <2>1, LineAssumption DEF CacheInv, EntriesMadeFor
  <2> HIDE DEF c
  <2>4. CacheType'
    BY <1>1, <1>2, <2>1, <2>2 DEF CacheInv, CacheType, IsTable, IsSorted
  <2>5. Places'
    BY <1>1, <2>2 DEF CacheInv, CacheType, Places, Before, After
  <2>6. CodeOfLine'
    <3>1. code'[t] = c /\ \A u \in Thread \ {t} : code'[u] = code[u]
      BY <2>2 DEF CacheInv, CacheType
    <3>2. QED
      BY <1>1, <2>3, <3>1 DEF CacheInv, CodeOfLine
  <2>7. EntriesMadeFor'
    BY <1>1 DEF CacheInv, EntriesMadeFor
  <2>8. RefsCounted'
    <3>1. SUFFICES ASSUME NEW d \in Code PROVE refs'[d] = Cardinality(EntriesOf(entries, d)) + Users(d)'
      BY <1>1 DEF RefsCounted, EntriesOf
    <3>2. Users(d)' = Users(d) + (IF c = d THEN 1 ELSE 0) - (IF code[t] = d THEN 1 ELSE 0)
      BY <2>1, <2>2, UsersMove DEF CacheInv, CacheType
    <3>3. code[t] # d
      BY <1>1, LineAssumption
    <3>4. refs[d] = Cardinality(EntriesOf(entries, d)) + Users(d)
      BY DEF CacheInv, RefsCounted
    <3>5. refs'[d] = refs[d] + (IF c = d THEN 1 ELSE 0)
      BY <2>1, <2>2 DEF CacheInv, CacheType
    <3>6. Users(d) \in Nat /\ Cardinality(EntriesOf(entries, d)) \in Nat
      BY UsersNat, EntriesNat
    <3>7. QED
      BY <3>2, <3>3, <3>4, <3>5, <3>6
  <2>9. QED
    BY <2>4, <2>5, <2>6, <2>7, <2>8 DEF CacheInv
<1>5. QED
  BY <1>3, <1>4

(* A code object that nobody refers to is made for the line of the         *)
(* thread.                                                                 *)
LEMMA CreateInv == ASSUME CacheInv, NEW t \in Thread, CreateCodeObject(t) PROVE CacheInv'
<1>1. /\ pc[t] = "create" /\ code[t] = None /\ line[t] \in Line
      /\ UNCHANGED <<accessorCount, entries, maxCount>>
  BY DEF CreateCodeObject, CacheInv, Places, Before
<1>2. ASSUME NEW c \in Code, refs[c] = 0, refs' = [refs EXCEPT ![c] = 1], madeFor' = [madeFor EXCEPT ![c] = line[t]],
             code' = [code EXCEPT ![t] = c], Goto(t, "insert"), line' = line
      PROVE  CacheInv'
  <2>1. Users(c) = 0 /\ Cardinality(EntriesOf(entries, c)) = 0
    <3>1. refs[c] = Cardinality(EntriesOf(entries, c)) + Users(c)
      BY DEF CacheInv, RefsCounted
    <3>2. QED
      BY <1>2, <3>1, UsersNat, EntriesNat
  <2>2. \A u \in Thread : code[u] # c
    BY <2>1, NoUser
  <2>3. \A i \in 1..Len(entries) : entries[i].code # c
    <3>1. IsFiniteSet(EntriesOf(entries, c))
      BY CacheFacts, EntriesFinite
    <3>2. EntriesOf(entries, c) = {}
      BY <2>1, <3>1, FS_EmptySet
    <3>3. QED
      BY <3>2 DEF EntriesOf
  <2>4. pc' = [pc EXCEPT ![t] = "insert"] /\ pc' \in [Thread -> Steps]
    BY <1>2 DEF Goto, CacheInv, CacheType, Steps
  <2>5. /\ code'[t] = c /\ \A u \in Thread \ {t} : code'[u] = code[u]
        /\ madeFor'[c] = line[t] /\ \A d \in Code \ {c} : madeFor'[d] = madeFor[d]
    BY <1>2 DEF CacheInv, CacheType
  <2>6. CacheType'
    BY <1>1, <1>2, <2>4 DEF CacheInv, CacheType, IsTable, IsSorted
  <2>7. Places'
    BY <1>1, <1>2, <2>4, <2>5, LineAssumption DEF CacheInv, CacheType, Places, Before, After
  <2>8. CodeOfLine'
    BY <1>2, <2>2, <2>5 DEF CacheInv, CacheType, CodeOfLine
  <2>9. EntriesMadeFor'
    <3>1. SUFFICES ASSUME NEW i \in 1..Len(entries) PROVE madeFor'[entries[i].code] = entries[i].line
      BY <1>1 DEF EntriesMadeFor
    <3>2. entries[i].code \in Code \ {c}
      BY <2>3, CacheFacts
    <3>3. QED
      BY <2>5, <3>2 DEF CacheInv, EntriesMadeFor
  <2>10. RefsCounted'
    <3>1. SUFFICES ASSUME NEW d \in Code PROVE refs'[d] = Cardinality(EntriesOf(entries, d)) + Users(d)'
      BY <1>1 DEF RefsCounted, EntriesOf
    <3>2. Users(d)' = Users(d) + (IF c = d THEN 1 ELSE 0) - (IF code[t] = d THEN 1 ELSE 0)
      <4>1. code \in [Thread -> Code \cup {None}] /\ c \in Code \cup {None} /\ code' = [code EXCEPT ![t] = c]
        BY <1>2 DEF CacheInv, CacheType
      <4>2. QED
        BY <4>1, UsersMove
    <3>3. code[t] # d
      BY <1>1, LineAssumption
    <3>4. refs[d] = Cardinality(EntriesOf(entries, d)) + Users(d)
      BY DEF CacheInv, RefsCounted
    <3>5. refs'[d] = IF c = d THEN 1 ELSE refs[d]
      BY <1>2 DEF CacheInv, CacheType
    <3>6. Users(d) \in Nat /\ Cardinality(EntriesOf(entries, d)) \in Nat
      BY UsersNat, EntriesNat
    <3>7. QED
      BY <2>1, <3>2, <3>3, <3>4, <3>5, <3>6
  <2>11. QED
    BY <2>6, <2>7, <2>8, <2>9, <2>10 DEF CacheInv
<1>3. ASSUME line' = [line EXCEPT ![t] = None], Goto(t, "idle"), UNCHANGED <<refs, madeFor, code>>
      PROVE  CacheInv'
  <2>1. pc' = [pc EXCEPT ![t] = "idle"] /\ pc' \in [Thread -> Steps]
    BY <1>3 DEF Goto, CacheInv, CacheType, Steps
  <2>2. line' \in [Thread -> Line \cup {None}]
    BY <1>3 DEF CacheInv, CacheType
  <2>3. Places'
    BY <1>1, <1>3, <2>1 DEF CacheInv, CacheType, Places, Before, After
  <2>4. CodeOfLine'
    BY <1>1, <1>3 DEF CacheInv, CacheType, CodeOfLine
  <2>5. QED
    BY <1>1, <1>3, <2>1, <2>2, <2>3, <2>4, KeepsCode
<1>4. QED
  BY <1>2, <1>3 DEF CreateCodeObject

(* The caller drops its reference.                                         *)
LEMMA UseInv == ASSUME CacheInv, NEW t \in Thread, UseCodeObject(t) PROVE CacheInv'
<1> DEFINE c == code[t]
<1>1. /\ pc[t] = "use" /\ c # None /\ c \in Code
      /\ refs' = [refs EXCEPT ![c] = @ - 1] /\ code' = [code EXCEPT ![t] = None]
      /\ line' = [line EXCEPT ![t] = None] /\ pc' = [pc EXCEPT ![t] = "idle"]
      /\ UNCHANGED <<accessorCount, entries, maxCount, madeFor>>
  BY DEF UseCodeObject, Goto, CacheInv, CacheType, Places, After
<1>2. pc' \in [Thread -> Steps]
  BY <1>1 DEF CacheInv, CacheType, Steps
<1>3. code'[t] = None /\ \A u \in Thread \ {t} : code'[u] = code[u] /\ line'[u] = line[u]
  BY <1>1 DEF CacheInv, CacheType
<1>4. CacheType'
  BY <1>1, <1>2 DEF CacheInv, CacheType, IsTable, IsSorted
<1>5. Places'
  BY <1>1, <1>2, <1>3 DEF CacheInv, CacheType, Places, Before, After
<1>6. CodeOfLine'
  BY <1>1, <1>3 DEF CacheInv, CodeOfLine
<1>7. EntriesMadeFor'
  BY <1>1 DEF CacheInv, EntriesMadeFor
<1>8. RefsCounted'
  <2>1. SUFFICES ASSUME NEW d \in Code PROVE refs'[d] = Cardinality(EntriesOf(entries, d)) + Users(d)'
    BY <1>1 DEF RefsCounted, EntriesOf
  <2>2. Users(d)' = Users(d) + (IF None = d THEN 1 ELSE 0) - (IF c = d THEN 1 ELSE 0)
    BY <1>1, UsersMove DEF CacheInv, CacheType
  <2>3. None # d
    BY LineAssumption
  <2>4. refs[d] = Cardinality(EntriesOf(entries, d)) + Users(d)
    BY DEF CacheInv, RefsCounted
  <2>5. refs'[d] = refs[d] - (IF c = d THEN 1 ELSE 0)
    BY <1>1 DEF CacheInv, CacheType
  <2>6. Users(d) \in Nat /\ Cardinality(EntriesOf(entries, d)) \in Nat
    BY UsersNat, EntriesNat
  <2>7. QED
    BY <2>2, <2>3, <2>4, <2>5, <2>6
<1>9. QED
  BY <1>4, <1>5, <1>6, <1>7, <1>8 DEF CacheInv

(* No thread is in a call when the table is cleared.                       *)
LEMMA CleanupInv == ASSUME CacheInv, Cleanup PROVE CacheInv'
<1>1. /\ entries' = <<>> /\ maxCount' = 0 /\ UNCHANGED <<accessorCount, pc, line, code, madeFor>>
      /\ \A t \in Thread : pc[t] = "idle"
      /\ refs' = [c \in Code |-> refs[c] - Cardinality(EntriesOf(entries, c))]
  BY DEF Cleanup, EntriesOf
<1>2. IsTable(<<>>) /\ Len(<<>>) = 0
  BY EmptyTable, EmptySeq
<1>3. CacheType'
  <2>1. refs' \in [Code -> Int]
    BY <1>1, EntriesNat DEF CacheInv, CacheType
  <2>2. QED
    BY <1>1, <1>2, <2>1 DEF CacheInv, CacheType, IsTable, IsSorted
<1>4. Places' /\ CodeOfLine'
  BY <1>1 DEF CacheInv, Places, CodeOfLine
<1>5. EntriesMadeFor'
  BY <1>1, <1>2 DEF EntriesMadeFor
<1>6. RefsCounted'
  <2>1. SUFFICES ASSUME NEW d \in Code PROVE refs'[d] = Cardinality(EntriesOf(<<>>, d)) + Users(d)'
    BY <1>1 DEF RefsCounted, EntriesOf
  <2>2. Users(d)' = Users(d)
    BY <1>1 DEF Users
  <2>3. refs[d] = Cardinality(EntriesOf(entries, d)) + Users(d)
    BY DEF CacheInv, RefsCounted
  <2>4. QED
    BY <1>1, <2>2, <2>3, UsersNat, EntriesNat, EmptyTable
<1>7. QED
  BY <1>3, <1>4, <1>5, <1>6 DEF CacheInv

(* The table with the code object of entry k exchanged.                    *)
LEMMA Replaced ==
    ASSUME NEW E, IsTable(E), NEW k \in 1..Len(E), NEW c \in Code
    PROVE  LET F == [E EXCEPT ![k].code = c] IN
           /\ IsTable(F) /\ Len(F) = Len(E) /\ F[k].line = E[k].line /\ F[k].code = c
           /\ \A i \in 1..Len(E) \ {k} : F[i] = E[i]
<1> DEFINE F == [E EXCEPT ![k].code = c]  e == [E[k] EXCEPT !.code = c]
<1>1. E \in Seq(Entry) /\ Len(E) \in Nat /\ E[k] \in Entry
  BY TableFacts DEF IsTable, Entry
<1>2. e \in Entry /\ e.line = E[k].line /\ e.code = c
  BY <1>1 DEF Entry
<1>3. F = [E EXCEPT ![k] = e]
  OBVIOUS
<1> HIDE DEF F, e
<1>4. F \in Seq(Entry) /\ Len(F) = Len(E) /\ \A j \in 1..Len(E) : F[j] = IF j = k THEN e ELSE E[j]
  BY <1>1, <1>2, <1>3, ExceptSeq
<1>5. \A j \in 1..Len(E) : F[j].line = E[j].line
  BY <1>2, <1>4
<1>6. IsTable(F)
  BY <1>4, <1>5 DEF IsTable, IsSorted, Entry
<1>7. QED
  BY <1>2, <1>4, <1>6 DEF F

(* The exchange moves one entry from one code object to another.           *)
LEMMA EntriesOfReplaced ==
    ASSUME NEW E, NEW F, Len(E) \in Nat, Len(F) = Len(E), NEW k \in 1..Len(E),
           \A i \in 1..Len(E) : i # k => F[i] = E[i], NEW d
    PROVE  Cardinality(EntriesOf(F, d))
             = Cardinality(EntriesOf(E, d)) + (IF F[k].code = d THEN 1 ELSE 0) - (IF E[k].code = d THEN 1 ELSE 0)
<1> DEFINE R == EntriesOf(E, d) \ {k}
<1>1. IsFiniteSet(EntriesOf(E, d))
  BY EntriesFinite
<1>2. IsFiniteSet(R) /\ Cardinality(R) \in Nat
  BY <1>1, FS_RemoveElement, FS_CardinalityType
<1>3. k \notin R /\ EntriesOf(E, d) = (IF E[k].code = d THEN R \cup {k} ELSE R)
  BY DEF EntriesOf
<1>4. EntriesOf(F, d) = (IF F[k].code = d THEN R \cup {k} ELSE R)
  BY DEF EntriesOf
<1> HIDE DEF R
<1>5. Cardinality(R \cup {k}) = Cardinality(R) + 1
  BY <1>2, <1>3, FS_AddElement
<1>6. QED
  BY <1>2, <1>3, <1>4, <1>5

(* What a write leaves alone.                                              *)
LEMMA WriteFrame ==
    ASSUME CacheInv, NEW t \in Thread, InsertWrite(t)
    PROVE  /\ pc[t] = "write" /\ line[t] \in Line /\ code[t] \in Code /\ code[t] # None /\ madeFor[code[t]] = line[t]
           /\ pc' = [pc EXCEPT ![t] = "release"] /\ pc' \in [Thread -> Steps]
           /\ UNCHANGED <<accessorCount, line, code, madeFor>>
           /\ Places' /\ CodeOfLine'
           /\ \A d : Users(d)' = Users(d)
<1>1. /\ pc[t] = "write" /\ line[t] \in Line /\ code[t] \in Code /\ code[t] # None /\ madeFor[code[t]] = line[t]
      /\ pc' = [pc EXCEPT ![t] = "release"] /\ UNCHANGED <<accessorCount, line, code, madeFor>>
  BY DEF InsertWrite, Goto, CacheInv, CacheType, Places, After, CodeOfLine
<1>2. pc' \in [Thread -> Steps]
  BY <1>1 DEF CacheInv, CacheType, Steps
<1>3. Places'
  BY <1>1 DEF CacheInv, CacheType, Places, Before, After
<1>4. CodeOfLine'
  BY <1>1 DEF CacheInv, CodeOfLine
<1>5. \A d : Users(d)' = Users(d)
  BY <1>1 DEF Users
<1>6. QED
  BY <1>1, <1>2, <1>3, <1>4, <1>5

(* The code object of a line that is there is exchanged.                   *)
LEMMA ReplaceInv ==
    ASSUME CacheInv, NEW t \in Thread, InsertWrite(t),
           Found(entries, line[t]), Replace(Bisect(entries, line[t]), code[t])
    PROVE  CacheInv'
<1> DEFINE k == Bisect(entries, line[t]) + 1  c == code[t]  tmp == entries[k].code
<1>1. /\ line[t] \in Line /\ c \in Code /\ madeFor[c] = line[t]
      /\ pc' \in [Thread -> Steps] /\ UNCHANGED <<line, code, madeFor>> /\ Places' /\ CodeOfLine'
  BY WriteFrame
<1>2. \A d : Users(d)' = Users(d)
  BY WriteFrame
<1>3. IsTable(entries) /\ Len(entries) \in Nat
  BY CacheFacts DEF CacheInv, CacheType
<1>4. k \in 1..Len(entries) /\ entries[k].line = line[t] /\ tmp \in Code
  BY <1>1, <1>3, FoundEntry
<1>5. /\ entries' = [entries EXCEPT ![k].code = c] /\ maxCount' = maxCount
      /\ refs' = [[refs EXCEPT ![c] = @ + 1] EXCEPT ![tmp] = @ - 1]
  BY DEF Replace
<1> HIDE DEF k
<1>6. /\ IsTable(entries') /\ Len(entries') = Len(entries)
      /\ entries'[k].line = entries[k].line /\ entries'[k].code = c
      /\ \A i \in 1..Len(entries) \ {k} : entries'[i] = entries[i]
  <2> DEFINE F == [entries EXCEPT ![k].code = c]
  <2>1. /\ IsTable(F) /\ Len(F) = Len(entries) /\ F[k].line = entries[k].line /\ F[k].code = c
        /\ \A i \in 1..Len(entries) \ {k} : F[i] = entries[i]
    BY <1>1, <1>3, <1>4, Replaced
  <2>2. F = entries'
    BY <1>5
  <2> HIDE DEF F
  <2>3. QED
    BY <2>1, <2>2
<1> HIDE DEF c, tmp
<1>7. refs' \in [Code -> Int]
  BY <1>1, <1>4, <1>5 DEF CacheInv, CacheType
<1>8. CacheType'
  BY <1>1, <1>5, <1>6, <1>7 DEF CacheInv, CacheType
<1>9. EntriesMadeFor'
  <2>1. SUFFICES ASSUME NEW i \in 1..Len(entries) PROVE madeFor[entries'[i].code] = entries'[i].line
    BY <1>1, <1>6 DEF EntriesMadeFor
  <2>2. CASE i = k
    BY <1>1, <1>4, <1>6, <2>2
  <2>3. CASE i # k
    BY <1>6, <2>3 DEF CacheInv, EntriesMadeFor
  <2>4. QED
    BY <2>2, <2>3
<1>10. RefsCounted'
  <2>1. SUFFICES ASSUME NEW d \in Code PROVE refs'[d] = Cardinality(EntriesOf(entries', d)) + Users(d)'
    BY DEF RefsCounted
  <2>2. Cardinality(EntriesOf(entries', d))
          = Cardinality(EntriesOf(entries, d)) + (IF c = d THEN 1 ELSE 0) - (IF tmp = d THEN 1 ELSE 0)
    <3> DEFINE F == entries'
    <3>1. Len(F) = Len(entries) /\ F[k].code = c /\ \A i \in 1..Len(entries) : i # k => F[i] = entries[i]
      BY <1>6
    <3> HIDE DEF F
    <3>2. Cardinality(EntriesOf(F, d))
            = Cardinality(EntriesOf(entries, d)) + (IF F[k].code = d THEN 1 ELSE 0)
                                                 - (IF entries[k].code = d THEN 1 ELSE 0)
      BY <1>3, <1>4, <3>1, EntriesOfReplaced
    <3>3. QED
      BY <3>1, <3>2 DEF F, tmp
  <2>3. refs'[d] = refs[d] + (IF c = d THEN 1 ELSE 0) - (IF tmp = d THEN 1 ELSE 0)
    BY <1>1, <1>4, <1>5 DEF CacheInv, CacheType
  <2>4. refs[d] = Cardinality(EntriesOf(entries, d)) + Users(d)
    BY DEF CacheInv, RefsCounted
  <2>5. QED
    BY <1>2, <2>2, <2>3, <2>4, UsersNat, EntriesNat
<1>11. QED
  BY <1>1, <1>8, <1>9, <1>10 DEF CacheInv

(* An insertion where the table splits keeps it sorted.                    *)
LEMMA InsertedSorted ==
    ASSUME NEW E, IsTable(E), NEW e \in Entry, NEW pos, SplitsAt(E, e.line, pos),
           pos < Len(E) => E[pos + 1].line # e.line
    PROVE  IsTable(Inserted(E, pos, e))
<1> DEFINE F == Inserted(E, pos, e)  n == Len(E)
<1>1. E \in Seq(Entry) /\ n \in Nat /\ pos \in 0..n /\ e.line \in Int
  BY TableFacts, LineAssumption DEF IsTable, SplitsAt, Entry
<1>2. /\ F \in Seq(Entry) /\ Len(F) = n + 1 /\ F[pos + 1] = e
      /\ \A i \in 1..pos : F[i] = E[i]
  BY <1>1, InsertedElements
<1>3. \A i \in pos + 2..n + 1 : F[i] = E[i - 1]
  BY <1>1, InsertedElements
<1> HIDE DEF F
<1>4. \A i \in 1..pos : E[i].line < e.line
  BY DEF SplitsAt
<1>5. \A i \in pos + 1..n : E[i].line > e.line
  <2>1. SUFFICES ASSUME NEW i \in pos + 1..n PROVE E[i].line > e.line
    OBVIOUS
  <2>2. i \in 1..n /\ pos + 1 \in 1..n /\ pos < n
    BY <1>1
  <2>3. E[i].line \in Int /\ E[pos + 1].line \in Int
    BY <2>2, TableFacts
  <2>4. E[pos + 1].line > e.line
    BY <1>1, <2>2, <2>3 DEF SplitsAt
  <2>5. i = pos + 1 \/ E[pos + 1].line < E[i].line
    BY <1>1, <2>2, TableFacts
  <2>6. QED
    BY <1>1, <2>3, <2>4, <2>5
<1>6. ASSUME NEW i \in 1..Len(F), NEW j \in 1..Len(F), i < j PROVE F[i].line < F[j].line
  <2>1. \A m \in 1..n : E[m].line \in Int
    BY TableFacts
  <2>2. \A m, q \in 1..n : m < q => E[m].line < E[q].line
    BY TableFacts
  <2>3. i \in 1..n + 1 /\ j \in 1..n + 1 /\ i < j
    BY <1>2, <1>6
  <2>4. CASE j <= pos
    BY <1>1, <1>2, <2>2, <2>3, <2>4
  <2>5. CASE j = pos + 1
    BY <1>1, <1>2, <1>4, <2>3, <2>5
  <2>6. CASE j > pos + 1
    <3>1. F[j] = E[j - 1] /\ j - 1 \in pos + 1..n /\ j - 1 \in 1..n
      BY <1>1, <1>3, <2>3, <2>6
    <3>2. E[j - 1].line > e.line /\ E[j - 1].line \in Int
      BY <1>5, <2>1, <3>1
    <3>3. CASE i <= pos
      <4>1. F[i] = E[i] /\ i \in 1..n /\ i < j - 1
        BY <1>1, <1>2, <2>3, <2>6, <3>3
      <4>2. QED
        BY <2>2, <3>1, <4>1
    <3>4. CASE i = pos + 1
      BY <1>2, <3>1, <3>2, <3>4, <1>1
    <3>5. CASE i > pos + 1
      <4>1. F[i] = E[i - 1] /\ i - 1 \in 1..n /\ i - 1 < j - 1
        BY <1>1, <1>3, <2>3, <3>5
      <4>2. QED
        BY <2>2, <3>1, <4>1
    <3>6. QED
      BY <1>1, <2>3, <3>3, <3>4, <3>5
  <2>7. QED
    BY <1>1, <2>3, <2>4, <2>5, <2>6
<1>7. IsTable(F)
  BY <1>2, <1>6 DEF IsTable, IsSorted, Entry
<1>8. QED
  BY <1>7 DEF F

(* A line that is not there is inserted where the bisection says.          *)
LEMMA InsertInv ==
    ASSUME CacheInv, NEW t \in Thread, InsertWrite(t), ~Found(entries, line[t]),
           InsertAt(IF entries = <<>> THEN 0 ELSE Bisect(entries, line[t]), line[t], code[t])
    PROVE  CacheInv'
<1> DEFINE E == entries  n == Len(entries)  l == line[t]  c == code[t]  e == [line |-> l, code |-> c]
           pos == IF entries = <<>> THEN 0 ELSE Bisect(entries, l)
<1>1. /\ l \in Line /\ c \in Code /\ madeFor[c] = l
      /\ pc' \in [Thread -> Steps] /\ UNCHANGED <<line, code, madeFor>> /\ Places' /\ CodeOfLine'
  BY WriteFrame
<1>2. \A d : Users(d)' = Users(d)
  BY WriteFrame
<1>3. IsTable(E) /\ E \in Seq(Entry) /\ n \in Nat /\ maxCount \in Nat /\ n <= maxCount
  BY CacheFacts DEF CacheInv, CacheType, IsTable, Entry
<1>4. e \in Entry /\ e.line = l /\ e.code = c /\ l \in Int
  BY <1>1, LineAssumption DEF Entry
<1>5. /\ entries' = Inserted(E, pos, e) /\ refs' = [refs EXCEPT ![c] = @ + 1]
      /\ maxCount' = IF n = maxCount THEN maxCount + Chunk ELSE maxCount
  BY DEF InsertAt, Inserted
<1>6. SplitsAt(E, l, pos) /\ pos \in 0..n
  <2>1. CASE E = <<>>
    BY <2>1, EmptySeq DEF SplitsAt
  <2>2. CASE E # <<>>
    BY <1>3, <1>4, <2>2, BisectSplits DEF SplitsAt
  <2>3. QED
    BY <2>1, <2>2
<1>7. pos < n => E[pos + 1].line # l
  <2>1. E = <<>> => n = 0
    BY EmptySeq
  <2>2. QED
    BY <2>1, <1>6 DEF Found
<1> HIDE DEF pos, e
<1>8. IsTable(Inserted(E, pos, e))
  BY <1>3, <1>4, <1>6, <1>7, InsertedSorted
<1>9. Len(Inserted(E, pos, e)) = n + 1
  BY <1>3, <1>4, <1>6, InsertedElements
<1>10. CacheType'
  <2>1. refs' \in [Code -> Int]
    BY <1>1, <1>5 DEF CacheInv, CacheType
  <2>2. maxCount' \in Nat /\ n + 1 <= maxCount'
    BY <1>3, <1>5, LineAssumption
  <2>3. IsTable(entries') /\ Len(entries') <= maxCount'
    BY <1>5, <1>8, <1>9, <2>2
  <2>4. QED
    BY <1>1, <2>1, <2>2, <2>3 DEF CacheInv, CacheType
<1>11. EntriesMadeFor'
  <2> DEFINE F == Inserted(E, pos, e)
  <2>1. SUFFICES ASSUME NEW i \in 1..n + 1 PROVE madeFor[F[i].code] = F[i].line
    BY <1>1, <1>5, <1>9 DEF EntriesMadeFor
  <2>2. F[pos + 1] = e /\ \A j \in 1..pos : F[j] = E[j]
    BY <1>3, <1>4, <1>6, InsertedElements
  <2>3. \A j \in pos + 2..n + 1 : F[j] = E[j - 1]
    BY <1>3, <1>4, <1>6, InsertedElements
  <2> HIDE DEF F
  <2>4. \A j \in 1..n : madeFor[E[j].code] = E[j].line
    BY DEF CacheInv, EntriesMadeFor
  <2>5. CASE i = pos + 1
    BY <1>1, <1>4, <2>2, <2>5
  <2>6. CASE i < pos + 1
    BY <1>3, <1>6, <2>2, <2>4, <2>6
  <2>7. CASE i > pos + 1
    <3>1. F[i] = E[i - 1] /\ i - 1 \in 1..n
      BY <1>3, <1>6, <2>3, <2>7
    <3>2. QED
      BY <2>4, <3>1
  <2>8. QED
    BY <1>3, <1>6, <2>5, <2>6, <2>7
<1>12. RefsCounted'
  <2>1. SUFFICES ASSUME NEW d \in Code PROVE refs'[d] = Cardinality(EntriesOf(entries', d)) + Users(d)'
    BY DEF RefsCounted
  <2>2. Cardinality(EntriesOf(entries', d)) = Cardinality(EntriesOf(E, d)) + (IF c = d THEN 1 ELSE 0)
    <3>1. Cardinality(EntriesOf(Inserted(E, pos, e), d))
            = Cardinality(EntriesOf(E, d)) + (IF e.code = d THEN 1 ELSE 0)
      BY <1>3, <1>4, <1>6, EntriesOfInserted
    <3>2. QED
      BY <1>4, <1>5, <3>1
  <2>3. refs'[d] = refs[d] + (IF c = d THEN 1 ELSE 0)
    BY <1>1, <1>5 DEF CacheInv, CacheType
  <2>4. refs[d] = Cardinality(EntriesOf(E, d)) + Users(d)
    BY DEF CacheInv, RefsCounted
  <2>5. QED
    BY <1>2, <2>2, <2>3, <2>4, UsersNat, EntriesNat
<1>13. QED
  BY <1>1, <1>10, <1>11, <1>12 DEF CacheInv

(* The write, which may also find no memory.                               *)
LEMMA WriteInv == ASSUME CacheInv, NEW t \in Thread, InsertWrite(t) PROVE CacheInv'
<1>1. CASE UNCHANGED <<entries, maxCount, refs>>
  <2>1. /\ UNCHANGED <<line, code, madeFor>> /\ pc' \in [Thread -> Steps] /\ Places' /\ CodeOfLine'
    BY WriteFrame
  <2>2. line' \in [Thread -> Line \cup {None}]
    BY <2>1 DEF CacheInv, CacheType
  <2>3. QED
    BY <1>1, <2>1, <2>2, KeepsCode
<1>2. QED
  BY <1>1, ReplaceInv, InsertInv DEF InsertWrite

(* Every step keeps the invariant.                                         *)
LEMMA NextCache == CacheInv /\ [CacheNext]_cacheVars => CacheInv'
<1> SUFFICES ASSUME CacheInv, [CacheNext]_cacheVars PROVE CacheInv'
  OBVIOUS
<1>1. ASSUME NEW t \in Thread, AddTraceback(t) \/ Step(t) PROVE CacheInv'
  BY <1>1, MovesInv, FindReadInv, CreateInv, WriteInv, UseInv DEF Step, Find, Insert
<1>2. CASE UNCHANGED cacheVars
  <2>1. UNCHANGED <<entries, maxCount, code, refs, madeFor, pc, line>>
    BY <1>2 DEF cacheVars
  <2>2. Places' /\ CodeOfLine' /\ pc' \in [Thread -> Steps] /\ line' \in [Thread -> Line \cup {None}]
    BY <2>1 DEF CacheInv, CacheType, Places, CodeOfLine
  <2>3. QED
    BY <2>1, <2>2, KeepsCode
<1>3. QED
  BY <1>1, <1>2, CleanupInv DEF CacheNext

(* The invariant holds of every reachable state.                           *)
THEOREM CacheInvariant == CacheSpec => []CacheInv
<1>1. QED
  BY CacheInitInv, NextCache, PTL DEF CacheSpec

(* The table stays sorted and within its capacity, and the bisection       *)
(* finds in it the position of every line.                                 *)
THEOREM TableAlwaysSorted == CacheSpec => []TableSorted
<1>1. CacheInv => TableSorted
  <2> SUFFICES ASSUME CacheInv PROVE TableSorted
    OBVIOUS
  <2>1. IsTable(entries) /\ Len(entries) \in Nat /\ Len(entries) <= maxCount
    BY CacheFacts DEF CacheInv, CacheType
  <2>2. ASSUME entries # <<>>, NEW l \in Line
        PROVE  Bisect(entries, l) = Cardinality({i \in 1..Len(entries) : entries[i].line < l})
    <3> DEFINE k == Bisect(entries, l)  S == {i \in 1..Len(entries) : entries[i].line < l}
    <3>1. l \in Int
      BY LineAssumption
    <3>2. SplitsAt(entries, l, k)
      BY <2>1, <2>2, <3>1, BisectSplits
    <3>3. \A i \in 1..Len(entries) : entries[i].line \in Int
      BY <2>1, TableFacts
    <3> HIDE DEF k
    <3>4. k \in 0..Len(entries) /\ S = 1..k
      BY <2>1, <3>1, <3>2, <3>3 DEF SplitsAt
    <3>5. Cardinality(1..k) = k
      <4>1. k \in Int /\ k >= 0
        BY <2>1, <3>4
      <4>2. Cardinality(1..k) = IF 1 > k THEN 0 ELSE k - 1 + 1
        BY <4>1, FS_Interval
      <4>3. QED
        BY <4>1, <4>2
    <3>6. QED
      BY <3>4, <3>5 DEF k
  <2>3. QED
    BY <2>1, <2>2 DEF TableSorted, IsTable, IsSorted
<1>2. QED
  BY <1>1, CacheInvariant, PTL

(* A code object is referenced exactly by its entry and by the threads     *)
(* that use it: it is neither freed under a thread nor leaked.             *)
THEOREM ReferencesExact == CacheSpec => []CodeRefsExact
<1>1. CacheInv => CodeRefsExact
  <2>1. \A c : Users(c) = Cardinality({t \in Thread : code[t] = c})
    BY DEF Users, Count, Where
  <2>2. QED
    BY <2>1 DEF CacheInv, RefsCounted, CodeRefsExact, EntriesOf
<1>2. QED
  BY <1>1, CacheInvariant, PTL

(* A traceback gets a code object of its own line.                         *)
THEOREM CodeMadeForLine == CacheSpec => []CodeOfLine
<1>1. CacheInv => CodeOfLine
  BY DEF CacheInv
<1>2. QED
  BY <1>1, CacheInvariant, PTL

-----------------------------------------------------------------------------
(* The protocol of the accessor count.                                     *)
USE FiniteThreads, MinAssumption

nAnnounced == Count(pc, Thread, Announced)
HasWriter == \E t \in Thread : pc[t] \in Writing

(* How many readers there can be, so that a writer keeps the count negative.   *)
LEMMA AnnouncedBound == nAnnounced \in Nat /\ nAnnounced <= Cardinality(Thread)
                        /\ Cardinality(Thread) \in Nat
<1>1. Where(pc, Thread, Announced) \subseteq Thread
  BY DEF Where
<1>2. nAnnounced <= Cardinality(Thread)
  BY <1>1, FS_Subset, Zenon DEF nAnnounced, Count
<1>3. QED
  BY <1>2, CountType, FS_CardinalityType DEF nAnnounced

LEMMA AnnouncedPositive == nAnnounced > 0 <=> \E t \in Thread : pc[t] \in Announced
BY CountPositive DEF nAnnounced

(* The number of announced readers when one thread goes to step q.            *)
LEMMA AnnouncedMoves ==
    ASSUME pc \in [Thread -> Steps], NEW t \in Thread, NEW q \in Steps, pc' = [pc EXCEPT ![t] = q]
    PROVE  /\ pc[t] \in Announced /\ q \in Announced => nAnnounced' = nAnnounced
           /\ pc[t] \notin Announced /\ q \notin Announced => nAnnounced' = nAnnounced
           /\ pc[t] \notin Announced /\ q \in Announced => nAnnounced' = nAnnounced + 1
           /\ pc[t] \in Announced /\ q \notin Announced => nAnnounced' = nAnnounced - 1
<1> DEFINE moved == [pc EXCEPT ![t] = q]
<1>1. \A S : Count(moved, Thread, S) = Count(pc, Thread, S) + (IF q \in S THEN 1 ELSE 0)
                                                 - (IF pc[t] \in S THEN 1 ELSE 0)
  BY CountExcept, Zenon
<1> HIDE DEF moved
<1>2. pc' = moved
  BY DEF moved
<1>3. nAnnounced' = Count(moved, Thread, Announced)
  BY <1>2, Zenon DEF nAnnounced, Announced
<1>4. nAnnounced' = nAnnounced + (IF q \in Announced THEN 1 ELSE 0)
                               - (IF pc[t] \in Announced THEN 1 ELSE 0)
  BY <1>1, <1>3, Zenon DEF nAnnounced
<1>5. QED
  BY <1>4, AnnouncedBound

(* What the invariant says with these names.                                   *)
LEMMA AccessFacts ==
    ASSUME AccessInv
    PROVE  /\ HasWriter => accessorCount = nAnnounced + MIN /\ accessorCount < 0
           /\ ~HasWriter => accessorCount = nAnnounced /\ accessorCount >= 0
BY AnnouncedBound DEF AccessInv, AccessorExact, HasWriter, nAnnounced

LEMMA InitAccess == CacheInit => AccessInv
<1> SUFFICES ASSUME CacheInit PROVE AccessInv
  OBVIOUS
<1>1. ~(nAnnounced > 0)
  BY AnnouncedPositive DEF CacheInit, Announced
<1>2. nAnnounced = 0 /\ ~HasWriter
  BY <1>1, AnnouncedBound DEF CacheInit, HasWriter, Writing
<1>3. AccessorExact
  BY <1>2 DEF CacheInit, AccessorExact, nAnnounced, HasWriter
<1>4. QED
  BY <1>3 DEF CacheInit, AccessInv, Steps, Writing

(* A step of thread t keeps the invariant if it keeps the count and goes        *)
(* neither among the announced nor among the writers.                           *)
LEMMA StepAccess ==
    ASSUME AccessInv, NEW t \in Thread, NEW q \in Steps, pc' = [pc EXCEPT ![t] = q],
           \/ /\ pc[t] \notin Announced \cup Writing /\ q \notin Announced \cup Writing
              /\ accessorCount' = accessorCount
           \/ /\ pc[t] \notin Announced \cup Writing /\ accessorCount' = accessorCount + 1
              /\ \/ q = "findUndo"
                 \/ q = "findRead" /\ ~HasWriter
           \/ /\ pc[t] \in Announced /\ q \notin Announced \cup Writing
              /\ accessorCount' = accessorCount - 1
           \/ pc[t] = "findRead" /\ q = "findDecr" /\ accessorCount' = accessorCount
           \/ /\ pc[t] = "insert" /\ q = "write" /\ accessorCount = 0 /\ accessorCount' = MIN
           \/ pc[t] = "write" /\ q = "release" /\ accessorCount' = accessorCount
           \/ pc[t] = "release" /\ q = "use" /\ accessorCount' = accessorCount - MIN
    PROVE  AccessInv'
<1>1. pc \in [Thread -> Steps] /\ accessorCount \in Int
  BY DEF AccessInv
<1>2. pc'[t] = q /\ \A u \in Thread \ {t} : pc'[u] = pc[u]
  BY <1>1
<1>3. pc' \in [Thread -> Steps]
  BY <1>1
<1>4. nAnnounced \in Nat /\ nAnnounced' \in Nat /\ MIN \in Int
  BY AnnouncedBound, CountType DEF nAnnounced
<1>5. ASSUME accessorCount' = nAnnounced' + (IF HasWriter' THEN MIN ELSE 0)
      PROVE  AccessorExact'
  BY <1>5 DEF AccessorExact, nAnnounced, HasWriter
<1> DEFINE OneWriter == \A u, v \in Thread : pc[u] \in Writing /\ pc[v] \in Writing => u = v
           Apart == \A u, v \in Thread : pc[u] \in Writing => pc[v] \notin {"findRead", "findDecr"}
<1>6. OneWriter /\ Apart
  BY DEF AccessInv
<1>7. CASE /\ pc[t] \notin Announced \cup Writing /\ q \notin Announced \cup Writing
           /\ accessorCount' = accessorCount
  <2>1. nAnnounced' = nAnnounced /\ (HasWriter' <=> HasWriter)
    BY <1>1, <1>2, <1>7, AnnouncedMoves DEF HasWriter
  <2>2. OneWriter' /\ Apart'
    BY <1>2, <1>6, <1>7 DEF Announced
  <2>3. AccessorExact'
    BY <1>4, <1>5, <1>7, <2>1, AccessFacts
  <2>4. QED
    BY <1>1, <1>3, <1>7, <2>2, <2>3 DEF AccessInv
<1>8. CASE /\ pc[t] \notin Announced \cup Writing /\ accessorCount' = accessorCount + 1
           /\ (q = "findUndo" \/ (q = "findRead" /\ ~HasWriter))
  <2>1. q \in Announced /\ q \notin Writing
    BY <1>8 DEF Announced, Writing
  <2>2. nAnnounced' = nAnnounced + 1 /\ (HasWriter' <=> HasWriter)
    BY <1>1, <1>2, <1>8, <2>1, AnnouncedMoves DEF HasWriter
  <2>3. OneWriter' /\ Apart'
    BY <1>2, <1>6, <1>8, <2>1 DEF HasWriter
  <2>4. AccessorExact'
    BY <1>4, <1>5, <1>8, <2>2, AccessFacts
  <2>5. QED
    BY <1>1, <1>3, <1>8, <2>3, <2>4 DEF AccessInv
<1>9. CASE /\ pc[t] \in Announced /\ q \notin Announced \cup Writing
           /\ accessorCount' = accessorCount - 1
  <2>1. pc[t] \notin Writing
    BY <1>9 DEF Announced, Writing
  <2>2. nAnnounced' = nAnnounced - 1 /\ (HasWriter' <=> HasWriter)
    BY <1>1, <1>2, <1>9, <2>1, AnnouncedMoves DEF HasWriter
  <2>3. OneWriter' /\ Apart'
    BY <1>2, <1>6, <1>9 DEF Announced
  <2>4. AccessorExact'
    BY <1>4, <1>5, <1>9, <2>2, AccessFacts
  <2>5. QED
    BY <1>1, <1>3, <1>9, <2>3, <2>4 DEF AccessInv
<1>10. CASE pc[t] = "findRead" /\ q = "findDecr" /\ accessorCount' = accessorCount
  <2>1. pc[t] \in Announced /\ q \in Announced /\ pc[t] \notin Writing /\ q \notin Writing
    BY <1>10 DEF Announced, Writing
  <2>2. nAnnounced' = nAnnounced /\ (HasWriter' <=> HasWriter)
    BY <1>1, <1>2, <2>1, AnnouncedMoves DEF HasWriter
  <2>3. OneWriter' /\ Apart'
    BY <1>2, <1>6, <1>10, <2>1
  <2>4. AccessorExact'
    BY <1>4, <1>5, <1>10, <2>2, AccessFacts
  <2>5. QED
    BY <1>1, <1>3, <1>10, <2>3, <2>4 DEF AccessInv
<1>11. CASE pc[t] = "insert" /\ q = "write" /\ accessorCount = 0 /\ accessorCount' = MIN
  <2>1. ~HasWriter /\ nAnnounced = 0
    BY <1>11, AccessFacts
  <2>2. \A u \in Thread : pc[u] \notin Announced
    BY <1>4, <2>1, AnnouncedPositive
  <2>3. pc[t] \notin Announced /\ q \notin Announced /\ q \in Writing
    BY <1>11 DEF Announced, Writing
  <2>4. nAnnounced' = nAnnounced /\ HasWriter'
    BY <1>1, <1>2, <2>3, AnnouncedMoves DEF HasWriter
  <2>5. OneWriter' /\ Apart'
    BY <1>2, <1>11, <2>1, <2>2 DEF HasWriter, Announced
  <2>6. AccessorExact'
    BY <1>4, <1>5, <1>11, <2>1, <2>4
  <2>7. QED
    BY <1>3, <1>4, <1>11, <2>5, <2>6 DEF AccessInv
<1>12. CASE pc[t] = "write" /\ q = "release" /\ accessorCount' = accessorCount
  <2>1. pc[t] \notin Announced /\ q \notin Announced /\ pc[t] \in Writing /\ q \in Writing
    BY <1>12 DEF Announced, Writing
  <2>2. nAnnounced' = nAnnounced /\ HasWriter' /\ HasWriter
    BY <1>1, <1>2, <2>1, AnnouncedMoves DEF HasWriter
  <2>3. OneWriter' /\ Apart'
    BY <1>2, <1>6, <1>12, <2>1
  <2>4. AccessorExact'
    BY <1>4, <1>5, <1>12, <2>2, AccessFacts
  <2>5. QED
    BY <1>1, <1>3, <1>12, <2>3, <2>4 DEF AccessInv
<1>13. CASE pc[t] = "release" /\ q = "use" /\ accessorCount' = accessorCount - MIN
  <2>1. pc[t] \notin Announced /\ q \notin Announced /\ pc[t] \in Writing /\ q \notin Writing
    BY <1>13 DEF Announced, Writing
  <2>2. HasWriter /\ ~HasWriter'
    BY <1>2, <1>6, <2>1 DEF HasWriter
  <2>3. nAnnounced' = nAnnounced
    BY <1>1, <2>1, AnnouncedMoves
  <2>4. OneWriter' /\ Apart'
    BY <2>2 DEF HasWriter
  <2>5. AccessorExact'
    BY <1>4, <1>5, <1>13, <2>2, <2>3, AccessFacts
  <2>6. QED
    BY <1>1, <1>3, <1>4, <1>13, <2>4, <2>5 DEF AccessInv
<1>14. QED
  BY <1>7, <1>8, <1>9, <1>10, <1>11, <1>12, <1>13

LEMMA NextAccess == AccessInv /\ [CacheNext]_cacheVars => AccessInv'
<1> SUFFICES ASSUME AccessInv, [CacheNext]_cacheVars PROVE AccessInv'
  OBVIOUS
<1> USE DEF Goto
<1>s. Steps = {"idle", "findIncr", "findUndo", "findRead", "findDecr", "create",
               "insert", "write", "release", "use"}
  BY DEF Steps
<1>1. ASSUME NEW t \in Thread, AddTraceback(t) PROVE AccessInv'
  BY <1>1, <1>s, StepAccess DEF AddTraceback, Announced, Writing
<1>2. ASSUME NEW t \in Thread, FindIncr(t) PROVE AccessInv'
  <2>1. CASE accessorCount < 0
    BY <1>2, <1>s, <2>1, StepAccess DEF FindIncr, Announced, Writing
  <2>2. CASE ~(accessorCount < 0)
    <3>1. ~HasWriter
      BY <2>2, AccessFacts
    <3>2. QED
      BY <1>2, <1>s, <2>2, <3>1, StepAccess DEF FindIncr, Announced, Writing
  <2>3. QED
    BY <2>1, <2>2
<1>3. ASSUME NEW t \in Thread, FindUndo(t) PROVE AccessInv'
  BY <1>3, <1>s, StepAccess DEF FindUndo, Announced, Writing
<1>4. ASSUME NEW t \in Thread, FindRead(t) PROVE AccessInv'
  BY <1>4, <1>s, StepAccess DEF FindRead, Announced, Writing
<1>5. ASSUME NEW t \in Thread, FindDecr(t) PROVE AccessInv'
  <2>1. PICK q \in {"create", "use"} : pc' = [pc EXCEPT ![t] = q]
    BY <1>5 DEF FindDecr
  <2>2. QED
    BY <1>5, <1>s, <2>1, StepAccess DEF FindDecr, Announced, Writing
<1>6. ASSUME NEW t \in Thread, CreateCodeObject(t) PROVE AccessInv'
  <2>1. PICK q \in {"insert", "idle"} : pc' = [pc EXCEPT ![t] = q]
    BY <1>6 DEF CreateCodeObject
  <2>2. QED
    BY <1>6, <1>s, <2>1, StepAccess DEF CreateCodeObject, Announced, Writing
<1>7. ASSUME NEW t \in Thread, InsertTry(t) PROVE AccessInv'
  <2>1. CASE accessorCount = 0
    BY <1>7, <1>s, <2>1, StepAccess DEF InsertTry
  <2>2. CASE accessorCount # 0
    BY <1>7, <1>s, <2>2, StepAccess DEF InsertTry, Announced, Writing
  <2>3. QED
    BY <2>1, <2>2
<1>8. ASSUME NEW t \in Thread, InsertWrite(t) PROVE AccessInv'
  <2>1. pc[t] = "write" /\ pc' = [pc EXCEPT ![t] = "release"] /\ accessorCount' = accessorCount
    BY <1>8 DEF InsertWrite
  <2>2. QED
    BY <1>s, <2>1, StepAccess
<1>9. ASSUME NEW t \in Thread, InsertRelease(t) PROVE AccessInv'
  BY <1>9, <1>s, StepAccess DEF InsertRelease
<1>10. ASSUME NEW t \in Thread, UseCodeObject(t) PROVE AccessInv'
  BY <1>10, <1>s, StepAccess DEF UseCodeObject, Announced, Writing
<1>11. ASSUME pc' = pc, accessorCount' = accessorCount PROVE AccessInv'
  BY <1>11 DEF AccessInv, AccessorExact, Count, Where
<1>12. QED
  BY <1>1, <1>2, <1>3, <1>4, <1>5, <1>6, <1>7, <1>8, <1>9, <1>10, <1>11
     DEF CacheNext, Step, Find, Insert, Cleanup, cacheVars

(* The counter says how many readers are announced and whether a thread writes. *)
THEOREM AccessProtocol == CacheSpec => []AccessInv
BY InitAccess, NextAccess, PTL DEF CacheSpec

(* However many threads build tracebacks, none of them reads the table while    *)
(* another one shifts or reallocates it.                                        *)
THEOREM CacheNeverTorn == CacheSpec => []NoReadDuringWrite
<1>1. AccessInv => NoReadDuringWrite
  BY DEF AccessInv, NoReadDuringWrite, Writing
<1>2. QED
  BY <1>1, AccessProtocol, PTL

(* Type correctness, from both invariants.                                     *)
THEOREM TypeCorrect == CacheSpec => []CacheTypeOK
<1>1. AccessInv /\ CacheInv => CacheTypeOK
  BY DEF AccessInv, CacheInv, CacheType, IsTable, CacheTypeOK
<1>2. QED
  BY <1>1, AccessProtocol, CacheInvariant, PTL

-----------------------------------------------------------------------------
HIDE MinAssumption
HIDE FiniteThreads
USE FinitePlaces, CreatorAssumption

(* How many slices are counted, and how many owe or are owed a reference.      *)
nCounted   == Count(slice, Slice, Counted)
nAcquiring == Count(slice, Slice, {"acquiring"})
nReleasing == Count(slice, Slice, {"releasing"})
nHeld      == Count(ref, Holder, {"held"})

LEMMA CountsAreNaturals ==
    nCounted \in Nat /\ nAcquiring \in Nat /\ nReleasing \in Nat /\ nHeld \in Nat
BY CountType DEF nCounted, nAcquiring, nReleasing, nHeld

(* The counts when slice s goes from one state to another.                     *)
LEMMA SliceMoves ==
    ASSUME slice \in [Slice -> SliceStates], NEW s \in Slice, NEW q \in SliceStates,
           slice' = [slice EXCEPT ![s] = q]
    PROVE  /\ slice[s] = "null" /\ q = "acquiring" =>
                  /\ nCounted' = nCounted + 1 /\ nReleasing' = nReleasing
                  /\ nAcquiring' = nAcquiring + 1
           /\ slice[s] = "null" /\ q = "live" =>
                  /\ nCounted' = nCounted + 1 /\ nReleasing' = nReleasing
                  /\ nAcquiring' = nAcquiring
           /\ slice[s] = "acquiring" /\ q = "live" =>
                  /\ nCounted' = nCounted /\ nReleasing' = nReleasing
                  /\ nAcquiring' = nAcquiring - 1
           /\ slice[s] = "live" /\ q = "releasing" =>
                  /\ nCounted' = nCounted - 1 /\ nReleasing' = nReleasing + 1
                  /\ nAcquiring' = nAcquiring
           /\ slice[s] = "live" /\ q = "null" =>
                  /\ nCounted' = nCounted - 1 /\ nReleasing' = nReleasing
                  /\ nAcquiring' = nAcquiring
           /\ slice[s] = "releasing" /\ q = "null" =>
                  /\ nCounted' = nCounted /\ nReleasing' = nReleasing - 1
                  /\ nAcquiring' = nAcquiring
<1> DEFINE moved == [slice EXCEPT ![s] = q]
<1>1. \A S : Count(moved, Slice, S) = Count(slice, Slice, S) + (IF q \in S THEN 1 ELSE 0)
                                                  - (IF slice[s] \in S THEN 1 ELSE 0)
  BY CountExcept, FinitePlaces, Zenon
<1> HIDE DEF moved
<1>2. slice' = moved
  BY DEF moved
<1>3. /\ nCounted' = Count(moved, Slice, Counted)
      /\ nAcquiring' = Count(moved, Slice, {"acquiring"})
      /\ nReleasing' = Count(moved, Slice, {"releasing"})
  BY <1>2, Zenon DEF nCounted, nAcquiring, nReleasing, Counted
<1>4. /\ nCounted' = nCounted + (IF q \in Counted THEN 1 ELSE 0)
                             - (IF slice[s] \in Counted THEN 1 ELSE 0)
      /\ nAcquiring' = nAcquiring + (IF q \in {"acquiring"} THEN 1 ELSE 0)
                                 - (IF slice[s] \in {"acquiring"} THEN 1 ELSE 0)
      /\ nReleasing' = nReleasing + (IF q \in {"releasing"} THEN 1 ELSE 0)
                                 - (IF slice[s] \in {"releasing"} THEN 1 ELSE 0)
  BY <1>1, <1>3, Zenon DEF nCounted, nAcquiring, nReleasing
<1>5. QED
  BY <1>4, CountsAreNaturals DEF Counted

LEMMA RefMoves ==
    ASSUME ref \in [Holder -> {"none", "held"}], NEW h \in Holder, NEW q \in {"none", "held"},
           q # ref[h], ref' = [ref EXCEPT ![h] = q]
    PROVE  nHeld' = nHeld + (IF q = "held" THEN 1 ELSE -1)
<1>1. ref'[h] = q /\ \A k \in Holder \ {h} : ref'[k] = ref[k]
  OBVIOUS
<1>2. nHeld' = nHeld + (IF ref'[h] \in {"held"} THEN 1 ELSE 0)
                     - (IF ref[h] \in {"held"} THEN 1 ELSE 0)
  BY <1>1, CountMove, Zenon DEF nHeld
<1>3. QED
  BY <1>1, <1>2, CountsAreNaturals

LEMMA InitAcquisition == Init => AcquisitionInv
<1> SUFFICES ASSUME Init PROVE AcquisitionInv
  OBVIOUS
<1>1. nCounted = 0 /\ nAcquiring = 0 /\ nReleasing = 0
  <2>1. ~(nCounted > 0) /\ ~(nAcquiring > 0) /\ ~(nReleasing > 0)
    BY CountPositive DEF Init, nCounted, nAcquiring, nReleasing, Counted
  <2>2. QED
    BY <2>1, CountsAreNaturals
<1>2. nHeld = 1
  <2>1. Where(ref, Holder, {"held"}) = {creator}
    BY DEF Init, Where
  <2>2. QED
    BY <2>1, FS_Singleton DEF nHeld, Count
<1>3. RefcountExact /\ CountExact
  BY <1>1, <1>2 DEF Init, RefcountExact, CountExact, nCounted, nAcquiring, nReleasing, nHeld
<1>4. QED
  BY <1>3 DEF Init, AcquisitionInv, TypeOK, NoFatalError, SliceStates, ObjectAlive, KeepersHeld,
              OneAcquiring, FreshUnknown

(* The invariant restated with the abbreviations above.                        *)
LEMMA InvFacts ==
    ASSUME AcquisitionInv
    PROVE  /\ acquisitionCount = nCounted
           /\ refcount = nHeld + (IF acquisitionCount > 0 THEN 1 ELSE 0) + nReleasing - nAcquiring
           /\ nAcquiring \in {0, 1}
           /\ nAcquiring = 1 => nHeld > 0
           /\ nAcquiring > 0 <=> \E s \in Slice : slice[s] = "acquiring"
           /\ nReleasing > 0 <=> \E s \in Slice : slice[s] = "releasing"
           /\ nCounted > 0 <=> \E s \in Slice : slice[s] \in Counted
           /\ nHeld > 0 <=> \E h \in Holder : ref[h] = "held"
           /\ nCounted >= nAcquiring
<1> USE CountsAreNaturals
<1>1. /\ nAcquiring > 0 <=> \E s \in Slice : slice[s] = "acquiring"
      /\ nReleasing > 0 <=> \E s \in Slice : slice[s] = "releasing"
      /\ nCounted > 0 <=> \E s \in Slice : slice[s] \in Counted
      /\ nHeld > 0 <=> \E h \in Holder : ref[h] = "held"
  BY CountPositive DEF nAcquiring, nReleasing, nCounted, nHeld
<1>2. nAcquiring \in {0, 1}
  <2>1. CASE \E s \in Slice : slice[s] = "acquiring"
    <3>1. PICK s \in Slice : slice[s] = "acquiring"
      BY <2>1
    <3>2. Where(slice, Slice, {"acquiring"}) = {s}
      BY <3>1 DEF AcquisitionInv, OneAcquiring, Where
    <3>3. QED
      BY <3>2, FS_Singleton DEF nAcquiring, Count
  <2>2. QED
    BY <2>1, <1>1
<1>3. nAcquiring = 1 => nHeld > 0
  BY <1>1 DEF AcquisitionInv, KeepersHeld
<1>4. nCounted >= nAcquiring
  BY <1>1, <1>2 DEF Counted
<1>5. QED
  BY <1>1, <1>2, <1>3, <1>4 DEF AcquisitionInv, RefcountExact, CountExact, nCounted, nAcquiring, nReleasing, nHeld

LEMMA NextAcquisition == AcquisitionInv /\ [Next]_vars => AcquisitionInv'
<1> SUFFICES ASSUME AcquisitionInv, [Next]_vars PROVE AcquisitionInv'
  OBVIOUS
<1> USE CountsAreNaturals
<1>1. TypeOK
  BY DEF AcquisitionInv
<1>t. slice \in [Slice -> SliceStates] /\ acquisitionCount \in Int
  BY <1>1 DEF TypeOK
<1>m. "live" \in SliceStates /\ "acquiring" \in SliceStates /\ "null" \in SliceStates /\ "releasing" \in SliceStates
  BY DEF SliceStates
<1>2. ASSUME acquisitionCount' = nCounted',
             refcount' = nHeld' + (IF acquisitionCount' > 0 THEN 1 ELSE 0) + nReleasing' - nAcquiring'
      PROVE  RefcountExact' /\ CountExact'
  BY <1>2 DEF RefcountExact, CountExact, nCounted, nAcquiring, nReleasing, nHeld
<1>3. ASSUME NEW h \in Holder, DropRef(h) PROVE AcquisitionInv'
  <2>1. nHeld' = nHeld - 1 /\ ref'[h] = "none" /\ \A k \in Holder \ {h} : ref'[k] = ref[k]
    BY <1>1, <1>3, RefMoves DEF DropRef, TypeOK
  <2>2. nCounted' = nCounted /\ nAcquiring' = nAcquiring /\ nReleasing' = nReleasing
    BY <1>3 DEF DropRef, nCounted, nAcquiring, nReleasing
  <2>3. TypeOK'
    BY <1>1, <1>3 DEF DropRef, Decref, Shared, TypeOK
  <2>4. RefcountExact' /\ CountExact'
    BY <1>1, <1>2, <1>3, <2>1, <2>2, InvFacts DEF DropRef, Decref, TypeOK
  <2>5. ObjectAlive' /\ object' # "fresh"
    BY <1>1, <1>3 DEF DropRef, Decref, Shared, TypeOK, AcquisitionInv, ObjectAlive
  <2>6. KeepersHeld'
    <3>1. \A s \in Slice : borrowed[s] # h
      BY <1>3 DEF DropRef
    <3>2. slice' = slice /\ borrowed' = borrowed
      BY <1>3 DEF DropRef
    <3>3. QED
      BY <1>1, <2>1, <3>1, <3>2 DEF AcquisitionInv, KeepersHeld
  <2>7. NoFatalError' /\ OneAcquiring'
    BY <1>3 DEF DropRef, AcquisitionInv, NoFatalError, OneAcquiring
  <2>8. QED
    BY <2>3, <2>4, <2>5, <2>6, <2>7 DEF AcquisitionInv, FreshUnknown
<1>4. ASSUME NEW h \in Holder, NEW k \in Holder, ShareRef(h, k) PROVE AcquisitionInv'
  <2>1. nHeld' = nHeld + 1 /\ ref'[k] = "held" /\ \A j \in Holder \ {k} : ref'[j] = ref[j]
    BY <1>1, <1>4, RefMoves DEF ShareRef, TypeOK
  <2>2. nCounted' = nCounted /\ nAcquiring' = nAcquiring /\ nReleasing' = nReleasing
    BY <1>4 DEF ShareRef, nCounted, nAcquiring, nReleasing
  <2>3. TypeOK'
    BY <1>1, <1>4 DEF ShareRef, Incref, Shared, TypeOK
  <2>4. RefcountExact' /\ CountExact'
    BY <1>1, <1>2, <1>4, <2>1, <2>2, InvFacts DEF ShareRef, Incref, TypeOK
  <2>5. ObjectAlive' /\ object' # "fresh"
    <3>1. nHeld > 0
      BY <1>4, InvFacts DEF ShareRef
    <3>2. refcount > 0
      BY <3>1, InvFacts
    <3>3. QED
      BY <1>1, <1>4, <3>2 DEF ShareRef, Incref, Shared, TypeOK, AcquisitionInv, ObjectAlive
  <2>6. KeepersHeld'
    <3>1. slice' = slice /\ borrowed' = borrowed
      BY <1>4 DEF ShareRef
    <3>2. QED
      BY <2>1, <3>1 DEF AcquisitionInv, KeepersHeld
  <2>7. NoFatalError' /\ OneAcquiring'
    BY <1>4 DEF ShareRef, AcquisitionInv, NoFatalError, OneAcquiring
  <2>8. QED
    BY <2>3, <2>4, <2>5, <2>6, <2>7 DEF AcquisitionInv, FreshUnknown
<1>5. ASSUME NEW s \in Slice, NEW h \in Holder, AcquireFromObject(s, h) PROVE AcquisitionInv'
  <2> USE <1>5 DEF AcquireFromObject
  <2>0. acquisitionCount >= 0 /\ (acquisitionCount = 0 => \A u \in Slice : slice[u] \notin Counted)
    BY InvFacts
  <2>1. /\ nHeld' = nHeld /\ ref' = ref /\ object' = Shared /\ refcount' = refcount
        /\ acquisitionCount' = acquisitionCount + 1
    BY DEF nHeld, AddAcquisition
  <2>2. nHeld > 0
    BY InvFacts
  <2>3. refcount > 0
    BY <2>0, <2>2, InvFacts
  <2>4. ObjectAlive' /\ object' # "fresh"
    BY <1>1, <2>1, <2>3 DEF Shared, AcquisitionInv, ObjectAlive, TypeOK
  <2>5. CASE acquisitionCount = 0
    <3>1. /\ slice' = [slice EXCEPT ![s] = "acquiring"] /\ slice[s] = "null"
          /\ borrowed' = [borrowed EXCEPT ![s] = h]
      BY <2>5 DEF AddAcquisition
    <3>2. nCounted' = nCounted + 1 /\ nReleasing' = nReleasing /\ nAcquiring' = nAcquiring + 1
      BY <1>t, <1>m, <3>1, SliceMoves, Zenon
    <3>3. TypeOK'
      BY <1>1, <2>1, <2>4, <3>1 DEF TypeOK, SliceStates, Shared
    <3>4. RefcountExact' /\ CountExact'
      BY <1>2, <2>1, <2>5, <3>2, InvFacts
    <3>5. \A u \in Slice \ {s} : slice'[u] = slice[u] /\ slice[u] # "acquiring" /\ borrowed'[u] = borrowed[u]
      BY <1>1, <2>0, <2>5, <3>1 DEF TypeOK, Counted
    <3>6. slice'[s] = "acquiring" /\ borrowed'[s] = h
      BY <1>1, <3>1 DEF TypeOK
    <3>7. KeepersHeld' /\ OneAcquiring' /\ NoFatalError'
      BY <2>1, <3>5, <3>6 DEF AcquisitionInv, KeepersHeld, OneAcquiring, NoFatalError
    <3>8. QED
      BY <2>4, <3>3, <3>4, <3>7 DEF AcquisitionInv, FreshUnknown
  <2>6. CASE acquisitionCount > 0
    <3>1. /\ slice' = [slice EXCEPT ![s] = "live"] /\ slice[s] = "null"
          /\ borrowed' = [borrowed EXCEPT ![s] = NULL]
      <4>1. (IF acquisitionCount = 0 THEN h ELSE NULL) = NULL /\ slice[s] = "null"
        BY <1>t, <2>6
      <4>2. (IF acquisitionCount = 0 THEN "acquiring"
             ELSE IF acquisitionCount > 0 THEN "live" ELSE "fatal") = "live"
        BY <1>t, <2>6
      <4>3. QED
        BY <4>1, <4>2, Zenon DEF AddAcquisition
    <3>2. nCounted' = nCounted + 1 /\ nReleasing' = nReleasing /\ nAcquiring' = nAcquiring
      BY <1>t, <1>m, <3>1, SliceMoves, Zenon
    <3>3. TypeOK'
      BY <1>1, <2>1, <2>4, <3>1 DEF TypeOK, SliceStates, Shared
    <3>4. RefcountExact' /\ CountExact'
      BY <1>2, <2>1, <2>6, <3>2, InvFacts
    <3>5. /\ slice'[s] = "live" /\ borrowed'[s] = NULL
          /\ \A u \in Slice \ {s} : slice'[u] = slice[u] /\ borrowed'[u] = borrowed[u]
      BY <1>1, <3>1 DEF TypeOK
    <3>6. KeepersHeld' /\ OneAcquiring' /\ NoFatalError'
      BY <2>1, <3>5 DEF AcquisitionInv, KeepersHeld, OneAcquiring, NoFatalError
    <3>7. QED
      BY <2>4, <3>3, <3>4, <3>6 DEF AcquisitionInv, FreshUnknown
  <2>7. QED
    BY <1>1, <2>0, <2>5, <2>6 DEF TypeOK
<1>6. ASSUME NEW s \in Slice, AcquireNewReference(s) PROVE AcquisitionInv'
  <2> USE <1>6 DEF AcquireNewReference
  <2>0. /\ \A u \in Slice : slice[u] = "null"
        /\ \A h \in Holder : ref[h] = "held" <=> h = creator
    BY DEF AcquisitionInv, FreshUnknown
  <2>1. nCounted = 0 /\ nAcquiring = 0 /\ nReleasing = 0
    BY <2>0, InvFacts DEF Counted
  <2>2. ref[creator] = "held" /\ ref' = [ref EXCEPT ![creator] = "none"]
    BY <2>0
  <2>3. nHeld' = nHeld - 1
    BY <1>1, <2>2, RefMoves DEF TypeOK
  <2>4. slice[s] = "null" /\ slice' = [slice EXCEPT ![s] = "live"] /\ borrowed' = borrowed
    BY DEF Shared
  <2>5. nCounted' = nCounted + 1 /\ nAcquiring' = nAcquiring /\ nReleasing' = nReleasing
    BY <1>t, <1>m, <2>4, SliceMoves, Zenon
  <2>6. object' = "shared" /\ refcount' = refcount /\ acquisitionCount' = acquisitionCount + 1
    BY DEF Shared
  <2>7. TypeOK'
    BY <1>1, <2>2, <2>4, <2>6 DEF TypeOK, SliceStates
  <2>8. RefcountExact' /\ CountExact'
    BY <1>2, <2>1, <2>3, <2>5, <2>6, InvFacts
  <2>9. ObjectAlive'
    BY <2>6 DEF AcquisitionInv, ObjectAlive
  <2>10. slice'[s] = "live" /\ \A u \in Slice \ {s} : slice'[u] = "null"
    BY <1>1, <2>0, <2>4 DEF TypeOK
  <2>11. KeepersHeld' /\ OneAcquiring' /\ NoFatalError'
    BY <2>0, <2>4, <2>10 DEF AcquisitionInv, KeepersHeld, OneAcquiring, NoFatalError
  <2>12. QED
    BY <2>6, <2>7, <2>8, <2>9, <2>11 DEF AcquisitionInv, FreshUnknown
<1>7. ASSUME NEW s \in Slice, NEW u \in Slice, CopySlice(s, u) PROVE AcquisitionInv'
  <2> USE <1>7 DEF CopySlice
  <2>0. acquisitionCount > 0
    BY InvFacts DEF Counted
  <2>1. /\ slice' = [slice EXCEPT ![s] = "live"] /\ slice[s] = "null" /\ slice[u] = "live"
        /\ borrowed' = [borrowed EXCEPT ![s] = NULL]
    <3>1. (IF acquisitionCount = 0 THEN NULL ELSE NULL) = NULL
      OBVIOUS
    <3>2. (IF acquisitionCount = 0 THEN "acquiring"
           ELSE IF acquisitionCount > 0 THEN "live" ELSE "fatal") = "live"
      BY <1>t, <2>0
    <3>3. QED
      BY <3>1, <3>2, Zenon DEF AddAcquisition
  <2>2. nCounted' = nCounted + 1 /\ nReleasing' = nReleasing /\ nAcquiring' = nAcquiring
    BY <1>t, <1>m, <2>1, SliceMoves, Zenon
  <2>3. /\ nHeld' = nHeld /\ ref' = ref /\ object' = object /\ refcount' = refcount
        /\ acquisitionCount' = acquisitionCount + 1
    BY DEF nHeld, AddAcquisition
  <2>4. TypeOK'
    BY <1>1, <2>1, <2>3 DEF TypeOK, SliceStates
  <2>5. RefcountExact' /\ CountExact'
    BY <1>2, <2>0, <2>2, <2>3, InvFacts
  <2>6. /\ slice'[s] = "live" /\ borrowed'[s] = NULL
        /\ \A v \in Slice \ {s} : slice'[v] = slice[v] /\ borrowed'[v] = borrowed[v]
    BY <1>1, <2>1 DEF TypeOK
  <2>7. KeepersHeld' /\ OneAcquiring' /\ NoFatalError'
    BY <2>3, <2>6 DEF AcquisitionInv, KeepersHeld, OneAcquiring, NoFatalError
  <2>8. ObjectAlive' /\ FreshUnknown'
    BY <2>1, <2>3 DEF AcquisitionInv, ObjectAlive, FreshUnknown
  <2>9. QED
    BY <2>4, <2>5, <2>7, <2>8 DEF AcquisitionInv
<1>8. ASSUME NEW s \in Slice, FinishAcquire(s) PROVE AcquisitionInv'
  <2> USE <1>8 DEF FinishAcquire
  <2>1. /\ nCounted' = nCounted /\ nReleasing' = nReleasing /\ nAcquiring' = nAcquiring - 1
    BY <1>t, <1>m, SliceMoves, Zenon
  <2>2. /\ nHeld' = nHeld /\ ref' = ref /\ object' = Shared /\ refcount' = refcount + 1
        /\ acquisitionCount' = acquisitionCount
    BY DEF nHeld, Incref
  <2>3. TypeOK'
    BY <1>1, <2>2 DEF Shared, TypeOK, SliceStates
  <2>4. RefcountExact' /\ CountExact'
    BY <1>2, <2>1, <2>2, InvFacts
  <2>5. nAcquiring = 1 /\ nHeld > 0 /\ acquisitionCount > 0
    BY InvFacts
  <2>6. refcount > 0
    BY <2>5, InvFacts
  <2>7. ObjectAlive' /\ object' # "fresh"
    BY <1>1, <2>2, <2>6 DEF Shared, AcquisitionInv, ObjectAlive, TypeOK
  <2>8. /\ slice'[s] = "live" /\ borrowed'[s] = NULL
        /\ \A v \in Slice \ {s} : slice'[v] = slice[v] /\ borrowed'[v] = borrowed[v]
    BY <1>1 DEF TypeOK
  <2>9. KeepersHeld' /\ OneAcquiring' /\ NoFatalError'
    BY <2>2, <2>8 DEF AcquisitionInv, KeepersHeld, OneAcquiring, NoFatalError
  <2>10. QED
    BY <2>3, <2>4, <2>7, <2>9 DEF AcquisitionInv, FreshUnknown
<1>9. ASSUME NEW s \in Slice, SubAcquisition(s) PROVE AcquisitionInv'
  <2> USE <1>9 DEF SubAcquisition
  <2>0. acquisitionCount >= 1
    BY InvFacts DEF Counted
  <2>1. /\ nHeld' = nHeld /\ ref' = ref /\ object' = object /\ refcount' = refcount
        /\ borrowed' = borrowed /\ acquisitionCount' = acquisitionCount - 1
    BY DEF nHeld
  <2>2. ObjectAlive' /\ FreshUnknown'
    BY <2>1 DEF AcquisitionInv, ObjectAlive, FreshUnknown
  <2>3. ASSUME NEW q \in {"null", "releasing"}, slice' = [slice EXCEPT ![s] = q]
        PROVE  TypeOK' /\ KeepersHeld' /\ OneAcquiring' /\ NoFatalError'
    <3>1. TypeOK'
      BY <1>1, <2>1, <2>3 DEF TypeOK, SliceStates
    <3>2. slice'[s] = q /\ slice[s] = "live" /\ \A v \in Slice \ {s} : slice'[v] = slice[v]
      BY <1>1, <2>3 DEF TypeOK
    <3>3. KeepersHeld' /\ OneAcquiring' /\ NoFatalError'
      BY <2>1, <3>2 DEF AcquisitionInv, KeepersHeld, OneAcquiring, NoFatalError
    <3>4. QED
      BY <3>1, <3>3
  <2>4. CASE acquisitionCount = 1
    <3>1. slice' = [slice EXCEPT ![s] = "releasing"] /\ slice[s] = "live"
      BY <2>4
    <3>2. nCounted' = nCounted - 1 /\ nReleasing' = nReleasing + 1 /\ nAcquiring' = nAcquiring
      BY <1>t, <1>m, <3>1, SliceMoves, Zenon
    <3>3. RefcountExact' /\ CountExact'
      BY <1>2, <2>1, <2>4, <3>2, InvFacts
    <3>4. QED
      BY <2>2, <2>3, <3>1, <3>3 DEF AcquisitionInv
  <2>5. CASE acquisitionCount > 1
    <3>1. slice' = [slice EXCEPT ![s] = "null"] /\ slice[s] = "live"
      BY <2>5
    <3>2. nCounted' = nCounted - 1 /\ nReleasing' = nReleasing /\ nAcquiring' = nAcquiring
      BY <1>t, <1>m, <3>1, SliceMoves, Zenon
    <3>3. RefcountExact' /\ CountExact'
      BY <1>2, <2>1, <2>5, <3>2, InvFacts
    <3>4. QED
      BY <2>2, <2>3, <3>1, <3>3 DEF AcquisitionInv
  <2>6. QED
    BY <1>1, <2>0, <2>4, <2>5 DEF TypeOK
<1>10. ASSUME NEW s \in Slice, FinishRelease(s) PROVE AcquisitionInv'
  <2> USE <1>10 DEF FinishRelease
  <2>1. /\ nCounted' = nCounted /\ nReleasing' = nReleasing - 1 /\ nAcquiring' = nAcquiring
    BY <1>t, <1>m, SliceMoves, Zenon
  <2>2. /\ nHeld' = nHeld /\ ref' = ref /\ refcount' = refcount - 1
        /\ borrowed' = borrowed /\ acquisitionCount' = acquisitionCount
    BY DEF nHeld, Decref
  <2>3. TypeOK'
    BY <1>1, <2>2 DEF Decref, Shared, TypeOK, SliceStates
  <2>4. RefcountExact' /\ CountExact'
    BY <1>2, <2>1, <2>2, InvFacts
  <2>5. ObjectAlive' /\ object' # "fresh"
    BY <1>1, <2>2 DEF Decref, Shared, AcquisitionInv, ObjectAlive, TypeOK
  <2>6. /\ slice[s] = "releasing" /\ slice'[s] = "null"
        /\ \A v \in Slice \ {s} : slice'[v] = slice[v]
    BY <1>1 DEF TypeOK
  <2>7. KeepersHeld' /\ OneAcquiring' /\ NoFatalError'
    BY <2>2, <2>6 DEF AcquisitionInv, KeepersHeld, OneAcquiring, NoFatalError
  <2>8. QED
    BY <2>3, <2>4, <2>5, <2>7 DEF AcquisitionInv, FreshUnknown
<1>11. ASSUME UNCHANGED vars PROVE AcquisitionInv'
  BY <1>11 DEF vars, AcquisitionInv, TypeOK, RefcountExact, CountExact, ObjectAlive, KeepersHeld,
               OneAcquiring, FreshUnknown, NoFatalError, Count, Where
<1>12. QED
  BY <1>3, <1>4, <1>5, <1>6, <1>7, <1>8, <1>9, <1>10, <1>11 DEF Next, Done

(* The counts of slices and references stay in step, whatever the interleaving  *)
(* of INC_MEMVIEW and XCLEAR_MEMVIEW in any number of threads.                  *)
THEOREM AcquisitionInvariant == Spec => []AcquisitionInv
BY InitAcquisition, NextAcquisition, PTL DEF Spec

(* Acquiring or clearing a slice never ends in Py_FatalError.                   *)
THEOREM CountNeverFatal == Spec => []NoFatalError
<1>1. AcquisitionInv => NoFatalError
  BY DEF AcquisitionInv
<1>2. QED
  BY <1>1, AcquisitionInvariant, PTL

(* A slice in use always points into a memoryview object that is alive.         *)
THEOREM SliceKeepsObjectAlive == Spec => []SlicesHaveObject
<1>1. AcquisitionInv => SlicesHaveObject
  <2> SUFFICES ASSUME AcquisitionInv, NEW s \in Slice, slice[s] # "null" PROVE object # "deallocated"
    BY DEF SlicesHaveObject
  <2>1. nCounted > 0 \/ nReleasing > 0
    BY InvFacts DEF AcquisitionInv, TypeOK, SliceStates, Counted, NoFatalError
  <2>2. refcount > 0
    BY <2>1, InvFacts, CountsAreNaturals
  <2>3. QED
    BY <2>2 DEF AcquisitionInv, ObjectAlive
<1>2. QED
  BY <1>1, AcquisitionInvariant, PTL

(* Nothing keeps the object alive once every slice and reference is gone.       *)
THEOREM ObjectNotLeaked == Spec => []NoLeak
<1>1. AcquisitionInv => NoLeak
  <2> SUFFICES ASSUME AcquisitionInv, \A s \in Slice : slice[s] = "null",
                      \A h \in Holder : ref[h] = "none"
               PROVE  object = "deallocated"
    BY DEF NoLeak
  <2>1. nCounted = 0 /\ nReleasing = 0 /\ nAcquiring = 0 /\ nHeld = 0
    BY InvFacts, CountsAreNaturals DEF Counted
  <2>2. QED
    BY <2>1, InvFacts DEF AcquisitionInv, ObjectAlive
<1>2. QED
  BY <1>1, AcquisitionInvariant, PTL

-----------------------------------------------------------------------------
(***************************************************************************)
(* The lock pool.  The array is always a permutation of the preallocated   *)
(* locks, and its used part holds exactly the pool locks of the objects     *)
(* alive.  That nobody shares a lock follows only with the latter:          *)
(* __cinit__ hands out the first lock that is not used.                     *)
(***************************************************************************)
PoolType ==
    /\ pool \in [0..N-1 -> PoolLock] /\ \A i, j \in 0..N-1 : i # j => pool[i] # pool[j]
    /\ used \in 0..N
    /\ exists \subseteq View
    /\ lock \in [View -> PoolLock \cup OwnLock \cup {NoLock}]
    /\ \A v \in View \ exists : lock[v] = NoLock
    /\ allocated \subseteq OwnLock

PoolInv == PoolType /\ LocksNotShared /\ PoolExact

(* The pool as the module makes it, with no object.                            *)
LEMMA PoolInitInv == PoolInit => PoolInv
  BY PoolAssumption DEF PoolInit, PoolInv, PoolType, LocksNotShared, PoolExact

(* __cinit__ takes the next lock of the pool.                                  *)
LEMMA FromPoolInv == ASSUME PoolInv, NEW v \in View, CinitFromPool(v) PROVE PoolInv'
<1>1. /\ used \in 0..N /\ used < N /\ N \in Nat /\ v \notin exists /\ used \in 0..N-1
      /\ pool[used] \in PoolLock /\ lock[v] = NoLock
  BY PoolAssumption DEF CinitFromPool, PoolInv, PoolType
<1>2. /\ exists' = exists \cup {v} /\ used' = used + 1 /\ pool' = pool /\ allocated' = allocated
      /\ lock' = [lock EXCEPT ![v] = pool[used]]
  BY DEF CinitFromPool
<1>3. lock' \in [View -> PoolLock \cup OwnLock \cup {NoLock}] /\ lock'[v] = pool[used]
      /\ \A w \in View \ {v} : lock'[w] = lock[w]
  BY <1>1, <1>2 DEF PoolInv, PoolType
<1>4. PoolType'
  BY <1>1, <1>2, <1>3 DEF PoolInv, PoolType
<1>5. \A i \in 0..used-1 : i \in 0..N-1 /\ pool[i] # pool[used]
  BY <1>1 DEF PoolInv, PoolType
<1>6. \A w \in exists : w # v /\ w \in View /\ lock[w] # pool[used] /\ lock'[w] = lock[w]
  BY <1>1, <1>3, <1>5 DEF PoolInv, PoolType, PoolExact
<1>7. LocksNotShared'
  BY <1>2, <1>3, <1>6 DEF PoolInv, LocksNotShared
<1>8. \A i \in 0..used'-1 : \E w \in exists' : lock'[w] = pool'[i]
  <2>1. \A i \in 0..used'-1 : i = used \/ i \in 0..used-1
    BY <1>1, <1>2
  <2>2. \A i \in 0..used-1 : \E w \in exists : lock[w] = pool[i]
    BY DEF PoolInv, PoolExact
  <2>3. QED
    BY <1>2, <1>3, <1>6, <2>1, <2>2
<1>9. \A w \in exists' : lock'[w] \in PoolLock => \E i \in 0..used'-1 : lock'[w] = pool'[i]
  <2>1. used \in 0..used'-1 /\ \A i \in 0..used-1 : i \in 0..used'-1
    BY <1>1, <1>2
  <2>2. \A w \in exists : lock[w] \in PoolLock => \E i \in 0..used-1 : lock[w] = pool[i]
    BY DEF PoolInv, PoolExact
  <2>3. QED
    BY <1>2, <1>3, <1>6, <2>1, <2>2
<1>10. \A w \in exists' : lock'[w] \in OwnLock => lock'[w] \in allocated'
  BY <1>1, <1>2, <1>3, <1>6, PoolAssumption DEF PoolInv, PoolExact
<1>11. \A l \in allocated' : \E w \in exists' : lock'[w] = l
  BY <1>2, <1>6 DEF PoolInv, PoolExact
<1>12. QED
  BY <1>4, <1>7, <1>8, <1>9, <1>10, <1>11 DEF PoolInv, PoolExact

(* __cinit__ finds the pool empty and allocates, or fails to.                  *)
LEMMA AllocateInv == ASSUME PoolInv, NEW v \in View, CinitAllocate(v) PROVE PoolInv'
<1>1. v \notin exists /\ lock[v] = NoLock /\ exists' = exists \cup {v} /\ pool' = pool /\ used' = used
  BY DEF CinitAllocate, PoolInv, PoolType
<1>2. \A w \in exists : w # v /\ w \in View
  BY <1>1 DEF PoolInv, PoolType
<1>3. CASE lock' = lock /\ allocated' = allocated
  <2>1. PoolType'
    BY <1>1, <1>3 DEF PoolInv, PoolType
  <2>2. LocksNotShared'
    BY <1>1, <1>2, <1>3 DEF PoolInv, LocksNotShared
  <2>3. PoolExact'
    BY <1>1, <1>2, <1>3, PoolAssumption DEF PoolInv, PoolExact
  <2>4. QED
    BY <2>1, <2>2, <2>3 DEF PoolInv
<1>4. ASSUME NEW l \in OwnLock \ allocated, lock' = [lock EXCEPT ![v] = l], allocated' = allocated \cup {l}
      PROVE  PoolInv'
  <2>1. lock' \in [View -> PoolLock \cup OwnLock \cup {NoLock}] /\ lock'[v] = l
        /\ \A w \in View \ {v} : lock'[w] = lock[w]
    BY <1>4 DEF PoolInv, PoolType
  <2>2. PoolType'
    BY <1>1, <1>4, <2>1 DEF PoolInv, PoolType
  <2>3. \A w \in exists : lock'[w] = lock[w] /\ lock[w] # l
    BY <1>2, <1>4, <2>1 DEF PoolInv, PoolExact
  <2>4. LocksNotShared'
    BY <1>1, <2>1, <2>3 DEF PoolInv, LocksNotShared
  <2>5. l \notin PoolLock
    BY PoolAssumption
  <2>6. PoolExact'
    <3>1. \A i \in 0..used'-1 : \E w \in exists' : lock'[w] = pool'[i]
      BY <1>1, <2>3 DEF PoolInv, PoolExact
    <3>2. \A w \in exists' : lock'[w] \in PoolLock => \E i \in 0..used'-1 : lock'[w] = pool'[i]
      BY <1>1, <2>1, <2>3, <2>5 DEF PoolInv, PoolExact
    <3>3. \A w \in exists' : lock'[w] \in OwnLock => lock'[w] \in allocated'
      BY <1>1, <1>4, <2>1, <2>3 DEF PoolInv, PoolExact
    <3>4. \A m \in allocated' : \E w \in exists' : lock'[w] = m
      BY <1>1, <1>4, <2>1, <2>3 DEF PoolInv, PoolExact
    <3>5. QED
      BY <3>1, <3>2, <3>3, <3>4 DEF PoolExact
  <2>7. QED
    BY <2>2, <2>4, <2>6 DEF PoolInv
<1>5. QED
  BY <1>3, <1>4 DEF CinitAllocate

(* __dealloc__ swaps the lock behind the used ones, frees it, or had none.     *)
LEMMA DeallocInv == ASSUME PoolInv, NEW v \in View, Dealloc(v) PROVE PoolInv'
<1>1. v \in exists /\ exists' = exists \ {v} /\ lock' = [lock EXCEPT ![v] = NoLock]
  BY DEF Dealloc
<1>2. lock' \in [View -> PoolLock \cup OwnLock \cup {NoLock}] /\ lock'[v] = NoLock
      /\ \A w \in View \ {v} : lock'[w] = lock[w]
  BY <1>1 DEF PoolInv, PoolType
<1>3. \A w \in exists' : w \in exists /\ w # v /\ w \in View /\ lock'[w] = lock[w]
  BY <1>1, <1>2 DEF PoolInv, PoolType
<1>4. LocksNotShared'
  BY <1>3 DEF PoolInv, LocksNotShared
<1>5. \A w \in exists' : lock[v] # NoLock => lock[w] # lock[v]
  BY <1>1, <1>3 DEF PoolInv, LocksNotShared
<1>6. exists' \subseteq View /\ \A w \in View \ exists' : lock'[w] = NoLock
  BY <1>1, <1>2 DEF PoolInv, PoolType
<1>7. ASSUME NEW i \in 0..used-1, ReturnToPool(v, i), allocated' = allocated PROVE PoolInv'
  <2>1. /\ used \in 1..N /\ N \in Nat /\ i \in 0..N-1 /\ used - 1 \in 0..N-1
        /\ pool[i] = lock[v] /\ used' = used - 1
        /\ pool' = [pool EXCEPT ![i] = pool[used - 1], ![used - 1] = pool[i]]
    BY <1>7, PoolAssumption DEF ReturnToPool, PoolInv, PoolType
  <2>2. /\ pool' \in [0..N-1 -> PoolLock] /\ pool'[i] = pool[used - 1] /\ pool'[used - 1] = pool[i]
        /\ \A j \in 0..N-1 : j # i /\ j # used - 1 => pool'[j] = pool[j]
    BY <2>1 DEF PoolInv, PoolType
  <2>3. \A j, k \in 0..N-1 : j # k => pool'[j] # pool'[k]
    BY <2>1, <2>2 DEF PoolInv, PoolType
  <2>4. PoolType'
    <3>1. used' \in 0..N
      BY <2>1
    <3>2. QED
      BY <1>2, <1>6, <1>7, <2>2, <2>3, <3>1 DEF PoolInv, PoolType
  <2>5. lock[v] \in PoolLock /\ lock[v] # NoLock
    BY <2>1, PoolAssumption DEF PoolInv, PoolType
  <2>6. \A j \in 0..used'-1 : \E w \in exists' : lock'[w] = pool'[j]
    <3>1. SUFFICES ASSUME NEW j \in 0..used'-1 PROVE \E w \in exists' : lock'[w] = pool'[j]
      OBVIOUS
    <3>2. j \in 0..N-1 /\ j # used - 1 /\ j \in 0..used-1 /\ used - 1 \in 0..used-1
      BY <2>1
    <3>3. PICK k \in 0..used-1 : k # i /\ k \in 0..N-1 /\ pool'[j] = pool[k]
      BY <2>1, <2>2, <3>2
    <3>4. PICK w \in exists : lock[w] = pool[k]
      BY DEF PoolInv, PoolExact
    <3>5. pool[k] # pool[i]
      BY <2>1, <3>3 DEF PoolInv, PoolType
    <3>6. w # v
      BY <2>1, <3>4, <3>5
    <3>7. QED
      BY <1>1, <1>3, <3>3, <3>4, <3>6
  <2>7. \A w \in exists' : lock'[w] \in PoolLock => \E j \in 0..used'-1 : lock'[w] = pool'[j]
    <3>1. SUFFICES ASSUME NEW w \in exists', lock'[w] \in PoolLock PROVE \E j \in 0..used'-1 : lock'[w] = pool'[j]
      OBVIOUS
    <3>2. PICK k \in 0..used-1 : lock[w] = pool[k]
      BY <1>3, <3>1 DEF PoolInv, PoolExact
    <3>3. k # i /\ k \in 0..N-1
      BY <1>5, <2>1, <2>5, <3>2
    <3>4. CASE k = used - 1
      <4>1. i \in 0..used'-1
        BY <2>1, <3>3, <3>4
      <4>2. QED
        BY <1>3, <2>2, <3>2, <3>4, <4>1
    <3>5. CASE k # used - 1
      <4>1. k \in 0..used'-1
        BY <2>1, <3>3, <3>5
      <4>2. QED
        BY <1>3, <2>2, <3>2, <3>3, <3>5, <4>1
    <3>6. QED
      BY <3>4, <3>5
  <2>8. \A w \in exists' : lock'[w] \in OwnLock => lock'[w] \in allocated'
    BY <1>3, <1>7 DEF PoolInv, PoolExact
  <2>9. \A l \in allocated' : \E w \in exists' : lock'[w] = l
    <3>1. \A l \in allocated' : l # lock[v]
      BY <1>7, <2>5, PoolAssumption DEF PoolInv, PoolType
    <3>2. QED
      BY <1>1, <1>3, <1>7, <3>1 DEF PoolInv, PoolExact
  <2>10. QED
    BY <1>4, <2>4, <2>6, <2>7, <2>8, <2>9 DEF PoolInv, PoolExact
<1>8. CASE /\ lock[v] # NoLock /\ \A i \in 0..used-1 : pool[i] # lock[v]
           /\ allocated' = allocated \ {lock[v]} /\ pool' = pool /\ used' = used
  <2>1. lock[v] \notin PoolLock
    BY <1>1, <1>8 DEF PoolInv, PoolExact
  <2>2. PoolType'
    BY <1>2, <1>6, <1>8 DEF PoolInv, PoolType
  <2>3. \A i \in 0..used'-1 : \E w \in exists' : lock'[w] = pool'[i]
    BY <1>1, <1>3, <1>8 DEF PoolInv, PoolExact
  <2>4. \A w \in exists' : lock'[w] \in PoolLock => \E i \in 0..used'-1 : lock'[w] = pool'[i]
    BY <1>3, <1>8 DEF PoolInv, PoolExact
  <2>5. \A w \in exists' : lock'[w] \in OwnLock => lock'[w] \in allocated'
    BY <1>3, <1>5, <1>8 DEF PoolInv, PoolExact
  <2>6. \A l \in allocated' : \E w \in exists' : lock'[w] = l
    BY <1>1, <1>3, <1>8 DEF PoolInv, PoolExact
  <2>7. QED
    BY <1>4, <2>2, <2>3, <2>4, <2>5, <2>6 DEF PoolInv, PoolExact
<1>9. CASE lock[v] = NoLock /\ pool' = pool /\ used' = used /\ allocated' = allocated
  <2>1. PoolType'
    BY <1>2, <1>6, <1>9 DEF PoolInv, PoolType
  <2>2. \A i \in 0..used-1 : i \in 0..N-1 /\ pool[i] # NoLock
    BY PoolAssumption DEF PoolInv, PoolType
  <2>3. \A i \in 0..used'-1 : \E w \in exists' : lock'[w] = pool'[i]
    BY <1>1, <1>3, <1>9, <2>2 DEF PoolInv, PoolExact
  <2>4. \A w \in exists' : lock'[w] \in PoolLock => \E i \in 0..used'-1 : lock'[w] = pool'[i]
    BY <1>3, <1>9 DEF PoolInv, PoolExact
  <2>5. \A w \in exists' : lock'[w] \in OwnLock => lock'[w] \in allocated'
    BY <1>3, <1>9 DEF PoolInv, PoolExact
  <2>6. \A l \in allocated' : \E w \in exists' : lock'[w] = l
    BY <1>1, <1>3, <1>9, PoolAssumption DEF PoolInv, PoolType, PoolExact
  <2>7. QED
    BY <1>4, <2>1, <2>3, <2>4, <2>5, <2>6 DEF PoolInv, PoolExact
<1>10. QED
  BY <1>7, <1>8, <1>9 DEF Dealloc

(* A step of the whole is one of the counts, with at most one of the pool.     *)
LEMMA MemviewSteps ==
    ASSUME [MemviewNext]_<<vars, poolVars>>
    PROVE  /\ [Next]_vars
           /\ UNCHANGED poolVars \/ \E v \in View : PoolStep(v)
<1>1. CASE Create
  BY <1>1, ViewedAssumption DEF Create, PoolStep
<1>2. CASE CreationFailed
  BY <1>2, ViewedAssumption DEF CreationFailed, PoolStep
<1>3. CASE Use
  BY <1>3, ViewedAssumption DEF Use, PoolStep
<1>4. CASE Others
  BY <1>4 DEF Others
<1>5. CASE UNCHANGED <<vars, poolVars>>
  BY <1>5
<1>6. QED
  BY <1>1, <1>2, <1>3, <1>4, <1>5 DEF MemviewNext

(* In every state the used part of the array and the locks of the objects      *)
(* alive are the same.                                                         *)
THEOREM PoolInvariant == MemviewSpec => []PoolInv
<1>1. MemviewInit => PoolInv
  BY PoolInitInv DEF MemviewInit
<1>2. PoolInv /\ [MemviewNext]_<<vars, poolVars>> => PoolInv'
  <2> SUFFICES ASSUME PoolInv, [MemviewNext]_<<vars, poolVars>> PROVE PoolInv'
    OBVIOUS
  <2>1. ASSUME NEW v \in View, PoolStep(v) PROVE PoolInv'
    BY <2>1, FromPoolInv, AllocateInv, DeallocInv DEF PoolStep
  <2>2. CASE UNCHANGED poolVars
    BY <2>2 DEF poolVars, PoolInv, PoolType, LocksNotShared, PoolExact
  <2>3. QED
    BY <2>1, <2>2, MemviewSteps
<1>3. QED
  BY <1>1, <1>2, PTL DEF MemviewSpec

(* No two memoryviews serialise their counts on one lock.                      *)
THEOREM LocksOfTheirOwn == MemviewSpec => []LocksNotShared
<1>1. PoolInv => LocksNotShared
  BY DEF PoolInv
<1>2. QED
  BY <1>1, PoolInvariant, PTL

(* No pool lock is handed out twice or lost, and a lock that was allocated is  *)
(* freed exactly when its object dies.                                         *)
THEOREM PoolLosesNoLock == MemviewSpec => []PoolExact
<1>1. PoolInv => PoolExact
  BY DEF PoolInv
<1>2. QED
  BY <1>1, PoolInvariant, PTL

(* The counting with the objects of the lock pool around it behaves as the     *)
(* counting alone, so that its theorems hold of it too.                        *)
THEOREM ImplementsAcquisition == MemviewSpec => Spec
<1>1. MemviewInit => Init
  BY DEF MemviewInit
<1>2. [MemviewNext]_<<vars, poolVars>> => [Next]_vars
  BY MemviewSteps
<1>3. QED
  BY <1>1, <1>2, PTL DEF MemviewSpec, Spec

(* In the whole, with objects that come and go around it, the counts are never *)
(* fatal, no slice points into a dead object and none is leaked.               *)
THEOREM CountsHoldInPool == MemviewSpec => [](NoFatalError /\ SlicesHaveObject /\ NoLeak)
<1>1. QED
  BY ImplementsAcquisition, CountNeverFatal, SliceKeepsObjectAlive, ObjectNotLeaked, PTL
=============================================================================
