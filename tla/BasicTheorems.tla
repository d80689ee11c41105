---------------------------- MODULE BasicTheorems ----------------------------
(***************************************************************************)
(* What several proofs need: how Count changes when one element moves, for *)
(* counters kept exact by increments and decrements, and induction and tail *)
(* recursion, for the searches.                                            *)
(***************************************************************************)
EXTENDS Counting, FiniteSetTheorems, WellFoundedInduction, TLAPS

(* A count of a finite set is a number.                                       *)
LEMMA CountType ==
    ASSUME NEW D, IsFiniteSet(D), NEW f, NEW S
    PROVE  Count(f, D, S) \in Nat
<1>1. IsFiniteSet(Where(f, D, S))
  BY FS_Subset DEF Where
<1>2. QED
  BY <1>1, FS_CardinalityType DEF Count

(* Only the element x may have moved.                                         *)
LEMMA CountMove ==
    ASSUME NEW D, IsFiniteSet(D), NEW f, NEW g, NEW S, NEW x \in D,
           \A y \in D \ {x} : g[y] = f[y]
    PROVE  Count(g, D, S) = Count(f, D, S) + (IF g[x] \in S THEN 1 ELSE 0)
                                           - (IF f[x] \in S THEN 1 ELSE 0)
<1>1. IsFiniteSet(Where(f, D, S)) /\ Count(f, D, S) \in Nat
  BY FS_Subset, CountType DEF Where
<1>2. CASE g[x] \in S <=> f[x] \in S
  <2>1. Where(g, D, S) = Where(f, D, S)
    BY <1>2 DEF Where
  <2>2. Count(g, D, S) = Count(f, D, S)
    BY <2>1, Zenon DEF Count
  <2>3. QED
    BY <1>1, <1>2, <2>2
<1>3. CASE g[x] \in S /\ f[x] \notin S
  <2>1. Where(g, D, S) = Where(f, D, S) \cup {x} /\ x \notin Where(f, D, S)
    BY <1>3 DEF Where
  <2>2. Cardinality(Where(f, D, S) \cup {x}) = Cardinality(Where(f, D, S)) + 1
    BY <1>1, <2>1, FS_AddElement
  <2>3. Count(g, D, S) = Count(f, D, S) + 1
    BY <2>1, <2>2, Zenon DEF Count
  <2>4. QED
    BY <1>1, <1>3, <2>3
<1>4. CASE g[x] \notin S /\ f[x] \in S
  <2>1. Where(g, D, S) = Where(f, D, S) \ {x} /\ x \in Where(f, D, S)
    BY <1>4 DEF Where
  <2>2. Cardinality(Where(f, D, S) \ {x}) = Cardinality(Where(f, D, S)) - 1
    BY <1>1, <2>1, FS_RemoveElement
  <2>3. Count(g, D, S) = Count(f, D, S) - 1
    BY <2>1, <2>2, Zenon DEF Count
  <2>4. QED
    BY <1>1, <1>4, <2>3
<1>5. QED
  BY <1>2, <1>3, <1>4

(* The same for a function with one value replaced.                           *)
LEMMA CountExcept ==
    ASSUME NEW D, IsFiniteSet(D), NEW R, NEW f \in [D -> R], NEW x \in D, NEW q, NEW S
    PROVE  Count([f EXCEPT ![x] = q], D, S)
              = Count(f, D, S) + (IF q \in S THEN 1 ELSE 0) - (IF f[x] \in S THEN 1 ELSE 0)
<1> DEFINE g == [f EXCEPT ![x] = q]
<1>1. g[x] = q /\ \A y \in D \ {x} : g[y] = f[y]
  OBVIOUS
<1> HIDE DEF g
<1>2. Count(g, D, S) = Count(f, D, S) + (IF g[x] \in S THEN 1 ELSE 0)
                                      - (IF f[x] \in S THEN 1 ELSE 0)
  BY <1>1, CountMove, Zenon
<1>3. QED
  BY <1>1, <1>2, Zenon DEF g

(* A count is positive as soon as one element counts, and zero only when no   *)
(* element does.                                                              *)
LEMMA CountPositive ==
    ASSUME NEW D, IsFiniteSet(D), NEW f, NEW S
    PROVE  Count(f, D, S) > 0 <=> \E x \in D : f[x] \in S
<1>1. IsFiniteSet(Where(f, D, S)) /\ Count(f, D, S) \in Nat
  BY FS_Subset, CountType DEF Where
<1>2. Cardinality(Where(f, D, S)) = 0 <=> Where(f, D, S) = {}
  BY <1>1, FS_EmptySet
<1>3. QED
  BY <1>1, <1>2 DEF Count, Where

-----------------------------------------------------------------------------
(***************************************************************************)
(* Induction and tail recursion, from the well-foundedness of the natural   *)
(* numbers.  The induction is over sets, not operators: the least element   *)
(* of the set of counterexamples.                                          *)
(***************************************************************************)
LEMMA LeastNatural ==
    ASSUME NEW T, T \subseteq Nat, T # {}
    PROVE  \E x \in T : \A y \in T : x <= y
<1> DEFINE L == OpToRel(<, Nat)
<1>1. \A x, y \in Nat : x < y => <<x, y>> \in L
  BY DEF OpToRel
<1>2. IsWellFoundedOn(L, Nat)
  BY NatLessThanWellFounded
<1> HIDE DEF L
<1>3. PICK x \in T : \A y \in T : ~ (<<y, x>> \in L)
  BY <1>2, WFMin, Zenon
<1>4. \A y \in T : ~(y < x)
  BY <1>1, <1>3
<1>5. QED
  BY <1>3, <1>4

(* A smallest element by a measure.                                           *)
LEMMA LeastMeasure ==
    ASSUME NEW S, NEW m \in [S -> Nat], NEW T, T \subseteq S, T # {}
    PROVE  \E x \in T : \A y \in T : m[x] <= m[y]
<1> DEFINE M == {m[x] : x \in T}
<1>1. M \subseteq Nat /\ M # {}
  OBVIOUS
<1>2. PICK n \in M : \A k \in M : n <= k
  <2> HIDE DEF M
  <2>1. QED
    BY <1>1, LeastNatural
<1>3. PICK x \in T : m[x] = n
  OBVIOUS
<1>4. QED
  BY <1>2, <1>3

(* The equation of a tail-recursive function: at a state where it does not    *)
(* stop it goes on with the next one.                                         *)
TailOf(f, S, stop, val, next) ==
    f = [s \in S |-> IF s \in stop THEN val[s] ELSE f[next[s]]]

(* The functions for which the equation holds where the measure is below n.   *)
Below(n, S, V, m, stop, val, next) ==
    {g \in [S -> V] : \A s \in S : m[s] < n => g[s] = IF s \in stop THEN val[s] ELSE g[next[s]]}

(* A function with that equation exists when every step lowers the measure.   *)
LEMMA TailRecursion ==
    ASSUME NEW S, NEW V, NEW m \in [S -> Nat], NEW stop, NEW val \in [S -> V], NEW next,
           \A s \in S \ stop : next[s] \in S /\ m[next[s]] < m[s]
    PROVE  \E f \in [S -> V] : TailOf(f, S, stop, val, next)
<1> DEFINE B(n) == Below(n, S, V, m, stop, val, next)
<1>1. \A n \in Nat : B(n) # {}
  <2> SUFFICES ASSUME {n \in Nat : B(n) = {}} # {} PROVE FALSE
    OBVIOUS
  <2> HIDE DEF B
  <2>1. PICK n \in {k \in Nat : B(k) = {}} : \A k \in {j \in Nat : B(j) = {}} : n <= k
    BY LeastNatural
  <2>2. val \in B(0)
    BY DEF B, Below
  <2>3. n \in Nat /\ n # 0 /\ n - 1 \in Nat /\ B(n) = {} /\ B(n - 1) # {}
    BY <2>1, <2>2
  <2>4. PICK g : g \in B(n - 1)
    BY <2>3
  <2> DEFINE h == [s \in S |-> IF s \in stop THEN val[s] ELSE g[next[s]]]
  <2>5. g \in [S -> V] /\ \A s \in S : m[s] < n - 1 => g[s] = IF s \in stop THEN val[s] ELSE g[next[s]]
    BY <2>4 DEF B, Below
  <2>6. h \in [S -> V]
    BY <2>5
  <2>7. ASSUME NEW s \in S, m[s] < n PROVE h[s] = IF s \in stop THEN val[s] ELSE h[next[s]]
    <3>1. CASE s \in stop
      BY <3>1
    <3>2. CASE s \notin stop
      <4>1. next[s] \in S /\ m[next[s]] < m[s] /\ m[next[s]] \in Nat /\ m[s] \in Nat
        BY <3>2
      <4>2. m[next[s]] < n - 1
        BY <4>1, <2>3, <2>7
      <4>3. h[s] = g[next[s]] /\ h[next[s]] = g[next[s]]
        BY <3>2, <4>1, <4>2, <2>5
      <4>4. QED
        BY <3>2, <4>3
    <3>3. QED
      BY <3>1, <3>2
  <2>8. h \in B(n)
    <3> HIDE DEF h
    <3>1. QED
      BY <2>6, <2>7 DEF B, Below
  <2>9. QED
    BY <2>3, <2>8
<1> DEFINE G(n) == CHOOSE g : g \in B(n)
<1>2. ASSUME NEW n \in Nat
      PROVE  G(n) \in [S -> V] /\ \A s \in S : m[s] < n => G(n)[s] = IF s \in stop THEN val[s] ELSE G(n)[next[s]]
  <2>1. G(n) \in B(n)
    <3> HIDE DEF B
    <3>1. QED
      BY <1>1
  <2>2. QED
    BY <2>1 DEF Below
(* Two of them agree where both are right. *)
<1>3. ASSUME NEW n \in Nat, NEW k \in Nat, NEW s \in S, m[s] < n, m[s] < k PROVE G(n)[s] = G(k)[s]
  <2> DEFINE D == {u \in S : m[u] < n /\ m[u] < k /\ G(n)[u] # G(k)[u]}
  <2>1. SUFFICES ASSUME D # {} PROVE FALSE
    BY <1>3
  <2> HIDE DEF G
  <2>2. PICK u \in D : \A w \in D : m[u] <= m[w]
    <3>1. D \subseteq S
      OBVIOUS
    <3> HIDE DEF D
    <3>2. QED
      BY <2>1, <3>1, LeastMeasure
  <2>3. u \in S /\ m[u] < n /\ m[u] < k /\ G(n)[u] # G(k)[u] /\ m[u] \in Nat
    BY <2>2
  <2>4. u \notin stop
    BY <2>3, <1>2
  <2>5. next[u] \in S /\ m[next[u]] < m[u] /\ m[next[u]] \in Nat
    BY <2>3, <2>4
  <2>6. G(n)[u] = G(n)[next[u]] /\ G(k)[u] = G(k)[next[u]]
    BY <1>2, <2>3, <2>4
  <2>7. next[u] \in D
    BY <2>3, <2>5, <2>6
  <2>8. QED
    BY <2>2, <2>5, <2>7, <2>3
<1> DEFINE f == [s \in S |-> G(m[s] + 1)[s]]
<1>4. f \in [S -> V]
  <2> HIDE DEF G
  <2>1. ASSUME NEW s \in S PROVE G(m[s] + 1)[s] \in V
    <3>1. m[s] + 1 \in Nat
      OBVIOUS
    <3>2. QED
      BY <3>1, <1>2
  <2>2. QED
    BY <2>1
<1>5. ASSUME NEW s \in S PROVE f[s] = IF s \in stop THEN val[s] ELSE f[next[s]]
  <2> HIDE DEF G
  <2>1. m[s] + 1 \in Nat /\ m[s] < m[s] + 1
    OBVIOUS
  <2>2. f[s] = IF s \in stop THEN val[s] ELSE G(m[s] + 1)[next[s]]
    BY <2>1, <1>2
  <2>3. ASSUME s \notin stop PROVE f[next[s]] = G(m[s] + 1)[next[s]]
    <3>1. next[s] \in S /\ m[next[s]] \in Nat /\ m[next[s]] < m[s]
      BY <2>3
    <3>2. m[next[s]] + 1 \in Nat /\ m[next[s]] < m[next[s]] + 1 /\ m[next[s]] < m[s] + 1
      BY <3>1, <2>1
    <3>3. G(m[next[s]] + 1)[next[s]] = G(m[s] + 1)[next[s]]
      BY <3>1, <3>2, <2>1, <1>3
    <3>4. QED
      BY <3>1, <3>3
  <2>4. QED
    BY <2>2, <2>3
<1>6. TailOf(f, S, stop, val, next)
  <2> HIDE DEF f
  <2>1. DOMAIN f = S /\ f = [s \in S |-> f[s]]
    BY <1>4
  <2>2. QED
    BY <1>5, <2>1 DEF TailOf
<1>7. QED
  <2> HIDE DEF f
  <2>1. QED
    BY <1>4, <1>6
=============================================================================
