------------------------ MODULE GeneratedCodeProofs ------------------------
(***************************************************************************)
(* The proofs about the code that is generated: what it holds (the last      *)
(* layer of FunctionStateProofs.tla), then ParallelLoop.tla.                 *)
(*                                                                           *)
(* HoldsInv: at every place the execution holds the temporaries that the     *)
(* code put after it takes for granted, and at the end none.                 *)
(*                                                                           *)
(* Parallel loops: in a team of any size, with any number of iterations, no  *)
(* exception is lost or owned twice, the caller leaves the construct as its  *)
(* threads did, and no thread begins more than one late body.  The inductive *)
(* invariant IInv adds to the types: the lock is held by the one thread that *)
(* is between fetching and noting its exception (LockHeld), which variables  *)
(* a thread notes its way out in (ScopeOfPlace), that a raised exception is  *)
(* somewhere on its way to the region's variables until the caller takes it  *)
(* (ExceptionPlaces), that what was noted last is a way out that was noted   *)
(* (Noted), and that nothing moves after the end (Ended).  Next come the     *)
(* ways an exception changes hands, one lemma each, then one step per        *)
(* action.                                                                   *)
(***************************************************************************)
EXTENDS FunctionStateProofs, ParallelLoop


-----------------------------------------------------------------------------
(* What is owned, to which depth.                                               *)
LEMMA OwnGrows ==
    ASSUME NEW fs, NEW d \in Nat, NEW n \in Nat, d <= n
    PROVE  /\ Own(fs, d) \subseteq Own(fs, n) /\ Man(fs, d) \subseteq Man(fs, n) /\ Ref(fs, d) \subseteq Ref(fs, n)
           /\ Man(fs, d) \subseteq Own(fs, d) /\ Ref(fs, d) \subseteq Own(fs, d) /\ Man(fs, d) \subseteq Ref(fs, d)
           /\ \A gone : GoneUnder(fs, gone, d) => GoneUnder(fs, gone, n)
           /\ \A gone : CopiesStripped(fs, gone, n) => CopiesStripped(fs, gone, d)
<1>1. \A i \in 1..d : i \in 1..n
  OBVIOUS
<1>2. /\ Own(fs, d) \subseteq Own(fs, n) /\ Man(fs, d) \subseteq Man(fs, n) /\ Ref(fs, d) \subseteq Ref(fs, n)
  BY <1>1 DEF Own, Man, Ref
<1>3. /\ Man(fs, d) \subseteq Own(fs, d) /\ Ref(fs, d) \subseteq Own(fs, d) /\ Man(fs, d) \subseteq Ref(fs, d)
  BY DEF Own, Man, Ref
<1>4. \A gone : GoneUnder(fs, gone, d) => GoneUnder(fs, gone, n)
  BY <1>1 DEF GoneUnder
<1>5. \A gone : CopiesStripped(fs, gone, n) => CopiesStripped(fs, gone, d)
  BY <1>1 DEF CopiesStripped
<1>6. QED
  BY <1>2, <1>3, <1>4, <1>5

LEMMA OwnSame ==
    ASSUME NEW fs, NEW gs, NEW n \in Nat, \A i \in 1..n : gs[i] = fs[i], NEW d \in 0..n
    PROVE  /\ Own(gs, d) = Own(fs, d) /\ Man(gs, d) = Man(fs, d) /\ Ref(gs, d) = Ref(fs, d)
<1>1. \A i \in 1..d : gs[i] = fs[i]
  OBVIOUS
<1>2. QED
  BY <1>1 DEF Own, Man, Ref

LEMMA WaysSame ==
    ASSUME NEW fs, NEW gs, NEW n \in Nat, \A i \in 1..n : gs[i] = fs[i]
    PROVE  /\ \A gone : GoneUnder(fs, gone, n) <=> GoneUnder(gs, gone, n)
           /\ \A gone : CopiesStripped(fs, gone, n) <=> CopiesStripped(gs, gone, n)
<1>1. ASSUME NEW c \in 1..n PROVE gs[c] = fs[c] /\ Own(gs, c - 1) = Own(fs, c - 1) /\ Man(gs, c - 1) = Man(fs, c - 1)
  <2>1. c - 1 \in 0..n
    OBVIOUS
  <2>2. QED
    BY <2>1, OwnSame
<1>2. QED
  BY <1>1 DEF GoneUnder, CopiesStripped

LEMMA OwnLast ==
    ASSUME NEW fs, NEW n \in Nat, fs[n + 1].temps \subseteq Nat
    PROVE  /\ Own(fs, n + 1) = Own(fs, n) \cup fs[n + 1].temps
           /\ fs[n + 1].node \notin {"for", "clause"} => Man(fs, n + 1) = Man(fs, n)
           /\ fs[n + 1].node \in {"for", "clause"} => Man(fs, n + 1) = Man(fs, n) \cup fs[n + 1].temps
           /\ fs[n + 1].node \notin {"for", "clause"} /\ ~IsCopy(fs[n + 1], "except") => Ref(fs, n + 1) = Ref(fs, n)
           /\ fs[n + 1].node \in {"for", "clause"} \/ IsCopy(fs[n + 1], "except") =>
                 Ref(fs, n + 1) = Ref(fs, n) \cup fs[n + 1].temps
<1>1. \A i : i \in 1..(n + 1) <=> i \in 1..n \/ i = n + 1
  OBVIOUS
<1>2. QED
  BY <1>1 DEF Own, Man, Ref

LEMMA WaysLast ==
    ASSUME NEW fs, NEW n \in Nat, NEW gone
    PROVE  /\ ~IsCopy(fs[n + 1], "return") /\ ~IsCopy(fs[n + 1], "except") /\ GoneUnder(fs, gone, n + 1)
                 => GoneUnder(fs, gone, n)
           /\ ~IsCopy(fs[n + 1], "return") /\ CopiesStripped(fs, gone, n) => CopiesStripped(fs, gone, n + 1)
<1>1. \A i : i \in 1..(n + 1) <=> i \in 1..n \/ i = n + 1
  OBVIOUS
<1>2. QED
  BY <1>1 DEF GoneUnder, CopiesStripped

(* A smaller set that has been released.                                         *)
LEMMA LessGone ==
    ASSUME NEW fs, NEW n \in Nat, NEW gone, NEW T
    PROVE  /\ GoneUnder(fs, gone, n) => GoneUnder(fs, gone \ T, n)
           /\ T \cap Man(fs, n) = {} /\ CopiesStripped(fs, gone, n) => CopiesStripped(fs, gone \ T, n)
           /\ \A d \in 0..n : T \cap Man(fs, n) = {} /\ CopiesStripped(fs, gone, d) => CopiesStripped(fs, gone \ T, d)
<1>1. GoneUnder(fs, gone, n) => GoneUnder(fs, gone \ T, n)
  BY DEF GoneUnder
<1>2. ASSUME NEW d \in 0..n, T \cap Man(fs, n) = {}, CopiesStripped(fs, gone, d) PROVE CopiesStripped(fs, gone \ T, d)
  <2>1. ASSUME NEW c \in 1..d, IsCopy(fs[c], "return") PROVE Man(fs, c - 1) \subseteq gone \ T
    <3>1. Man(fs, c - 1) \subseteq gone
      BY <1>2, <2>1 DEF CopiesStripped
    <3>2. Man(fs, c - 1) \subseteq Man(fs, n)
      <4>1. c - 1 \in Nat /\ c - 1 <= n
        BY <1>2, <2>1
      <4>2. QED
        BY <4>1, OwnGrows
    <3>3. QED
      BY <1>2, <3>1, <3>2
  <2>2. QED
    BY <2>1 DEF CopiesStripped
<1>3. n \in 0..n
  OBVIOUS
<1>4. QED
  BY <1>1, <1>2, <1>3

-----------------------------------------------------------------------------
(* What is held at a label that is jumped to.                                     *)
NoWay(fs, gone, l, d) ==
    \A c \in 1..d : l[1] <= c =>
        /\ ~IsCopy(fs[c], "return")
        /\ ~(IsCopy(fs[c], "except") /\ gone # {} /\ l[3] \in Loops)

LEMMA NotOverridden ==
    ASSUME NEW r, NEW l, NEW d \in Nat, NEW e \in 0..d, ~Overrides(r, l, d), NEW gone, gone \subseteq r.gone
    PROVE  NoWay(frames, gone, l, e)
<1>1. \A c \in 1..e : c \in 1..d
  OBVIOUS
<1>2. gone # {} => r.gone # {}
  OBVIOUS
<1>3. QED
  BY <1>1, <1>2 DEF Overrides, NoWay, Copy, IsCopy, Loops

LEMMA HeldJump ==
    ASSUME NEW r, NEW fs, NEW w \in Ways, NEW d \in Nat, NEW M, HeldTo(r, fs, w, d, M),
           NEW l \in Label, LabelOk(fs, l, w, d), NoWay(fs, r.gone, l, d),
           Man(fs, d) \subseteq M,
           \A i \in 1..d : fs[i].node = "finally" /\ fs[i].stage = "body" => fs[i].temps = {}
    PROVE  HeldAt(r, fs, l, M)
<1>1. /\ l[1] \in Nat /\ l[1] <= d /\ l[3] = w
      /\ l[1] = 0 \/ JumpOf(fs[l[1]], l[2], w)
      /\ \A c \in 1..d : c > l[1] => Crossed(fs[c], w)
  <2>1. l[1] \in Nat
    BY Triple
  <2>2. l = FunctionLabel(w) => l[1] = 0
    BY FunctionLabels
  <2>3. QED
    BY <2>1, <2>2 DEF LabelOk
<1> DEFINE k == l[1]
           e == Level(l)
<1>2. e \in Nat /\ e <= k /\ (e = k \/ (e = k - 1 /\ k > 0 /\ l[2] = "finally"))
  <2>1. w # "end" /\ w # "no match"
    BY DEF Ways
  <2>2. Bare(l) => l[2] = "finally"
    BY <1>1, <2>1 DEF Bare
  <2>3. CASE k > 0 /\ Bare(l)
    BY <1>1, <2>2, <2>3 DEF Level
  <2>4. CASE ~(k > 0 /\ Bare(l))
    BY <1>1, <2>4 DEF Level
  <2>5. QED
    BY <2>3, <2>4
<1>3. /\ Own(fs, e) \subseteq Own(fs, d) /\ Man(fs, k) \subseteq Man(fs, d)
  BY <1>1, <1>2, OwnGrows
<1>4. Exact(r, Own(fs, e))
  BY <1>3 DEF HeldTo, Exact
<1>5. \A t \in r.holds : t \in Own(fs, e) \/ (l[3] = "error" /\ t \in M)
  <2>1. ASSUME NEW t \in r.holds, t \notin Own(fs, e), w = "error" => t \notin M
        PROVE  FALSE
    <3>1. t \in Own(fs, d)
      BY <2>1 DEF HeldTo
    <3>2. PICK c \in 1..d : t \in fs[c].temps
      BY <3>1 DEF Own
    <3>3. c > e
      <4>1. ASSUME c <= e PROVE FALSE
        <5>1. c \in 1..e
          BY <1>2, <4>1
        <5>2. t \in Nat
          BY <3>1 DEF Own
        <5>3. QED
          BY <2>1, <3>2, <5>1, <5>2 DEF Own
      <4>2. QED
        BY <1>2, <4>1
    <3>4. CASE c > k
      <4>1. Crossed(fs[c], w)
        BY <1>1, <3>4
      <4>2. ~IsCopy(fs[c], "return")
        BY <1>1, <3>4 DEF NoWay
      <4>3. w \in {"error", "return"} /\ fs[c].node \in {"for", "clause"}
        BY <3>2, <4>1, <4>2 DEF Crossed
      <4>4. t \in Man(fs, d)
        <5>1. t \in Nat
          BY <3>1 DEF Own
        <5>2. QED
          BY <3>2, <4>3, <5>1 DEF Man
      <4>5. w # "error"
        BY <2>1, <4>4
      <4>6. t \in r.gone
        BY <4>3, <4>4, <4>5 DEF HeldTo
      <4>7. QED
        BY <2>1, <3>1, <4>6 DEF HeldTo, Exact
    <3>5. CASE c = k
      <4>1. l[2] = "finally"
        BY <1>2, <3>3, <3>5
      <4>2. JumpOf(fs[c], "finally", w)
        BY <1>1, <3>5, <4>1
      <4>3. fs[c].node = "finally" /\ fs[c].stage = "body"
        BY <4>2 DEF JumpOf
      <4>4. QED
        BY <3>2, <4>3
    <3>6. QED
      BY <1>1, <1>2, <3>3, <3>4, <3>5
  <2>2. QED
    BY <1>1, <2>1
<1>6. l[3] \notin {"error", "return", "no match"} => GoneUnder(fs, r.gone, k - 1)
  <2>1. ASSUME l[3] \notin {"error", "return", "no match"}, NEW t \in r.gone
        PROVE  \E c \in 1..(k - 1) : /\ IsCopy(fs[c], "return") \/ IsCopy(fs[c], "except")
                                     /\ t \in Own(fs, c - 1)
    <3>1. w \in Loops
      BY <1>1, <2>1 DEF Ways, Loops
    <3>2. PICK c \in 1..d : /\ IsCopy(fs[c], "return") \/ IsCopy(fs[c], "except")
                            /\ t \in Own(fs, c - 1)
      BY <2>1, <3>1 DEF HeldTo, GoneUnder
    <3>3. ~(l[1] <= c)
      BY <1>1, <2>1, <3>1, <3>2 DEF NoWay
    <3>4. c \in 1..(k - 1)
      BY <1>1, <3>3
    <3>5. QED
      BY <3>2, <3>4
  <2>2. QED
    BY <2>1 DEF GoneUnder
<1>7. l[3] = "return" => Man(fs, k) \subseteq r.gone
  BY <1>1, <1>3 DEF HeldTo
<1>8. CopiesStripped(fs, r.gone, k - 1)
  <2>1. \A c \in 1..(k - 1) : c \in 1..d
    BY <1>1
  <2>2. QED
    BY <2>1 DEF HeldTo, CopiesStripped
<1>9. ASSUME l[1] > 0, l[2] \in {"try", "finally"}, l[3] = "error" PROVE fs[l[1]].stage = "body"
  <2>1. JumpOf(fs[l[1]], l[2], w) /\ w \notin Loops
    BY <1>1, <1>9 DEF Loops
  <2>2. QED
    BY <1>9, <2>1 DEF JumpOf
<1>10. QED
  BY <1>4, <1>5, <1>6, <1>7, <1>8, <1>9 DEF HeldAt

-----------------------------------------------------------------------------
(* What is held at a label stays held while the statements around it stay.          *)
Stays(r, s, T) == s.holds = r.holds /\ (s.fault <=> r.fault) /\ s.gone = r.gone \ T
SameTo(fs, gs, d) == \A i \in 1..d : gs[i] = fs[i] /\ fs[i].temps \subseteq Nat
StaysPut(fs, gs, k, l) ==
    /\ gs[k].node = fs[k].node /\ fs[k].temps \subseteq Nat /\ gs[k].temps \subseteq Nat
    /\ gs[k].temps = fs[k].temps \/ (Bare(l) /\ fs[k].node \notin {"for", "clause"})

LEMMA Levels ==
    ASSUME NEW l \in Label
    PROVE  /\ l[1] \in Nat /\ Level(l) \in Nat /\ Level(l) <= l[1]
           /\ l[1] > 0 /\ Bare(l) => Level(l) = l[1] - 1 /\ l[1] - 1 \in Nat
           /\ ~(l[1] > 0 /\ Bare(l)) => Level(l) = l[1]
<1>1. l[1] \in Nat
  BY Triple
<1>2. CASE l[1] > 0 /\ Bare(l)
  BY <1>1, <1>2 DEF Level
<1>3. CASE ~(l[1] > 0 /\ Bare(l))
  BY <1>1, <1>3 DEF Level
<1>4. QED
  BY <1>2, <1>3

LEMMA HeldFlat ==
    ASSUME NEW r, NEW s, NEW fs, NEW gs, NEW l, NEW M, HeldAt(r, fs, l, M), NEW N, M \subseteq N,
           NEW T, Stays(r, s, T),
           Own(gs, Level(l)) = Own(fs, Level(l)), Man(gs, l[1]) = Man(fs, l[1]),
           T \cap Own(fs, Level(l)) = {}, T \cap Man(fs, l[1]) = {},
           GoneUnder(fs, r.gone, l[1] - 1) => GoneUnder(gs, s.gone, l[1] - 1),
           CopiesStripped(fs, r.gone, l[1] - 1) => CopiesStripped(gs, s.gone, l[1] - 1),
           l[1] > 0 /\ l[2] \in {"try", "finally"} /\ l[3] = "error" /\ gs[l[1]].stage # "body" =>
              r.holds \subseteq Own(fs, Level(l)) \cup gs[l[1]].clean
    PROVE  HeldAt(s, gs, l, N)
<1>1. Exact(s, Own(gs, Level(l)))
  BY DEF HeldAt, Exact, Stays
<1>2. \A t \in s.holds : t \in Own(gs, Level(l)) \/ (l[3] = "error" /\ t \in N)
  BY DEF HeldAt, Stays
<1>3. l[3] \notin {"error", "return", "no match"} => GoneUnder(gs, s.gone, l[1] - 1)
  BY DEF HeldAt
<1>4. l[3] = "return" => Man(gs, l[1]) \subseteq s.gone
  BY DEF HeldAt, Stays
<1>5. CopiesStripped(gs, s.gone, l[1] - 1)
  BY DEF HeldAt
<1>6. l[1] > 0 /\ l[2] \in {"try", "finally"} /\ l[3] = "error" /\ gs[l[1]].stage # "body" =>
              s.holds \subseteq Own(gs, Level(l)) \cup gs[l[1]].clean
  BY DEF Stays
<1>7. QED
  BY <1>1, <1>2, <1>3, <1>4, <1>5, <1>6 DEF HeldAt

LEMMA HeldLift ==
    ASSUME NEW r, NEW s, NEW fs, NEW gs, NEW l \in Label, NEW M, NEW N, HeldAt(r, fs, l, M), M \subseteq N,
           NEW T, Stays(r, s, T),
           NEW j \in Nat, SameTo(fs, gs, j), NEW k, k = j + 1, k = l[1], StaysPut(fs, gs, k, l),
           T \cap Own(fs, Level(l)) = {}, T \cap Man(fs, k) = {},
           l[2] \in {"try", "finally"} /\ l[3] = "error" /\ gs[k].stage # "body" =>
              r.holds \subseteq Own(fs, Level(l)) \cup gs[k].clean
    PROVE  HeldAt(s, gs, l, N)
<1>1. k \in Nat /\ k > 0 /\ k - 1 = j
  OBVIOUS
<1>2. \A i \in 1..j : gs[i] = fs[i]
  BY DEF SameTo
<1>3. j \in 0..j
  BY <1>1
<1>4. Own(gs, j) = Own(fs, j) /\ Man(gs, j) = Man(fs, j)
  BY <1>2, <1>3, OwnSame
<1>5. /\ Own(fs, k) = Own(fs, j) \cup fs[k].temps /\ Own(gs, k) = Own(gs, j) \cup gs[k].temps
      /\ (fs[k].node \notin {"for", "clause"} => Man(fs, k) = Man(fs, j))
      /\ (fs[k].node \in {"for", "clause"} => Man(fs, k) = Man(fs, j) \cup fs[k].temps)
      /\ (gs[k].node \notin {"for", "clause"} => Man(gs, k) = Man(gs, j))
      /\ (gs[k].node \in {"for", "clause"} => Man(gs, k) = Man(gs, j) \cup gs[k].temps)
  <2>1. fs[j + 1].temps \subseteq Nat /\ gs[j + 1].temps \subseteq Nat
    BY DEF StaysPut
  <2>2. QED
    BY <2>1, OwnLast
<1>6. Man(gs, k) = Man(fs, k)
  BY <1>4, <1>5 DEF StaysPut
<1>7. Own(gs, Level(l)) = Own(fs, Level(l))
  <2>1. CASE Bare(l)
    BY <1>1, <1>4, <2>1, Levels
  <2>2. CASE ~Bare(l)
    <3>1. Level(l) = k /\ gs[k].temps = fs[k].temps
      BY <2>2, Levels DEF StaysPut
    <3>2. QED
      BY <1>4, <1>5, <3>1
  <2>3. QED
    BY <2>1, <2>2
<1>8. GoneUnder(fs, r.gone, k - 1) => GoneUnder(gs, s.gone, k - 1)
  <2>1. GoneUnder(fs, r.gone, j) => GoneUnder(fs, r.gone \ T, j)
    BY LessGone
  <2>2. GoneUnder(fs, r.gone \ T, j) <=> GoneUnder(gs, r.gone \ T, j)
    BY <1>2, WaysSame
  <2>3. QED
    BY <1>1, <2>1, <2>2 DEF Stays
<1>9. Man(fs, j) \subseteq Man(fs, k)
  BY <1>5
<1>10. CopiesStripped(fs, r.gone, k - 1) => CopiesStripped(gs, s.gone, k - 1)
  <2>1. T \cap Man(fs, j) = {}
    BY <1>9
  <2>2. CopiesStripped(fs, r.gone, j) => CopiesStripped(fs, r.gone \ T, j)
    BY <2>1, LessGone
  <2>3. CopiesStripped(fs, r.gone \ T, j) <=> CopiesStripped(gs, r.gone \ T, j)
    BY <1>2, WaysSame
  <2>4. QED
    BY <1>1, <2>2, <2>3 DEF Stays
<1>11. /\ Own(gs, Level(l)) = Own(fs, Level(l)) /\ Man(gs, l[1]) = Man(fs, l[1])
       /\ T \cap Own(fs, Level(l)) = {} /\ T \cap Man(fs, l[1]) = {}
  BY <1>6, <1>7
<1>12. /\ (GoneUnder(fs, r.gone, l[1] - 1) => GoneUnder(gs, s.gone, l[1] - 1))
       /\ (CopiesStripped(fs, r.gone, l[1] - 1) => CopiesStripped(gs, s.gone, l[1] - 1))
  BY <1>8, <1>10
<1>13. l[1] > 0 /\ l[2] \in {"try", "finally"} /\ l[3] = "error" /\ gs[l[1]].stage # "body" =>
              r.holds \subseteq Own(fs, Level(l)) \cup gs[l[1]].clean
  BY <1>1
<1>14. QED
  BY <1>11, <1>12, <1>13, HeldFlat

(* Labels of the function are those of no statement.                             *)
LEMMA HeldLiftOut ==
    ASSUME NEW r, NEW s, NEW fs, NEW gs, NEW l \in Label, NEW M, NEW N, HeldAt(r, fs, l, M), M \subseteq N,
           NEW T, Stays(r, s, T),
           l[1] = 0, l[3] \in {"error", "return"}
    PROVE  HeldAt(s, gs, l, N)
<1>1. Level(l) = 0
  BY Levels
<1>2. Own(gs, 0) = {} /\ Own(fs, 0) = {} /\ Man(gs, 0) = {} /\ Man(fs, 0) = {}
  BY DEF Own, Man
<1>3. l[1] - 1 = -1 /\ 1..(-1) = {}
  OBVIOUS
<1>4. CopiesStripped(gs, s.gone, l[1] - 1)
  BY <1>3 DEF CopiesStripped
<1>5. GoneUnder(fs, r.gone, l[1] - 1) => GoneUnder(gs, s.gone, l[1] - 1)
  BY <1>3 DEF GoneUnder, Stays
<1>6. /\ Own(gs, Level(l)) = Own(fs, Level(l)) /\ Man(gs, l[1]) = Man(fs, l[1])
      /\ T \cap Own(fs, Level(l)) = {} /\ T \cap Man(fs, l[1]) = {}
  BY <1>1, <1>2
<1>7. QED
  BY <1>4, <1>5, <1>6, HeldFlat

(* Nothing changes down to the statement that puts the label.                      *)
LEMMA HeldBelow ==
    ASSUME NEW r, NEW s, NEW fs, NEW gs, NEW l \in Label, NEW M, NEW N, HeldAt(r, fs, l, M), M \subseteq N,
           NEW T, Stays(r, s, T),
           SameTo(fs, gs, l[1]), T \cap Own(fs, l[1]) = {},
           l[1] = 0 => l[3] \in {"error", "return"}
    PROVE  HeldAt(s, gs, l, N)
<1>1. CASE l[1] = 0
  BY <1>1, HeldLiftOut
<1>2. CASE l[1] # 0
  <2> DEFINE j == l[1] - 1
             k == l[1]
  <2>1. j \in Nat /\ k = j + 1 /\ k \in 1..l[1] /\ k \in Nat /\ k > 0 /\ \A i \in 1..j : i \in 1..l[1]
    BY <1>2, Levels
  <2>2. SameTo(fs, gs, j) /\ StaysPut(fs, gs, k, l) /\ gs[k] = fs[k]
    BY <2>1 DEF SameTo, StaysPut
  <2>3. Own(fs, Level(l)) \subseteq Own(fs, k) /\ Man(fs, k) \subseteq Own(fs, k)
    BY <2>1, Levels, OwnGrows
  <2>4. T \cap Own(fs, Level(l)) = {} /\ T \cap Man(fs, k) = {}
    BY <2>3
  <2>5. l[2] \in {"try", "finally"} /\ l[3] = "error" /\ gs[k].stage # "body" =>
              r.holds \subseteq Own(fs, Level(l)) \cup gs[k].clean
    BY <2>1, <2>2 DEF HeldAt
  <2>6. k = l[1]
    OBVIOUS
  <2> HIDE DEF j, k
  <2>7. QED
    BY <2>1, <2>2, <2>4, <2>5, <2>6, HeldLift
<1>3. QED
  BY <1>1, <1>2

-----------------------------------------------------------------------------
(* The temporaries of the statements around.                                     *)
LEMMA OwnFacts ==
    ASSUME TempsInv
    PROVE  /\ Depth \in Nat /\ Own(frames, Depth) \subseteq InUse /\ scratch \subseteq InUse /\ InUse \subseteq Temps
           /\ scratch \cap Own(frames, Depth) = {} /\ InUse = scratch \cup Own(frames, Depth)
           /\ Man(frames, Depth) \subseteq Counted(Temps)
           /\ \A t \in Own(frames, Depth) : kind[t] \in Managed <=> t \in Man(frames, Depth)
           /\ \A i \in 1..Depth : frames[i].node = "finally" /\ frames[i].stage \notin {"except", "return"}
                 => frames[i].temps = {}
           /\ \A i \in 1..Depth : frames[i].temps \subseteq Nat
<1>1. Depth \in Nat /\ \A i \in 1..Depth : FrameOk(i) /\ frames[i].temps \subseteq Nat
  BY Frames DEF Frame
<1>2. InUse = scratch \cup Owned(Depth) /\ InUse \subseteq Temps /\ Temps \subseteq Nat
      /\ \A i \in 1..Depth : frames[i].temps \cap scratch = {}
  BY DEF TempsInv, TempsHaveOneOwner, InUse, Temps
<1>3. \A i \in 1..Depth : frames[i].temps \subseteq Temps
  BY <1>1 DEF FrameOk
<1>4. Own(frames, Depth) = Owned(Depth)
  BY <1>2, <1>3 DEF Own, Owned
<1>5. \A i \in 1..Depth : \A t \in frames[i].temps : kind[t] \in Managed <=> frames[i].node \in {"for", "clause"}
  BY <1>1 DEF FrameOk
<1>6. ASSUME NEW t \in Own(frames, Depth) PROVE kind[t] \in Managed <=> t \in Man(frames, Depth)
  BY <1>5 DEF Own, Man
<1>7. Man(frames, Depth) \subseteq Counted(Temps)
  <2>1. ASSUME NEW t \in Man(frames, Depth) PROVE t \in Temps /\ kind[t] \in Managed
    BY <1>3, <1>5 DEF Man
  <2>2. QED
    BY <2>1 DEF Counted
<1>8. scratch \cap Own(frames, Depth) = {}
  BY <1>2 DEF Own
<1>9. \A i \in 1..Depth : frames[i].node = "finally" /\ frames[i].stage \notin {"except", "return"}
                 => frames[i].temps = {}
  BY <1>1 DEF FrameOk, Empty
<1>10. QED
  BY <1>1, <1>2, <1>4, <1>6, <1>7, <1>8, <1>9

LEMMA OwnTop ==
    ASSUME TempsInv, Depth > 0
    PROVE  /\ Depth - 1 \in Nat /\ Top = frames[Depth] /\ Top.temps \subseteq Nat /\ Top.temps \subseteq InUse
           /\ Own(frames, Depth) = Own(frames, Depth - 1) \cup Top.temps
           /\ Top.temps \cap Own(frames, Depth - 1) = {}
           /\ Man(frames, Depth - 1) \subseteq Own(frames, Depth - 1) /\ Ref(frames, Depth - 1) \subseteq Own(frames, Depth - 1)
           /\ Man(frames, Depth - 1) \subseteq Man(frames, Depth) /\ Ref(frames, Depth - 1) \subseteq Ref(frames, Depth)
           /\ Ref(frames, Depth) \subseteq Ref(frames, Depth - 1) \cup Top.temps
           /\ Top.node \notin {"for", "clause"} => Man(frames, Depth) = Man(frames, Depth - 1)
           /\ Top.node \notin {"for", "clause"} /\ ~IsCopy(Top, "except") => Ref(frames, Depth) = Ref(frames, Depth - 1)
           /\ Top.node = "for" /\ Top.stage = "else" => Top.temps = {}
           /\ Top.node = "finally" /\ Top.stage \notin {"except", "return"} => Top.temps = {}
           /\ \A gone : GoneUnder(frames, gone, Depth) => gone \cap Top.temps = {}
<1> DEFINE n == Depth - 1
<1>1. n \in Nat /\ Depth = n + 1 /\ Top = frames[Depth] /\ Top \in Frame /\ Top.temps \subseteq InUse
      /\ (Empty(Top) => Top.temps = {})
  BY Frames, TopFacts
<1>2. Top.temps \subseteq Nat /\ frames[n + 1].temps \subseteq Nat
  BY <1>1 DEF Frame
<1>3. \A i \in 1..n : frames[i].temps \cap Top.temps = {}
  BY <1>1 DEF TempsInv, TempsHaveOneOwner
<1>4. Top.temps \cap Own(frames, n) = {}
  BY <1>3 DEF Own
<1>5. \A gone : GoneUnder(frames, gone, Depth) => gone \cap Top.temps = {}
  <2>1. ASSUME NEW gone, GoneUnder(frames, gone, Depth), NEW t \in gone, t \in Top.temps PROVE FALSE
    <3>1. PICK c \in 1..Depth : t \in Own(frames, c - 1)
      BY <2>1 DEF GoneUnder
    <3>2. c - 1 \in Nat /\ c - 1 <= n
      BY <1>1, <3>1
    <3>3. t \in Own(frames, n)
      BY <1>1, <3>1, <3>2, OwnGrows
    <3>4. QED
      BY <1>4, <2>1, <3>3
  <2>2. QED
    BY <2>1
<1>6. /\ Own(frames, n + 1) = Own(frames, n) \cup frames[n + 1].temps
      /\ frames[n + 1].node \notin {"for", "clause"} => Man(frames, n + 1) = Man(frames, n)
      /\ frames[n + 1].node \in {"for", "clause"} => Man(frames, n + 1) = Man(frames, n) \cup frames[n + 1].temps
      /\ frames[n + 1].node \notin {"for", "clause"} /\ ~IsCopy(frames[n + 1], "except") =>
            Ref(frames, n + 1) = Ref(frames, n)
      /\ frames[n + 1].node \in {"for", "clause"} \/ IsCopy(frames[n + 1], "except") =>
            Ref(frames, n + 1) = Ref(frames, n) \cup frames[n + 1].temps
  <2> HIDE DEF n
  <2>1. QED
    BY <1>1, <1>2, OwnLast
<1>7. /\ Man(frames, n) \subseteq Own(frames, n) /\ Ref(frames, n) \subseteq Own(frames, n)
  BY <1>1, OwnGrows
<1>8. Top = frames[n + 1] /\ n + 1 = Depth
  BY <1>1
<1> HIDE DEF n
<1>9. /\ Own(frames, n + 1) = Own(frames, n) \cup Top.temps
      /\ Man(frames, n) \subseteq Man(frames, n + 1) /\ Ref(frames, n) \subseteq Ref(frames, n + 1)
      /\ Ref(frames, n + 1) \subseteq Ref(frames, n) \cup Top.temps
      /\ Top.node \notin {"for", "clause"} => Man(frames, n + 1) = Man(frames, n)
      /\ Top.node \notin {"for", "clause"} /\ ~IsCopy(Top, "except") => Ref(frames, n + 1) = Ref(frames, n)
  BY <1>6, <1>8
<1>10. /\ Top.node = "for" /\ Top.stage = "else" => Top.temps = {}
       /\ Top.node = "finally" /\ Top.stage \notin {"except", "return"} => Top.temps = {}
  BY <1>1 DEF Empty
<1>11. Depth - 1 = n
  BY DEF n
<1>12. QED
  BY <1>1, <1>2, <1>4, <1>5, <1>7, <1>8, <1>9, <1>10, <1>11

-----------------------------------------------------------------------------
(* What is held in the next state.                                             *)
LEMMA Grown ==
    ASSUME TempsInv, LabelType, CodeNext
    PROVE  Temps \subseteq Temps' /\ Counted(Temps) \subseteq Counted(Temps)'
<1>1. ASSUME NEW T, Grows(T) PROVE Temps \subseteq Temps' /\ Counted(Temps) \subseteq Counted(Temps)'
  BY <1>1 DEF Grows, Counted
<1>2. Grows({}) => Temps \subseteq Temps' /\ Counted(Temps) \subseteq Counted(Temps)'
  BY <1>1
<1>3. ASSUME NEW t, NEW k \in Kind, AllocateTemp(t, k) PROVE Temps \subseteq Temps' /\ Counted(Temps) \subseteq Counted(Temps)'
  BY <1>1, <1>3, Allocated
<1>4. ASSUME NEW T, ReleaseTemps(T), T \subseteq InUse PROVE Temps \subseteq Temps' /\ Counted(Temps) \subseteq Counted(Temps)'
  BY <1>2, <1>4, Released
<1>5. ASSUME UNCHANGED temps PROVE Temps \subseteq Temps' /\ Counted(Temps) \subseteq Counted(Temps)'
  BY <1>2, <1>5, Unchanged
<1>6. ASSUME ReleaseTemps(Top.temps), frames # <<>> PROVE Temps \subseteq Temps' /\ Counted(Temps) \subseteq Counted(Temps)'
  <2>1. Top.temps \subseteq InUse
    BY <1>6, Frames, TopFacts
  <2>2. QED
    BY <1>4, <1>6, <2>1
<1>7. Plain \in Kind
  BY KindAssumption
<1>8. ASSUME NEW t, NEW k \in Kind, Evaluate(t, k) \/ ForBegin(t, k) \/ ClauseBegin(t, k)
      PROVE  Temps \subseteq Temps' /\ Counted(Temps) \subseteq Counted(Temps)'
  <2>1. AllocateTemp(t, k)
    BY <1>8 DEF Evaluate, ForBegin, ClauseBegin
  <2>2. QED
    BY <1>3, <2>1
<1>9. ASSUME NEW t, TryBegin(t) \/ FinallyExcept(t) PROVE Temps \subseteq Temps' /\ Counted(Temps) \subseteq Counted(Temps)'
  <2>1. AllocateTemp(t, Plain)
    BY <1>9 DEF TryBegin, FinallyExcept
  <2>2. QED
    BY <1>3, <1>7, <2>1
<1>10. ASSUME NEW t, Dispose(t) PROVE Temps \subseteq Temps' /\ Counted(Temps) \subseteq Counted(Temps)'
  <2>1. ReleaseTemps({t}) /\ t \in scratch
    BY <1>10 DEF Dispose
  <2>2. {t} \subseteq InUse
    BY <2>1 DEF TempsInv, TempsHaveOneOwner
  <2>3. QED
    BY <1>4, <2>1, <2>2
<1>11. ASSUME NEW way, NEW T, FinallyWay(way, T) PROVE Temps \subseteq Temps' /\ Counted(Temps) \subseteq Counted(Temps)'
  <2>1. UNCHANGED temps \/ \E t \in T : AllocateTemp(t, Plain)
    BY <1>11 DEF FinallyWay
  <2>2. QED
    BY <1>3, <1>5, <1>7, <2>1
<1>12. ASSUME NEW way, FinallyWayEnd(way) PROVE ReleaseTemps(Top.temps) /\ frames # <<>>
  BY <1>12 DEF FinallyWayEnd, In
<1>13. ASSUME ForElse \/ ClauseEnd \/ TryEnd \/ FinallyExceptEnd PROVE ReleaseTemps(Top.temps) /\ frames # <<>>
  BY <1>13 DEF ForElse, ClauseEnd, TryEnd, FinallyExceptEnd, In
<1>14. ASSUME \/ Return \/ Reraise \/ ForEnd \/ TryElse \/ TryHandlers \/ FinallyBegin \/ FinallyNormal
              \/ FinallyNormalEnd \/ FinallyEnd \/ FunctionEnd
              \/ \E way \in {"break", "continue"} : BreakOrContinue(way) \/ JumpNowhere(way)
       PROVE  UNCHANGED temps
  BY <1>14 DEF Return, Reraise, ForEnd, TryElse, TryHandlers, FinallyBegin, FinallyNormal, FinallyNormalEnd, FinallyEnd,
     FunctionEnd, BreakOrContinue, JumpNowhere
<1>15. QED
  BY <1>5, <1>6, <1>8, <1>9, <1>10, <1>11, <1>12, <1>13, <1>14, Actions

HeldNext(m) ==
    \/ run'.at = Here /\ HeldHere(run', frames', Depth', m)
    \/ run'.at = Done /\ ~run'.fault /\ run'.holds = {}
    \/ run'.at # Here /\ run'.at # Done /\ HeldAt(run', frames', run'.at, Counted(Temps)')

LEMMA HoldsNext ==
    ASSUME run'.holds \subseteq Temps', run'.gone \subseteq Ref(frames', Depth'), NEW m, m = Counted(scratch)',
           ~run'.overridden => HeldNext(m)
    PROVE  HoldsInv'
<1>1. Here # Done
  BY FunctionLabels
<1>2. QED
  BY <1>1 DEF HoldsInv, HeldNext

LEMMA HoldsFacts ==
    ASSUME TempsInv, LabelType, LabelsInv, PlaceInv, HoldsInv, ~finished
    PROVE  /\ run.holds \subseteq Temps /\ run.gone \subseteq Ref(frames, Depth)
           /\ run.gone \subseteq Own(frames, Depth) /\ run.gone \subseteq InUse
           /\ run.at = Here /\ ~run.overridden => HeldHere(run, frames, Depth, Counted(scratch))
           /\ run.at # Here /\ ~run.overridden => HeldAt(run, frames, run.at, Counted(Temps))
           /\ run.at # Here => /\ run.at \in Label /\ run.at # Done /\ run.at[1] \in 0..Depth
                               /\ (run.at[1] = 0 => run.at[3] \in {"error", "return"})
           /\ run \in Run
<1>1. run.holds \subseteq Temps /\ run.gone \subseteq Ref(frames, Depth) /\ run \in Run
  BY PlaceFacts DEF HoldsInv
<1>2. Ref(frames, Depth) \subseteq Own(frames, Depth) /\ Own(frames, Depth) \subseteq InUse
  BY OwnFacts, OwnGrows
<1>3. ASSUME run.at # Here
      PROVE  /\ run.at \in Label /\ run.at # Done /\ run.at[1] \in 0..Depth
             /\ (run.at[1] = 0 => run.at[3] \in {"error", "return"})
  <2>1. WaitsAt(frames, run.at, used, Depth) /\ Depth \in Nat
    BY <1>3, PlaceFacts
  <2>2. run.at # Done /\ run.at[1] \in 0..Depth
    BY <2>1, WaitsAway
  <2>3. run.at \in Label
    BY <1>1 DEF Run
  <2>4. ASSUME run.at[1] = 0 PROVE run.at[3] \in {"error", "return"}
    <3>1. run.at[1] \notin 1..Depth
      BY <2>1, <2>4
    <3>2. run.at \in {FunctionLabel("error"), FunctionLabel("return")}
      BY <2>1, <3>1 DEF WaitsAt
    <3>3. QED
      BY <3>2, FunctionLabels
  <2>5. QED
    BY <2>2, <2>3, <2>4
<1>4. run.at = Here /\ ~run.overridden => HeldHere(run, frames, Depth, Counted(scratch))
  BY DEF HoldsInv
<1>5. run.at # Here /\ ~run.overridden => HeldAt(run, frames, run.at, Counted(Temps))
  BY <1>3 DEF HoldsInv
<1>6. QED
  BY <1>1, <1>2, <1>3, <1>4, <1>5

(* From here to a label.                                                       *)
LEMMA HeldLeave ==
    ASSUME NEW r, NEW fs, NEW n, NEW m, HeldHere(r, fs, n, m), NEW M, m \subseteq M
    PROVE  /\ HeldTo(r, fs, "error", n, M)
           /\ \A w \in Loops : m = {} /\ GoneUnder(fs, r.gone, n) => HeldTo(r, fs, w, n, M)
<1>1. Exact(r, Own(fs, n))
  BY DEF HeldHere, Exact
<1>2. HeldTo(r, fs, "error", n, M)
  BY <1>1 DEF HeldHere, HeldTo, Loops
<1>3. ASSUME NEW w \in Loops, m = {}, GoneUnder(fs, r.gone, n) PROVE HeldTo(r, fs, w, n, M)
  <2>1. w # "return"
    BY DEF Loops
  <2>2. \A t \in r.holds : t \in Own(fs, n)
    BY <1>3 DEF HeldHere
  <2>3. QED
    BY <1>1, <1>3, <2>1, <2>2 DEF HeldHere, HeldTo
<1>4. QED
  BY <1>2, <1>3

-----------------------------------------------------------------------------
(* The execution waits where it has waited, or goes from here to a label.            *)
LEMMA Waiting ==
    ASSUME TempsInv, LabelType, LabelsInv, PlaceInv, HoldsInv, CodeNext, ~finished, ~run.overridden,
           run.at # Here, run'.at = run.at, NEW T, Stays(run, run', T), SameTo(frames, frames', run.at[1]),
           T \cap Own(frames, run.at[1]) = {}, NEW m
    PROVE  HeldNext(m)
<1>1. /\ HeldAt(run, frames, run.at, Counted(Temps)) /\ run.at \in Label /\ run.at # Done
      /\ (run.at[1] = 0 => run.at[3] \in {"error", "return"})
  BY HoldsFacts
<1>2. Counted(Temps) \subseteq Counted(Temps)'
  BY Grown
<1>3. HeldAt(run', frames', run.at, Counted(Temps)')
  BY <1>1, <1>2, HeldBelow
<1>4. QED
  BY <1>1, <1>3 DEF HeldNext

LEMMA Jumping ==
    ASSUME TempsInv, LabelType, LabelsInv, PlaceInv, HoldsInv, CodeNext, NEW w \in Ways, NEW d \in Nat, d <= Depth,
           NEW l \in Label, LabelOk(frames, l, w, d), run'.at = l, NoWay(frames, run'.gone, l, d),
           HeldTo(run', frames, w, d, Counted(Temps)'), SameTo(frames, frames', l[1]), NEW m
    PROVE  HeldNext(m)
<1>1. Man(frames, d) \subseteq Counted(Temps)'
  <2>1. Man(frames, d) \subseteq Man(frames, Depth)
    BY OwnFacts, OwnGrows
  <2>2. QED
    BY <2>1, OwnFacts, Grown
<1>2. \A i \in 1..d : frames[i].node = "finally" /\ frames[i].stage = "body" => frames[i].temps = {}
  <2>1. \A i \in 1..d : i \in 1..Depth
    BY OwnFacts
  <2>2. QED
    BY <2>1, OwnFacts
<1>3. HeldAt(run', frames, l, Counted(Temps)')
  BY <1>1, <1>2, HeldJump
<1>4. l # Here /\ l # Done
  BY WaitsJump, WaitsAway
<1>5. l[1] = 0 => l[3] \in {"error", "return"}
  <2>1. ASSUME l[1] = 0 PROVE l = FunctionLabel(w) /\ w \in {"error", "return"}
    BY <2>1 DEF LabelOk
  <2>2. QED
    BY <2>1, FunctionLabels
<1>6. Stays(run', run', {})
  BY DEF Stays
<1>7. HeldAt(run', frames', l, Counted(Temps)')
  BY <1>3, <1>5, <1>6, HeldBelow
<1>8. QED
  BY <1>4, <1>7 DEF HeldNext

LEMMA SameFrom ==
    ASSUME TempsInv
    PROVE  /\ frames' = frames => \A d : d \in 0..Depth => SameTo(frames, frames', d)
           /\ (\A i \in 1..Depth : frames'[i] = frames[i]) => \A d \in 0..Depth : SameTo(frames, frames', d)
           /\ (\A i \in 1..(Depth - 1) : frames'[i] = frames[i]) => \A d \in 0..(Depth - 1) : SameTo(frames, frames', d)
<1>1. Depth \in Nat /\ \A i \in 1..Depth : frames[i].temps \subseteq Nat
  BY OwnFacts
<1>2. ASSUME NEW n \in Int, n <= Depth, \A i \in 1..n : frames'[i] = frames[i], NEW d \in 0..n PROVE SameTo(frames, frames', d)
  <2>1. \A i \in 1..d : i \in 1..n /\ i \in 1..Depth
    BY <1>1, <1>2
  <2>2. QED
    BY <1>1, <1>2, <2>1 DEF SameTo
<1>3. QED
  BY <1>1, <1>2

LEMMA HoldsEvaluate ==
    ASSUME TempsInv, LabelType, LabelsInv, PlaceInv, HoldsInv, NEW t \in 1..MaxTemps, NEW k \in Kind, Evaluate(t, k)
    PROVE  HoldsInv'
<1> DEFINE S == IF k \in Managed THEN {t} ELSE {}
           E == labels["error"]
<1>1. /\ Grows({t}) /\ t \in Nat /\ kind'[t] = k /\ t \notin InUse
      /\ ~finished /\ frames' = frames /\ Depth' = Depth /\ scratch' = scratch \cup {t}
      /\ run' \in {Take(run, S), JumpTo(run, E)}
  BY Allocated DEF Evaluate, Depth
<1>2. CodeNext
  BY DEF CodeNext, Expression
<1>3. scratch \subseteq InUse /\ InUse \subseteq Temps
  BY OwnFacts
<1>4. Counted(scratch)' = Counted(scratch) \cup S
  <2>1. \A u \in scratch : kind'[u] = kind[u]
    BY <1>1, <1>3 DEF Grows
  <2>2. QED
    BY <1>1, <2>1 DEF Counted
<1>5. Temps \subseteq Temps' /\ S \subseteq Temps' /\ Counted(Temps) \subseteq Counted(Temps)' /\ S \in SUBSET Nat /\ S \subseteq {t}
  BY <1>1, <1>2, Grown DEF Grows
<1>6. run \in Run /\ run.holds \subseteq Temps /\ run.gone \subseteq Ref(frames, Depth) /\ run.gone \subseteq InUse
      /\ E \in Label /\ LabelOk(frames, E, "error", Depth) /\ Depth \in Nat
  BY <1>1, HoldsFacts, ErrorMarked, OwnFacts
<1> HIDE DEF S, E
<1>7. /\ run'.holds = run.holds \/ run'.holds = run.holds \cup S
      /\ run'.gone = run.gone /\ (run.at # Here => run' = run) /\ (~run'.overridden => ~run.overridden)
      /\ run.at = Here =>
            \/ run'.at = Here /\ run'.holds = run.holds \cup S /\ (run'.fault <=> (run.fault \/ S \cap run.holds # {}))
            \/ /\ run'.at = E /\ Left(run, run', E, Depth)
               /\ run'.holds = run.holds /\ (run'.fault <=> run.fault)
  <2>1. CASE run' = Take(run, S)
    <3>1. /\ Take(run, S).at = run.at /\ Take(run, S).gone = run.gone
          /\ Take(run, S).overridden = run.overridden
          /\ (run.at # Here => Take(run, S) = run)
          /\ (run.at = Here => Take(run, S).holds = run.holds \cup S)
          /\ (run.at = Here => (Take(run, S).fault <=> (run.fault \/ S \cap run.holds # {})))
      BY <1>5, <1>6, RunTake
    <3>2. QED
      BY <2>1, <3>1
  <2>2. CASE run' = JumpTo(run, E)
    <3>1. /\ JumpTo(run, E).at = (IF run.at = Here THEN E ELSE run.at)
          /\ JumpTo(run, E).holds = run.holds /\ JumpTo(run, E).fault = run.fault /\ JumpTo(run, E).gone = run.gone
          /\ run.at # Here => JumpTo(run, E) = run
          /\ Before(run, JumpTo(run, E)) /\ (run.at = Here => Left(run, JumpTo(run, E), E, Depth))
      BY <1>6, RunJump
    <3>2. QED
      BY <2>2, <3>1 DEF Before
  <2>3. QED
    BY <1>1, <2>1, <2>2
<1>8. run'.holds \subseteq Temps' /\ run'.gone \subseteq Ref(frames', Depth')
  BY <1>1, <1>5, <1>6, <1>7
<1>9. ASSUME ~run'.overridden PROVE HeldNext(Counted(scratch) \cup S)
  <2>1. ~run.overridden
    BY <1>7, <1>9
  <2>2. \A d \in 0..Depth : SameTo(frames, frames', d)
    BY <1>1, SameFrom
  <2>3. CASE run.at # Here
    <3>1. run.at[1] \in 0..Depth
      BY <1>1, <2>3, HoldsFacts
    <3>2. Stays(run, run', {}) /\ run'.at = run.at
      BY <1>7, <2>3 DEF Stays
    <3>3. SameTo(frames, frames', run.at[1])
      BY <2>2, <3>1
    <3>4. QED
      BY <1>1, <1>2, <2>1, <2>3, <3>2, <3>3, Waiting
  <2>4. CASE run.at = Here
    <3>1. HeldHere(run, frames, Depth, Counted(scratch))
      BY <1>1, <2>1, <2>4, HoldsFacts
    <3>2. CASE /\ run'.at = Here /\ run'.holds = run.holds \cup S
               /\ run'.fault <=> (run.fault \/ S \cap run.holds # {})
      <4>1. t \notin run.holds /\ t \notin run.gone /\ t \notin Own(frames, Depth) /\ t \notin scratch
        <5>1. run.holds \subseteq Counted(scratch) \cup Own(frames, Depth)
          BY <3>1 DEF HeldHere
        <5>2. Counted(scratch) \subseteq InUse /\ Own(frames, Depth) \subseteq InUse
          BY <1>3, OwnFacts DEF Counted
        <5>3. QED
          BY <1>1, <1>3, <1>6, <5>1, <5>2
      <4>2. HeldHere(run', frames, Depth, Counted(scratch) \cup S)
        BY <1>5, <1>7, <3>1, <3>2, <4>1 DEF HeldHere, Exact
      <4>3. QED
        BY <1>1, <3>2, <4>2 DEF HeldNext
    <3>3. CASE /\ run'.at = E /\ Left(run, run', E, Depth)
               /\ run'.holds = run.holds /\ (run'.fault <=> run.fault)
      <4>1. HeldHere(run', frames, Depth, Counted(scratch))
        BY <1>7, <3>1, <3>3 DEF HeldHere, Exact
      <4>2. Counted(scratch) \subseteq Counted(Temps)'
        BY <1>3, <1>5 DEF Counted
      <4>3. HeldTo(run', frames, "error", Depth, Counted(Temps)')
        BY <4>1, <4>2, HeldLeave
      <4>4. ~Overrides(run, E, Depth)
        BY <1>9, <3>3 DEF Left
      <4>5. NoWay(frames, run'.gone, E, Depth)
        BY <1>6, <1>7, <4>4, NotOverridden
      <4>6. E[1] \in 0..Depth
        BY <1>6, WaitsJump, WaitsAway
      <4>7. SameTo(frames, frames', E[1]) /\ "error" \in Ways /\ Depth <= Depth
        BY <1>6, <2>2, <4>6 DEF Ways
      <4>8. QED
        BY <1>2, <1>6, <3>3, <4>3, <4>5, <4>7, Jumping
    <3>4. QED
      BY <1>7, <2>4, <3>2, <3>3
  <2>5. QED
    BY <2>3, <2>4
<1>10. QED
  BY <1>4, <1>8, <1>9, HoldsNext

(* A step after which the statements are what they were, or further in.                *)
LEMMA HoldsFinished ==
    ASSUME TempsInv, LabelType, LabelsInv, PlaceInv, HoldsInv, NEW t \in 1..MaxTemps, Dispose(t), finished
    PROVE  HoldsInv'
<1>1. CodeNext
  BY DEF CodeNext, Expression
<1>2. run.at = Done /\ Done # Here
  BY FunctionLabels DEF PlaceInv, PlaceOk
<1>3. run \in Run /\ Counted({t}) \in SUBSET Nat /\ Temps \subseteq Temps'
  <2>1. t \in scratch
    BY DEF Dispose
  <2>2. t \in Nat
    BY <2>1, OwnFacts DEF Temps
  <2>3. QED
    BY <1>1, <2>2, PlaceFacts, Grown DEF Counted
<1>4. run' = run /\ frames' = frames /\ Depth' = Depth
  <2>1. Clear(run, Counted({t})) = run
    BY <1>2, <1>3, RunClear
  <2>2. QED
    BY <2>1 DEF Dispose, Depth
<1>5. run'.holds \subseteq Temps' /\ run'.gone \subseteq Ref(frames', Depth')
  BY <1>3, <1>4 DEF HoldsInv
<1>6. ~run'.overridden => HeldNext(Counted(scratch)')
  BY <1>2, <1>4 DEF HoldsInv, HeldNext
<1>7. QED
  BY <1>5, <1>6, HoldsNext

LEMMA HoldsDispose ==
    ASSUME TempsInv, LabelType, LabelsInv, PlaceInv, HoldsInv, ~finished, NEW t \in 1..MaxTemps, Dispose(t)
    PROVE  HoldsInv'
<1> DEFINE S == Counted({t})
<1>1. /\ t \in scratch /\ ReleaseTemps({t}) /\ frames' = frames /\ Depth' = Depth /\ scratch' = scratch \ {t}
      /\ run' = Clear(run, S) /\ finished' = finished
  BY DEF Dispose, Depth
<1>2. CodeNext
  BY DEF CodeNext, Expression
<1>3. scratch \subseteq InUse /\ InUse \subseteq Temps /\ Temps \subseteq Nat /\ scratch \cap Own(frames, Depth) = {}
      /\ Depth \in Nat /\ {t} \subseteq InUse
  BY <1>1, OwnFacts DEF Temps
<1>4. kind' = kind
  BY <1>1, <1>3, Released
<1>5. Counted(scratch)' = Counted(scratch) \ S
  BY <1>1, <1>4 DEF Counted
<1>6. S \subseteq Counted(scratch) /\ S \in SUBSET Nat /\ Counted(scratch) \subseteq scratch /\ S \subseteq {t}
  BY <1>1, <1>3 DEF Counted
<1> HIDE DEF S
<1>8. run \in Run /\ run.holds \subseteq Temps /\ run.gone \subseteq Ref(frames, Depth) /\ run.gone \subseteq Own(frames, Depth)
  BY HoldsFacts
<1>9. /\ run'.gone = run.gone /\ (run.at # Here => run' = run) /\ (~run'.overridden => ~run.overridden)
      /\ (run.at = Here => run'.at = Here /\ run'.holds = run.holds \ S)
      /\ (run.at = Here => (run'.fault <=> (run.fault \/ ~ S \subseteq run.holds)))
  <2>1. /\ Clear(run, S).at = run.at /\ Clear(run, S).gone = run.gone
        /\ Clear(run, S).overridden = run.overridden
        /\ (run.at # Here => Clear(run, S) = run)
        /\ (run.at = Here => Clear(run, S).holds = run.holds \ S)
        /\ (run.at = Here => (Clear(run, S).fault <=> (run.fault \/ ~ S \subseteq run.holds)))
    BY <1>6, <1>8, RunClear
  <2>2. QED
    BY <1>1, <2>1
<1>10. run'.holds \subseteq Temps' /\ run'.gone \subseteq Ref(frames', Depth')
  <2>1. Temps \subseteq Temps'
    BY <1>2, Grown
  <2>2. QED
    BY <1>1, <1>8, <1>9, <2>1
<1>11. ASSUME ~run'.overridden PROVE HeldNext(Counted(scratch) \ S)
  <2>1. ~run.overridden
    BY <1>9, <1>11
  <2>2. \A d \in 0..Depth : SameTo(frames, frames', d)
    BY <1>1, SameFrom
  <2>3. CASE run.at # Here
    <3>1. run.at[1] \in 0..Depth
      BY <2>3, HoldsFacts
    <3>2. Stays(run, run', {}) /\ run'.at = run.at
      BY <1>9, <2>3 DEF Stays
    <3>3. SameTo(frames, frames', run.at[1])
      BY <2>2, <3>1
    <3>4. QED
      BY <1>2, <2>1, <2>3, <3>2, <3>3, Waiting
  <2>4. CASE run.at = Here
    <3>1. HeldHere(run, frames, Depth, Counted(scratch))
      BY <2>1, <2>4, HoldsFacts
    <3>2. S \subseteq run.holds /\ S \cap Own(frames, Depth) = {} /\ S \cap run.gone = {}
      <4>1. S \cap Own(frames, Depth) = {} /\ S \cap run.gone = {}
        BY <1>3, <1>6, <1>8
      <4>2. QED
        BY <1>6, <3>1, <4>1 DEF HeldHere, Exact
    <3>3. ~run'.fault /\ run'.holds = run.holds \ S /\ run'.gone = run.gone
      BY <1>9, <2>4, <3>1, <3>2 DEF HeldHere, Exact
    <3>4. HeldHere(run', frames, Depth, Counted(scratch) \ S)
      BY <3>1, <3>2, <3>3 DEF HeldHere, Exact
    <3>5. QED
      BY <1>1, <1>9, <2>4, <3>4 DEF HeldNext
  <2>5. QED
    BY <2>3, <2>4
<1>12. QED
  BY <1>5, <1>10, <1>11, HoldsNext

-----------------------------------------------------------------------------
(* Statements that end what is around them.                                     *)
LEMMA NotBetween ==
    ASSUME TempsInv, Statement
    PROVE  ~(Depth > 0 /\ frames[Depth].node = "except" /\ frames[Depth].stage \in {"handlers", "handled"})
<1>1. Depth > 0 => Top = frames[Depth] /\ frames # <<>>
  BY Frames
<1>2. QED
  BY <1>1 DEF Statement, Between, In

LEMMA HeldStatement ==
    ASSUME TempsInv, LabelType, LabelsInv, PlaceInv, HoldsInv, Statement, run.at = Here, ~run.overridden
    PROVE  /\ HeldHere(run, frames, Depth, {}) /\ GoneUnder(frames, run.gone, Depth) /\ scratch = {}
           /\ ~run.fault /\ run.holds \subseteq Own(frames, Depth) /\ Own(frames, Depth) \ run.gone \subseteq run.holds
           /\ run.holds \cap run.gone = {} /\ CopiesStripped(frames, run.gone, Depth)
<1>1. scratch = {} /\ ~finished
  BY DEF Statement
<1>2. Counted(scratch) = {}
  BY <1>1 DEF Counted
<1>3. HeldHere(run, frames, Depth, {})
  BY <1>1, <1>2, HoldsFacts
<1>4. GoneUnder(frames, run.gone, Depth)
  BY <1>3, NotBetween DEF HeldHere
<1>5. ~run.fault /\ run.holds \subseteq Own(frames, Depth) /\ Own(frames, Depth) \ run.gone \subseteq run.holds
      /\ run.holds \cap run.gone = {} /\ CopiesStripped(frames, run.gone, Depth)
  BY <1>3 DEF HeldHere, Exact
<1>6. QED
  BY <1>1, <1>3, <1>4, <1>5

(* A jump that strips T, which is held, and goes to the label of its way.               *)
LEMMA HoldsStrip ==
    ASSUME TempsInv, LabelType, LabelsInv, PlaceInv, HoldsInv, CodeNext, Statement, scratch' = {},
           UNCHANGED <<kind, free, frames>>, NEW w \in Ways, labels[w] # NoLabel,
           w \in Loops => Looped(frames, Depth),
           NEW T \in SUBSET Nat, T \subseteq Ref(frames, Depth), w \in Loops => T = {},
           w = "return" => Man(frames, Depth) \subseteq T,
           NEW b \in BOOLEAN, ~b => T \cap run.gone = {},
           run' = JumpTo(Strip(Override(run, b), T), labels[w])
    PROVE  HoldsInv'
<1> DEFINE l == labels[w]
           o == Override(run, b)
           r == Strip(o, T)
<1>1. run \in Run /\ Depth \in Nat /\ ~finished /\ Depth' = Depth /\ frames' = frames
      /\ l \in Label /\ LabelOk(frames, l, w, Depth)
  BY PlaceFacts, LabelMarked DEF Statement, Depth
<1> HIDE DEF l
<1>2. /\ o \in Run /\ o.at = run.at /\ o.gone = run.gone
      /\ o.holds = run.holds /\ o.fault = run.fault /\ (run.at # Here => o = run)
      /\ (~o.overridden => ~run.overridden /\ (run.at = Here => ~b))
  BY <1>1, RunOverride
<1> HIDE DEF o
<1>3. /\ r \in Run /\ r.at = o.at /\ r.overridden = o.overridden
      /\ (o.at # Here => r = o)
      /\ (o.at = Here => r.holds = o.holds \ T /\ r.gone = o.gone \cup T)
      /\ (o.at = Here => (r.fault <=> (o.fault \/ ~ T \subseteq o.holds)))
  BY <1>2, RunStrip
<1>4. run' = JumpTo(r, l)
  BY DEF r, o, l
<1> HIDE DEF r
<1>5. /\ run'.at = (IF r.at = Here THEN l ELSE r.at)
      /\ run'.holds = r.holds /\ run'.fault = r.fault /\ run'.gone = r.gone
      /\ (r.at # Here => run' = r)
      /\ Before(r, run') /\ (r.at = Here => Left(r, run', l, Depth))
  BY <1>1, <1>3, <1>4, RunJump
<1>6. run.holds \subseteq Temps /\ run.gone \subseteq Ref(frames, Depth) /\ Temps \subseteq Temps'
  BY <1>1, HoldsFacts, Grown
<1>7. run'.holds \subseteq Temps' /\ run'.gone \subseteq Ref(frames', Depth')
  <2>1. r.holds \subseteq run.holds /\ r.gone \subseteq run.gone \cup T
    BY <1>2, <1>3
  <2>2. QED
    BY <1>1, <1>5, <1>6, <2>1
<1>8. ASSUME ~run'.overridden PROVE HeldNext({})
  <2>1. ~run.overridden /\ ~r.overridden /\ (run.at = Here => ~b)
    BY <1>2, <1>3, <1>5, <1>8 DEF Before
  <2>2. \A d \in 0..Depth : SameTo(frames, frames', d)
    BY <1>1, SameFrom
  <2>3. CASE run.at # Here
    <3>1. run.at[1] \in 0..Depth
      BY <1>1, <2>3, HoldsFacts
    <3>2. Stays(run, run', {}) /\ run'.at = run.at
      BY <1>2, <1>3, <1>5, <2>3 DEF Stays
    <3>3. SameTo(frames, frames', run.at[1])
      BY <2>2, <3>1
    <3>4. QED
      BY <1>1, <2>1, <2>3, <3>2, <3>3, Waiting
  <2>4. CASE run.at = Here
    <3>1. /\ HeldHere(run, frames, Depth, {}) /\ GoneUnder(frames, run.gone, Depth)
          /\ ~run.fault /\ run.holds \subseteq Own(frames, Depth) /\ Own(frames, Depth) \ run.gone \subseteq run.holds
          /\ run.holds \cap run.gone = {} /\ CopiesStripped(frames, run.gone, Depth)
      BY <2>1, <2>4, HeldStatement
    <3>2. T \subseteq Own(frames, Depth)
      BY <1>1, OwnGrows
    <3>3. T \subseteq run.holds
      BY <2>1, <2>4, <3>1, <3>2
    <3>4. /\ run'.at = l /\ run'.holds = run.holds \ T /\ run'.gone = run.gone \cup T /\ ~run'.fault
          /\ Left(r, run', l, Depth) /\ r.gone = run'.gone
      BY <1>2, <1>3, <1>5, <2>4, <3>1, <3>3
    <3>5. Exact(run', Own(frames, Depth)) /\ run'.holds \subseteq Own(frames, Depth)
      BY <3>1, <3>4 DEF Exact
    <3>6. CopiesStripped(frames, run'.gone, Depth)
      BY <3>1, <3>4 DEF CopiesStripped
    <3>7. w \in Loops => GoneUnder(frames, run'.gone, Depth)
      BY <3>1, <3>4
    <3>8. w = "return" => Man(frames, Depth) \subseteq run'.gone
      BY <3>4
    <3>9. HeldTo(run', frames, w, Depth, Counted(Temps)')
      BY <3>5, <3>6, <3>7, <3>8 DEF HeldTo
    <3>10. ~Overrides(r, l, Depth)
      BY <1>8, <3>4 DEF Left
    <3>11. NoWay(frames, run'.gone, l, Depth)
      BY <1>1, <3>4, <3>10, NotOverridden
    <3>12. l[1] \in 0..Depth
      BY <1>1, WaitsJump, WaitsAway
    <3>13. SameTo(frames, frames', l[1]) /\ Depth <= Depth
      BY <1>1, <2>2, <3>12
    <3>14. QED
      BY <1>1, <3>4, <3>9, <3>11, <3>13, Jumping
  <2>5. QED
    BY <2>3, <2>4
<1>9. Counted(scratch)' = {}
  BY DEF Counted
<1>10. QED
  BY <1>7, <1>8, <1>9, HoldsNext

LEMMA StripNothing ==
    ASSUME NEW r \in Run
    PROVE  Strip(r, {}) = r
<1>1. PICK T : T = {}
  OBVIOUS
<1>2. T \in SUBSET Nat
  BY <1>1
<1>3. /\ Strip(r, T) \in Run /\ Strip(r, T).at = r.at /\ Strip(r, T).overridden = r.overridden
      /\ (r.at # Here => Strip(r, T) = r)
      /\ (r.at = Here => Strip(r, T).holds = r.holds \ T /\ Strip(r, T).gone = r.gone \cup T)
      /\ (r.at = Here => (Strip(r, T).fault <=> (r.fault \/ ~ T \subseteq r.holds)))
  BY <1>2, RunStrip
<1>4. \A a, b \in Run : a.at = b.at /\ a.holds = b.holds /\ a.gone = b.gone /\ (a.fault <=> b.fault)
                          /\ (a.overridden <=> b.overridden) => a = b
  BY DEF Run
<1>5. CASE r.at = Here
  <2>1. r.holds \ T = r.holds /\ r.gone \cup T = r.gone /\ T \subseteq r.holds
    BY <1>1
  <2>2. Strip(r, T).holds = r.holds /\ Strip(r, T).gone = r.gone /\ (Strip(r, T).fault <=> r.fault)
    BY <1>3, <1>5, <2>1
  <2>3. Strip(r, T) = r
    BY <1>3, <1>4, <2>2
  <2>4. QED
    BY <1>1, <2>3
<1>6. QED
  BY <1>1, <1>3, <1>5

LEMMA HoldsNowhere ==
    ASSUME HoldsInv, NEW w, JumpNowhere(w)
    PROVE  HoldsInv'
<1>1. run' = NoRun /\ Done # Here
  BY FunctionLabels DEF JumpNowhere
<1>2. run'.at = Done /\ run'.holds = {} /\ run'.gone = {} /\ run'.fault = FALSE
  BY <1>1 DEF NoRun
<1>3. QED
  BY <1>1, <1>2 DEF HoldsInv

LEMMA HoldsBreak ==
    ASSUME TempsInv, LabelType, LabelsInv, PlaceInv, HoldsInv, NEW w \in {"break", "continue"}, BreakOrContinue(w)
    PROVE  HoldsInv'
<1>1. /\ Statement /\ InLoop /\ labels[w] # NoLabel /\ scratch' = {} /\ UNCHANGED <<kind, free, frames>>
      /\ run' = JumpTo(run, labels[w])
  BY DEF BreakOrContinue, Statement, temps
<1>2. CodeNext
  BY DEF CodeNext, Jump
<1>3. w \in Ways /\ w \in Loops /\ w # "return"
  BY DEF Ways, Loops
<1>4. Looped(frames, Depth)
  BY <1>1, Frames DEF InLoop, Looped, LoopBody, Depth
<1>5. run = Strip(Override(run, FALSE), {})
  <2>1. run \in Run
    BY PlaceFacts
  <2>2. Override(run, FALSE) = run
    BY DEF Override
  <2>3. Strip(run, {}) = run
    BY <2>1, StripNothing
  <2>6. QED
    BY <2>2, <2>3
<1>6. {} \in SUBSET Nat /\ {} \subseteq Ref(frames, Depth) /\ {} \cap run.gone = {} /\ FALSE \in BOOLEAN
  OBVIOUS
<1>7. run' = JumpTo(Strip(Override(run, FALSE), {}), labels[w])
  BY <1>1, <1>5
<1>8. QED
  BY <1>1, <1>2, <1>3, <1>4, <1>6, <1>7, HoldsStrip

LEMMA HoldsReturn ==
    ASSUME TempsInv, LabelType, LabelsInv, PlaceInv, HoldsInv, Return
    PROVE  HoldsInv'
<1>1. /\ Statement /\ scratch' = {} /\ scratch = {} /\ UNCHANGED <<kind, free, frames>>
      /\ run' = JumpTo(Strip(Override(run, run.gone # {}), Counted(InUse)), labels["return"])
  BY DEF Return, Statement, temps
<1>2. CodeNext
  BY DEF CodeNext, Jump
<1>3. "return" \in Ways /\ "return" \notin Loops /\ labels["return"] # NoLabel
  BY DEF Ways, Loops, LabelsInv, LabelsHold, LabelsOk
<1>4. Counted(InUse) = Man(frames, Depth)
  <2>1. InUse = Own(frames, Depth)
    BY <1>1, OwnFacts
  <2>2. Man(frames, Depth) \subseteq Own(frames, Depth)
    BY OwnFacts, OwnGrows
  <2>3. QED
    BY <2>1, <2>2, OwnFacts DEF Counted
<1>5. Man(frames, Depth) \subseteq Ref(frames, Depth) /\ Counted(InUse) \in SUBSET Nat
  BY OwnFacts, OwnGrows, PlaceFacts
<1>6. (run.gone # {}) \in BOOLEAN /\ (~(run.gone # {}) => Counted(InUse) \cap run.gone = {})
  OBVIOUS
<1>7. QED
  BY <1>1, <1>2, <1>3, <1>4, <1>5, <1>6, HoldsStrip

LEMMA ExcOwned ==
    ASSUME TempsInv, LabelType, LabelsInv
    PROVE  excVars \subseteq Ref(frames, Depth)
<1>1. ExcOk(frames, excVars, Depth) /\ excVars \subseteq Nat
  BY DEF LabelsInv, LabelsHold, LabelType
<1>2. QED
  BY <1>1 DEF ExcOk, Ref

LEMMA HoldsReraise ==
    ASSUME TempsInv, LabelType, LabelsInv, PlaceInv, HoldsInv, Reraise
    PROVE  HoldsInv'
<1>1. /\ Statement /\ scratch' = {} /\ UNCHANGED <<kind, free, frames>>
      /\ run' = JumpTo(Strip(Override(run, excVars \cap run.gone # {}), excVars), labels["error"])
  BY DEF Reraise, Statement, temps
<1>2. CodeNext
  BY DEF CodeNext, Jump
<1>3. "error" \in Ways /\ "error" \notin Loops /\ labels["error"] # NoLabel /\ "error" # "return"
  BY DEF Ways, Loops, LabelsInv, LabelsHold, LabelsOk
<1>4. excVars \subseteq Ref(frames, Depth) /\ excVars \in SUBSET Nat
  BY ExcOwned, PlaceFacts
<1>5. (excVars \cap run.gone # {}) \in BOOLEAN /\ (~(excVars \cap run.gone # {}) => excVars \cap run.gone = {})
  OBVIOUS
<1>6. QED
  BY <1>1, <1>2, <1>3, <1>4, <1>5, HoldsStrip

-----------------------------------------------------------------------------
(* Statements begin.                                                           *)
SameOwn(fs, gs, n) ==
    \A i \in 1..n : /\ gs[i].temps = fs[i].temps /\ gs[i].node = fs[i].node
                    /\ (IsCopy(gs[i], "return") <=> IsCopy(fs[i], "return"))
                    /\ (IsCopy(gs[i], "except") <=> IsCopy(fs[i], "except"))

LEMMA OwnAlike ==
    ASSUME NEW fs, NEW gs, NEW n \in Nat, SameOwn(fs, gs, n)
    PROVE  /\ \A d \in 0..n : Own(gs, d) = Own(fs, d) /\ Man(gs, d) = Man(fs, d) /\ Ref(gs, d) = Ref(fs, d)
           /\ \A gone : \A d \in 0..n : GoneUnder(fs, gone, d) => GoneUnder(gs, gone, d)
           /\ \A gone : \A d \in 0..n : CopiesStripped(fs, gone, d) => CopiesStripped(gs, gone, d)
<1>1. ASSUME NEW d \in 0..n PROVE Own(gs, d) = Own(fs, d) /\ Man(gs, d) = Man(fs, d) /\ Ref(gs, d) = Ref(fs, d)
  <2>1. \A i \in 1..d : i \in 1..n
    OBVIOUS
  <2>2. QED
    BY <2>1 DEF SameOwn, Own, Man, Ref
<1>2. ASSUME NEW d \in 0..n, NEW c \in 1..d
      PROVE  /\ Own(gs, c - 1) = Own(fs, c - 1) /\ Man(gs, c - 1) = Man(fs, c - 1)
             /\ (IsCopy(gs[c], "return") <=> IsCopy(fs[c], "return"))
             /\ (IsCopy(gs[c], "except") <=> IsCopy(fs[c], "except"))
  <2>1. c - 1 \in 0..n /\ c \in 1..n
    OBVIOUS
  <2>2. QED
    BY <1>1, <2>1 DEF SameOwn
<1>3. ASSUME NEW gone, NEW d \in 0..n, GoneUnder(fs, gone, d) PROVE GoneUnder(gs, gone, d)
  BY <1>2, <1>3 DEF GoneUnder
<1>4. ASSUME NEW gone, NEW d \in 0..n, CopiesStripped(fs, gone, d) PROVE CopiesStripped(gs, gone, d)
  BY <1>2, <1>4 DEF CopiesStripped
<1>5. QED
  BY <1>1, <1>3, <1>4

LEMMA HerePush ==
    ASSUME NEW r, NEW s, NEW fs, NEW gs, NEW n \in Nat, SameOwn(fs, gs, n),
           HeldHere(r, fs, n, {}), GoneUnder(fs, r.gone, n),
           NEW T \in SUBSET Nat, gs[n + 1].temps = T, gs[n + 1].stage = "body", T \cap r.gone = {},
           s.holds = r.holds \cup T, ~s.fault, s.gone = r.gone
    PROVE  /\ HeldHere(s, gs, n + 1, {}) /\ GoneUnder(gs, s.gone, n) /\ CopiesStripped(gs, s.gone, n)
           /\ Exact(s, Own(gs, n + 1)) /\ s.holds \subseteq Own(gs, n + 1)
<1>1. n \in 0..n
  OBVIOUS
<1>2. Own(gs, n) = Own(fs, n) /\ GoneUnder(gs, s.gone, n) /\ CopiesStripped(gs, s.gone, n)
  BY <1>1, OwnAlike DEF HeldHere
<1>3. Own(gs, n + 1) = Own(gs, n) \cup T
  BY OwnLast
<1>4. ~IsCopy(gs[n + 1], "return")
  BY DEF IsCopy
<1>5. n + 1 \in Nat /\ n <= n + 1
  OBVIOUS
<1>6. GoneUnder(gs, s.gone, n + 1) /\ CopiesStripped(gs, s.gone, n + 1)
  BY <1>2, <1>4, <1>5, OwnGrows, WaysLast
<1>7. Exact(s, Own(gs, n + 1)) /\ s.holds \subseteq Own(gs, n + 1)
  BY <1>2, <1>3 DEF HeldHere, Exact
<1>8. Exact(s, {} \cup Own(gs, n + 1)) /\ s.holds \subseteq {} \cup Own(gs, n + 1)
  BY <1>7 DEF Exact
<1>9. QED
  BY <1>2, <1>6, <1>7, <1>8 DEF HeldHere

LEMMA PushFacts ==
    ASSUME TempsInv, NEW node, NEW T, T \subseteq Nat, Opens(frames, node, T)
    PROVE  /\ SameOwn(frames, frames', Depth) /\ frames'[Depth + 1].temps = T /\ frames'[Depth + 1].stage = "body"
           /\ Depth' = Depth + 1 /\ Ref(frames, Depth) \subseteq Ref(frames', Depth')
           /\ \A d \in 0..Depth : SameTo(frames, frames', d)
<1>1. /\ Depth' = Depth + 1 /\ (\A i \in 1..Depth : frames'[i] = frames[i])
      /\ frames'[Depth + 1].temps = T /\ frames'[Depth + 1].stage = "body" /\ Depth \in Nat
  BY OwnFacts DEF Opens
<1>2. SameOwn(frames, frames', Depth)
  BY <1>1 DEF SameOwn
<1>3. Ref(frames', Depth) = Ref(frames, Depth)
  <2>1. Depth \in 0..Depth
    BY <1>1
  <2>2. QED
    BY <1>1, <1>2, <2>1, OwnAlike
<1>4. Ref(frames', Depth) \subseteq Ref(frames', Depth + 1)
  <2>1. Depth + 1 \in Nat /\ Depth <= Depth + 1
    BY <1>1
  <2>2. QED
    BY <1>1, <2>1, OwnGrows
<1>5. QED
  BY <1>1, <1>2, <1>3, <1>4, SameFrom

(* A temporary that is new is not held, and was not released.                       *)
LEMMA NewTemp ==
    ASSUME TempsInv, LabelType, LabelsInv, PlaceInv, HoldsInv, NEW k \in Kind, NEW t, AllocateTemp(t, k), Statement
    PROVE  /\ {t} \in SUBSET Nat /\ {t} \subseteq Temps' /\ {t} \cap run.gone = {}
           /\ run.at = Here /\ ~run.overridden => {t} \cap run.holds = {}
<1>1. Grows({t}) /\ t \in Nat /\ t \notin InUse
  BY Allocated
<1>2. run.gone \subseteq InUse /\ Own(frames, Depth) \subseteq InUse
  BY HoldsFacts, OwnFacts DEF Statement
<1>3. run.at = Here /\ ~run.overridden => run.holds \subseteq Own(frames, Depth)
  BY HeldStatement
<1>4. QED
  BY <1>1, <1>2, <1>3 DEF Grows

LEMMA TakeNothing ==
    ASSUME NEW r \in Run
    PROVE  Take(r, {}) = r
<1>1. PICK T : T = {}
  OBVIOUS
<1>2. T \in SUBSET Nat
  BY <1>1
<1>3. /\ Take(r, T) \in Run /\ Take(r, T).at = r.at /\ Take(r, T).overridden = r.overridden /\ Take(r, T).gone = r.gone
      /\ (r.at # Here => Take(r, T) = r)
      /\ (r.at = Here => Take(r, T).holds = r.holds \cup T)
      /\ (r.at = Here => (Take(r, T).fault <=> (r.fault \/ T \cap r.holds # {})))
  BY <1>2, RunTake
<1>4. \A a, b \in Run : a.at = b.at /\ a.holds = b.holds /\ a.gone = b.gone /\ (a.fault <=> b.fault)
                          /\ (a.overridden <=> b.overridden) => a = b
  BY DEF Run
<1>5. CASE r.at = Here
  <2>1. r.holds \cup T = r.holds /\ T \cap r.holds = {}
    BY <1>1
  <2>2. Take(r, T).holds = r.holds /\ (Take(r, T).fault <=> r.fault)
    BY <1>3, <1>5, <2>1
  <2>3. Take(r, T) = r
    BY <1>3, <1>4, <2>2
  <2>4. QED
    BY <1>1, <2>3
<1>6. QED
  BY <1>1, <1>3, <1>5

(* A statement begins here that takes T, or the execution goes to an inner label.        *)
LEMMA HoldsBegin ==
    ASSUME TempsInv, LabelType, LabelsInv, PlaceInv, HoldsInv, CodeNext, Statement, scratch' = {},
           NEW T \in SUBSET Nat, T \subseteq Temps', T \cap run.gone = {},
           run.at = Here /\ ~run.overridden => T \cap run.holds = {},
           NEW node, Opens(frames, node, T), run' = Take(run, T)
    PROVE  HoldsInv'
<1>1. run \in Run /\ ~finished /\ Depth \in Nat
  BY PlaceFacts DEF Statement
<1>2. /\ Take(run, T).at = run.at /\ Take(run, T).gone = run.gone
      /\ Take(run, T).overridden = run.overridden
      /\ (run.at # Here => Take(run, T) = run)
      /\ (run.at = Here => Take(run, T).holds = run.holds \cup T)
      /\ (run.at = Here => (Take(run, T).fault <=> (run.fault \/ T \cap run.holds # {})))
  BY <1>1, RunTake
<1>3. /\ run'.at = run.at /\ run'.gone = run.gone /\ run'.overridden = run.overridden
      /\ (run.at # Here => run' = run)
      /\ (run.at = Here => run'.holds = run.holds \cup T)
      /\ (run.at = Here => (run'.fault <=> (run.fault \/ T \cap run.holds # {})))
  BY <1>2
<1>4. /\ SameOwn(frames, frames', Depth) /\ frames'[Depth + 1].temps = T /\ frames'[Depth + 1].stage = "body"
      /\ Depth' = Depth + 1 /\ Ref(frames, Depth) \subseteq Ref(frames', Depth')
      /\ \A d \in 0..Depth : SameTo(frames, frames', d)
  BY PushFacts
<1>5. run.holds \subseteq Temps /\ run.gone \subseteq Ref(frames, Depth) /\ Temps \subseteq Temps'
  BY <1>1, HoldsFacts, Grown
<1>6. run'.holds \subseteq Temps' /\ run'.gone \subseteq Ref(frames', Depth')
  BY <1>3, <1>4, <1>5
<1>7. ASSUME ~run'.overridden PROVE HeldNext({})
  <2>1. ~run.overridden
    BY <1>3, <1>7
  <2>2. CASE run.at # Here
    <3>1. run.at[1] \in 0..Depth
      BY <1>1, <2>2, HoldsFacts
    <3>2. Stays(run, run', {}) /\ run'.at = run.at
      BY <1>3, <2>2 DEF Stays
    <3>3. SameTo(frames, frames', run.at[1])
      BY <1>4, <3>1
    <3>4. QED
      BY <1>1, <2>1, <2>2, <3>2, <3>3, Waiting
  <2>3. CASE run.at = Here
    <3>1. HeldHere(run, frames, Depth, {}) /\ GoneUnder(frames, run.gone, Depth) /\ ~run.fault
      BY <2>1, <2>3, HeldStatement
    <3>2. run'.holds = run.holds \cup T /\ ~run'.fault
      BY <1>3, <2>1, <2>3, <3>1
    <3>3. HeldHere(run', frames', Depth + 1, {})
      BY <1>1, <1>3, <1>4, <3>1, <3>2, HerePush
    <3>4. QED
      BY <1>3, <1>4, <2>3, <3>3 DEF HeldNext
  <2>4. QED
    BY <2>2, <2>3
<1>8. Counted(scratch)' = {}
  BY DEF Counted
<1>9. QED
  BY <1>6, <1>7, <1>8, HoldsNext

LEMMA HoldsTryBegin ==
    ASSUME TempsInv, LabelType, LabelsInv, PlaceInv, HoldsInv, NEW t \in 1..MaxTemps, TryBegin(t)
    PROVE  HoldsInv'
<1>1. /\ Statement /\ ~finished /\ scratch = {} /\ scratch' = {} /\ AllocateTemp(t, Plain) /\ Plain \in Kind
      /\ run' = Take(run, {t})
  BY KindAssumption DEF TryBegin, Statement
<1>2. CodeNext
  BY DEF CodeNext, TryExcept
<1>3. {t} \in SUBSET Nat /\ {t} \subseteq Temps' /\ {t} \cap run.gone = {}
      /\ (run.at = Here /\ ~run.overridden => {t} \cap run.holds = {})
  BY <1>1, NewTemp
<1>4. Opens(frames, "except", {t})
  BY Begins
<1>5. QED
  BY <1>1, <1>2, <1>3, <1>4, HoldsBegin

LEMMA HoldsFinallyBegin ==
    ASSUME TempsInv, LabelType, LabelsInv, PlaceInv, HoldsInv, FinallyBegin
    PROVE  HoldsInv'
<1>1. /\ Statement /\ ~finished /\ scratch = {} /\ scratch' = {} /\ run' = run
  BY DEF FinallyBegin, Statement
<1>2. CodeNext
  BY DEF CodeNext, TryFinally
<1>3. {} \in SUBSET Nat /\ {} \subseteq Temps' /\ {} \cap run.gone = {} /\ {} \cap run.holds = {}
  OBVIOUS
<1>4. Opens(frames, "finally", {})
  BY Begins
<1>5. Take(run, {}) = run
  <2>1. run \in Run
    BY PlaceFacts
  <2>2. QED
    BY <2>1, TakeNothing
<1>6. QED
  BY <1>1, <1>2, <1>3, <1>4, <1>5, HoldsBegin

LEMMA HoldsForBegin ==
    ASSUME TempsInv, LabelType, LabelsInv, PlaceInv, HoldsInv, NEW t \in 1..MaxTemps, NEW k \in Kind, ForBegin(t, k)
    PROVE  HoldsInv'
<1> DEFINE T == {t}
           a == Take(run, T)
           X == <<Depth + 1, "for", "exhausted">>
           E == labels["error"]
<1>1. /\ Statement /\ ~finished /\ scratch = {} /\ scratch' = {} /\ AllocateTemp(t, k)
      /\ run' \in {a, JumpTo(a, X), JumpTo(run, E)}
  BY DEF ForBegin, Statement
<1>2. CodeNext
  BY DEF CodeNext, Loop
<1>3. /\ T \in SUBSET Nat /\ T \subseteq Temps' /\ T \cap run.gone = {}
      /\ (run.at = Here /\ ~run.overridden => T \cap run.holds = {})
  BY <1>1, NewTemp
<1>4. Opens(frames, "for", T) /\ Depth \in Nat
  BY Begins, OwnFacts
<1>5. run \in Run /\ E \in Label /\ LabelOk(frames, E, "error", Depth) /\ "error" \in Ways
  BY PlaceFacts, ErrorMarked DEF Ways
<1>6. /\ X \in Label /\ X # Here /\ X # Done /\ X[1] = Depth + 1 /\ X[2] = "for" /\ X[3] = "exhausted"
  <2>1. "for" \in Groups /\ "exhausted" \in Names /\ Depth + 1 \in Nat /\ Depth + 1 > 0
    BY <1>4 DEF Groups, Names
  <2>2. QED
    BY <2>1, Tuples
<1>7. /\ SameOwn(frames, frames', Depth) /\ frames'[Depth + 1].temps = T /\ frames'[Depth + 1].stage = "body"
      /\ Depth' = Depth + 1 /\ Ref(frames, Depth) \subseteq Ref(frames', Depth')
      /\ \A d \in 0..Depth : SameTo(frames, frames', d)
  BY <1>3, <1>4, PushFacts
<1> HIDE DEF T, X, E, a
<1>8. /\ a \in Run /\ a.at = run.at /\ a.gone = run.gone /\ a.overridden = run.overridden
      /\ (run.at # Here => a = run)
      /\ (run.at = Here => a.holds = run.holds \cup T)
      /\ (run.at = Here => (a.fault <=> (run.fault \/ T \cap run.holds # {})))
  BY <1>3, <1>5, RunTake DEF a
<1>9. /\ JumpTo(a, X).at = (IF a.at = Here THEN X ELSE a.at)
      /\ JumpTo(a, X).holds = a.holds /\ JumpTo(a, X).fault = a.fault /\ JumpTo(a, X).gone = a.gone
      /\ (a.at # Here => JumpTo(a, X) = a) /\ Before(a, JumpTo(a, X))
  BY <1>6, <1>8, RunJump
<1>10. /\ JumpTo(run, E).at = (IF run.at = Here THEN E ELSE run.at)
       /\ JumpTo(run, E).holds = run.holds /\ JumpTo(run, E).fault = run.fault /\ JumpTo(run, E).gone = run.gone
       /\ (run.at # Here => JumpTo(run, E) = run) /\ Before(run, JumpTo(run, E))
       /\ (run.at = Here => Left(run, JumpTo(run, E), E, Depth))
  BY <1>5, RunJump
<1>11. /\ run'.gone = run.gone /\ (run.at # Here => run' = run) /\ (~run'.overridden => ~run.overridden)
       /\ run'.holds \subseteq run.holds \cup T
  BY <1>1, <1>8, <1>9, <1>10 DEF Before
<1>12. ASSUME run.at = Here
       PROVE  \/ run'.at \in {Here, X} /\ run'.holds = run.holds \cup T
                 /\ (run'.fault <=> (run.fault \/ T \cap run.holds # {}))
              \/ run'.at = E /\ run'.holds = run.holds /\ (run'.fault <=> run.fault) /\ Left(run, run', E, Depth)
  <2>1. CASE run' = a
    BY <1>8, <1>12, <2>1
  <2>2. CASE run' = JumpTo(a, X)
    BY <1>8, <1>9, <1>12, <2>2
  <2>3. CASE run' = JumpTo(run, E)
    BY <1>10, <1>12, <2>3
  <2>4. QED
    BY <1>1, <2>1, <2>2, <2>3
<1>13. run.holds \subseteq Temps /\ run.gone \subseteq Ref(frames, Depth) /\ Temps \subseteq Temps'
  BY <1>1, <1>2, HoldsFacts, Grown
<1>14. run'.holds \subseteq Temps' /\ run'.gone \subseteq Ref(frames', Depth')
  BY <1>3, <1>7, <1>11, <1>13
<1>15. ASSUME ~run'.overridden PROVE HeldNext({})
  <2>1. ~run.overridden
    BY <1>11, <1>15
  <2>2. CASE run.at # Here
    <3>1. run.at[1] \in 0..Depth
      BY <1>1, <2>2, HoldsFacts
    <3>2. Stays(run, run', {}) /\ run'.at = run.at
      BY <1>11, <2>2 DEF Stays
    <3>3. SameTo(frames, frames', run.at[1])
      BY <1>7, <3>1
    <3>4. QED
      BY <1>1, <1>2, <2>1, <2>2, <3>2, <3>3, Waiting
  <2>3. CASE run.at = Here
    <3>1. HeldHere(run, frames, Depth, {}) /\ GoneUnder(frames, run.gone, Depth) /\ ~run.fault
      BY <1>1, <2>1, <2>3, HeldStatement
    <3>2. CASE run'.at \in {Here, X} /\ run'.holds = run.holds \cup T
                 /\ (run'.fault <=> (run.fault \/ T \cap run.holds # {}))
      <4>1. ~run'.fault
        BY <1>3, <2>1, <2>3, <3>1, <3>2
      <4>2. /\ HeldHere(run', frames', Depth + 1, {}) /\ GoneUnder(frames', run'.gone, Depth)
            /\ CopiesStripped(frames', run'.gone, Depth)
            /\ Exact(run', Own(frames', Depth + 1)) /\ run'.holds \subseteq Own(frames', Depth + 1)
        BY <1>3, <1>4, <1>7, <1>11, <3>1, <3>2, <4>1, HerePush
      <4>3. CASE run'.at = Here
        BY <1>7, <4>2, <4>3 DEF HeldNext
      <4>4. CASE run'.at = X
        <5>1. ~Bare(X)
          BY <1>6 DEF Bare
        <5>2. Level(X) = Depth + 1 /\ X[1] - 1 = Depth
          BY <1>4, <1>6, <5>1, Levels
        <5>3. HeldAt(run', frames', X, Counted(Temps)')
          BY <1>6, <4>2, <5>2 DEF HeldAt
        <5>4. QED
          BY <1>6, <4>4, <5>3 DEF HeldNext
      <4>5. QED
        BY <3>2, <4>3, <4>4
    <3>3. CASE run'.at = E /\ run'.holds = run.holds /\ (run'.fault <=> run.fault) /\ Left(run, run', E, Depth)
      <4>1. HeldHere(run', frames, Depth, {}) /\ {} \subseteq Counted(Temps)'
        BY <1>11, <3>1, <3>3 DEF HeldHere, Exact
      <4>3. HeldTo(run', frames, "error", Depth, Counted(Temps)')
        BY <4>1, HeldLeave
      <4>4. ~Overrides(run, E, Depth)
        BY <1>15, <3>3 DEF Left
      <4>5. NoWay(frames, run'.gone, E, Depth)
        <5>1. Depth \in 0..Depth /\ run'.gone \subseteq run.gone
          BY <1>4, <1>11
        <5>2. QED
          BY <1>4, <4>4, <5>1, NotOverridden
      <4>6. E[1] \in 0..Depth
        BY <1>4, <1>5, WaitsJump, WaitsAway
      <4>7. SameTo(frames, frames', E[1]) /\ Depth <= Depth
        BY <1>4, <1>7, <4>6
      <4>8. QED
        BY <1>2, <1>1, <1>4, <1>5, <3>3, <4>3, <4>5, <4>7, Jumping
    <3>4. QED
      BY <1>12, <2>3, <3>2, <3>3
  <2>4. QED
    BY <2>2, <2>3
<1>16. Counted(scratch)' = {}
  BY <1>1 DEF Counted
<1>17. QED
  BY <1>14, <1>15, <1>16, HoldsNext

-----------------------------------------------------------------------------
(* Statements go on.                                                           *)
LEMMA BelowFacts ==
    ASSUME TempsInv, Depth > 0, \A i \in 1..(Depth - 1) : frames'[i] = frames[i]
    PROVE  /\ Depth - 1 \in Nat /\ Depth \in Nat /\ Depth = (Depth - 1) + 1
           /\ \A d \in 0..(Depth - 1) : /\ SameTo(frames, frames', d) /\ Own(frames', d) = Own(frames, d)
                                        /\ Man(frames', d) = Man(frames, d) /\ Ref(frames', d) = Ref(frames, d)
           /\ Own(frames', Depth - 1) = Own(frames, Depth - 1) /\ Man(frames', Depth - 1) = Man(frames, Depth - 1)
           /\ Ref(frames', Depth - 1) = Ref(frames, Depth - 1)
           /\ \A gone : GoneUnder(frames, gone, Depth - 1) <=> GoneUnder(frames', gone, Depth - 1)
           /\ \A gone : CopiesStripped(frames, gone, Depth - 1) <=> CopiesStripped(frames', gone, Depth - 1)
<1>1. Depth - 1 \in Nat /\ Depth \in Nat /\ Depth = (Depth - 1) + 1
  BY OwnFacts
<1>2. \A d \in 0..(Depth - 1) : SameTo(frames, frames', d)
  BY SameFrom
<1> DEFINE n == Depth - 1
           gs == frames'
<1>3. n \in Nat /\ \A i \in 1..n : gs[i] = frames[i]
  BY <1>1
<1>4. n = Depth - 1 /\ gs = frames' /\ n \in 0..n
  BY <1>3
<1> HIDE DEF n, gs
<1>5. \A d \in 0..n : Own(gs, d) = Own(frames, d) /\ Man(gs, d) = Man(frames, d) /\ Ref(gs, d) = Ref(frames, d)
  BY <1>3, OwnSame
<1>6. /\ \A gone : GoneUnder(frames, gone, n) <=> GoneUnder(gs, gone, n)
      /\ \A gone : CopiesStripped(frames, gone, n) <=> CopiesStripped(gs, gone, n)
  BY <1>3, WaysSame
<1>7. Own(gs, n) = Own(frames, n) /\ Man(gs, n) = Man(frames, n) /\ Ref(gs, n) = Ref(frames, n)
  BY <1>4, <1>5
<1>8. QED
  BY <1>1, <1>2, <1>4, <1>5, <1>6, <1>7

LEMMA GoFacts ==
    ASSUME TempsInv, NEW s, NEW T \in SUBSET Nat, NEW C, NEW W, TopGoes(s, T, C, W)
    PROVE  /\ Depth > 0 /\ Depth' = Depth /\ (\A i \in 1..(Depth - 1) : frames'[i] = frames[i])
           /\ frames'[Depth].node = Top.node /\ frames'[Depth].stage = s /\ frames'[Depth].temps = T
           /\ frames'[Depth].clean = C
           /\ Own(frames', Depth) = Own(frames, Depth - 1) \cup T
           /\ (Top.node \notin {"for", "clause"} => Man(frames', Depth) = Man(frames, Depth - 1))
           /\ (Top.node \in {"for", "clause"} => Man(frames', Depth) = Man(frames, Depth - 1) \cup T)
           /\ Ref(frames, Depth - 1) \subseteq Ref(frames', Depth)
           /\ (Top.node \in {"for", "clause"} => T \subseteq Ref(frames', Depth))
           /\ \A gone : GoneUnder(frames, gone, Depth - 1) => GoneUnder(frames', gone, Depth)
           /\ \A gone : CopiesStripped(frames, gone, Depth - 1) /\ s # "return" => CopiesStripped(frames', gone, Depth)
<1>1. /\ Depth > 0 /\ Depth' = Depth /\ (\A i \in 1..(Depth - 1) : frames'[i] = frames[i])
      /\ frames'[Depth].node = Top.node /\ frames'[Depth].stage = s /\ frames'[Depth].temps = T
      /\ frames'[Depth].clean = C
  BY DEF TopGoes
<1> DEFINE n == Depth - 1
           gs == frames'
<1>2. n \in Nat /\ Depth = n + 1 /\ gs[n + 1].temps = T /\ gs[n + 1].node = Top.node /\ gs[n + 1].stage = s
      /\ n <= n + 1 /\ n + 1 \in Nat
  BY <1>1, BelowFacts
<1>3. /\ Own(gs, n) = Own(frames, n) /\ Man(gs, n) = Man(frames, n) /\ Ref(gs, n) = Ref(frames, n)
      /\ \A gone : GoneUnder(frames, gone, n) <=> GoneUnder(gs, gone, n)
      /\ \A gone : CopiesStripped(frames, gone, n) <=> CopiesStripped(gs, gone, n)
  BY <1>1, BelowFacts
<1>4. n = Depth - 1 /\ gs = frames'
  OBVIOUS
<1> HIDE DEF n, gs
<1>5. gs[n + 1].temps \subseteq Nat
  BY <1>2
<1>6. /\ Own(gs, n + 1) = Own(gs, n) \cup gs[n + 1].temps
      /\ (gs[n + 1].node \notin {"for", "clause"} => Man(gs, n + 1) = Man(gs, n))
      /\ (gs[n + 1].node \in {"for", "clause"} => Man(gs, n + 1) = Man(gs, n) \cup gs[n + 1].temps)
      /\ (gs[n + 1].node \in {"for", "clause"} \/ IsCopy(gs[n + 1], "except") =>
             Ref(gs, n + 1) = Ref(gs, n) \cup gs[n + 1].temps)
      /\ Ref(gs, n) \subseteq Ref(gs, n + 1)
  BY <1>2, <1>5, OwnLast, OwnGrows
<1>7. \A gone : GoneUnder(frames, gone, n) => GoneUnder(gs, gone, n + 1)
  BY <1>2, <1>3, OwnGrows
<1>8. ASSUME s # "return", NEW gone, CopiesStripped(frames, gone, n) PROVE CopiesStripped(gs, gone, n + 1)
  <2>1. ~IsCopy(gs[n + 1], "return")
    BY <1>2, <1>8 DEF IsCopy
  <2>2. CopiesStripped(gs, gone, n)
    BY <1>3, <1>8
  <2>3. QED
    BY <1>2, <2>1, <2>2, WaysLast
<1>9. QED
  BY <1>1, <1>2, <1>3, <1>4, <1>6, <1>7, <1>8

(* The execution waits at a label of the statement that goes on.                     *)
LEMMA WaitingTop ==
    ASSUME TempsInv, LabelType, LabelsInv, PlaceInv, HoldsInv, CodeNext, ~finished, ~run.overridden,
           NEW s, NEW T \in SUBSET Nat, NEW C, NEW W, TopGoes(s, T, C, W),
           run.at # Here, run.at[1] = Depth, run'.at = run.at, NEW G, Stays(run, run', G),
           G \cap Own(frames, Level(run.at)) = {}, G \cap Man(frames, Depth) = {},
           T = Top.temps \/ (Bare(run.at) /\ Top.node \notin {"for", "clause"}),
           run.at[2] \in {"try", "finally"} /\ run.at[3] = "error" /\ s # "body" =>
              run.holds \subseteq Own(frames, Level(run.at)) \cup C,
           NEW m
    PROVE  HeldNext(m)
<1> DEFINE n == Depth - 1
           k == Depth
<1>1. /\ HeldAt(run, frames, run.at, Counted(Temps)) /\ run.at \in Label /\ run.at # Done
  BY HoldsFacts
<1>2. Counted(Temps) \subseteq Counted(Temps)'
  BY Grown
<1>3. Depth > 0 /\ Depth' = Depth /\ (\A i \in 1..(Depth - 1) : frames'[i] = frames[i])
      /\ frames'[k].node = Top.node /\ frames'[k].stage = s /\ frames'[k].temps = T /\ frames'[k].clean = C
  BY GoFacts
<1>4. n \in Nat /\ k = n + 1 /\ SameTo(frames, frames', n) /\ Top = frames[k] /\ Top.temps \subseteq Nat
  <2>1. n \in Nat /\ n \in 0..n /\ k = n + 1
    BY <1>3, BelowFacts
  <2>2. QED
    BY <1>3, <2>1, BelowFacts, OwnTop
<1>5. StaysPut(frames, frames', k, run.at)
  BY <1>3, <1>4 DEF StaysPut
<1>6. run.at[2] \in {"try", "finally"} /\ run.at[3] = "error" /\ frames'[k].stage # "body" =>
              run.holds \subseteq Own(frames, Level(run.at)) \cup frames'[k].clean
  BY <1>3
<1>7. k = run.at[1]
  OBVIOUS
<1> HIDE DEF n, k
<1>8. G \cap Man(frames, k) = {}
  BY DEF k
<1>9. HeldAt(run', frames', run.at, Counted(Temps)')
  BY <1>1, <1>2, <1>4, <1>5, <1>6, <1>7, <1>8, HeldLift
<1>10. QED
  BY <1>1, <1>9 DEF HeldNext

-----------------------------------------------------------------------------
(* What is held at the innermost statement, here or at a label of its own.            *)
LEMMA TopHere ==
    ASSUME TempsInv, LabelType, LabelsInv, PlaceInv, HoldsInv, Statement, Depth > 0, run.at = Here, ~run.overridden
    PROVE  /\ Exact(run, Own(frames, Depth)) /\ run.holds \subseteq Own(frames, Depth)
           /\ GoneUnder(frames, run.gone, Depth) /\ Top.temps \cap run.gone = {} /\ Top.temps \subseteq run.holds
           /\ CopiesStripped(frames, run.gone, Depth) /\ CopiesStripped(frames, run.gone, Depth - 1)
           /\ (~IsCopy(Top, "return") /\ ~IsCopy(Top, "except") => GoneUnder(frames, run.gone, Depth - 1))
           /\ (IsCopy(Top, "return") => Man(frames, Depth - 1) \subseteq run.gone)
<1>1. /\ ~run.fault /\ run.holds \subseteq Own(frames, Depth) /\ Own(frames, Depth) \ run.gone \subseteq run.holds
      /\ run.holds \cap run.gone = {} /\ CopiesStripped(frames, run.gone, Depth) /\ GoneUnder(frames, run.gone, Depth)
  BY HeldStatement
<1>2. Exact(run, Own(frames, Depth))
  BY <1>1 DEF Exact
<1>3. /\ Depth - 1 \in Nat /\ Top = frames[Depth] /\ Own(frames, Depth) = Own(frames, Depth - 1) \cup Top.temps
      /\ Top.temps \cap run.gone = {}
  BY <1>1, OwnTop
<1>4. Depth \in Nat /\ Depth = (Depth - 1) + 1 /\ Depth \in 1..Depth
  BY Frames
<1>5. CopiesStripped(frames, run.gone, Depth - 1)
  <2>1. Depth \in Nat /\ Depth - 1 <= Depth
    BY <1>4
  <2>2. QED
    BY <1>1, <1>3, <2>1, OwnGrows
<1>6. ASSUME ~IsCopy(Top, "return"), ~IsCopy(Top, "except") PROVE GoneUnder(frames, run.gone, Depth - 1)
  <2>1. PICK n \in Nat : n = Depth - 1 /\ Depth = n + 1
    BY <1>3, <1>4
  <2>2. QED
    BY <1>1, <1>3, <1>6, <2>1, WaysLast
<1>7. ASSUME IsCopy(Top, "return") PROVE Man(frames, Depth - 1) \subseteq run.gone
  BY <1>1, <1>3, <1>4, <1>7 DEF CopiesStripped
<1>8. QED
  BY <1>1, <1>2, <1>3, <1>5, <1>6, <1>7

LEMMA TopAt ==
    ASSUME ~finished, TempsInv, LabelType, LabelsInv, PlaceInv, HoldsInv, Depth > 0, run.at # Here, ~run.overridden,
           run.at[1] = Depth
    PROVE  /\ CopiesStripped(frames, run.gone, Depth - 1) /\ ~run.fault
           /\ (~Bare(run.at) => /\ Level(run.at) = Depth /\ Exact(run, Own(frames, Depth))
                                /\ \A t \in run.holds : t \in Own(frames, Depth)
                                                       \/ (run.at[3] = "error" /\ t \in Counted(Temps)))
           /\ (Bare(run.at) => /\ Level(run.at) = Depth - 1 /\ Exact(run, Own(frames, Depth - 1))
                               /\ \A t \in run.holds : t \in Own(frames, Depth - 1)
                                                      \/ (run.at[3] = "error" /\ t \in Counted(Temps)))
           /\ (run.at[3] \notin {"error", "return", "no match"} =>
                 GoneUnder(frames, run.gone, Depth - 1) /\ Top.temps \cap run.gone = {})
           /\ (Top.node \notin {"for", "clause"} /\ ~IsCopy(Top, "except") => Top.temps \cap run.gone = {})
           /\ (run.at[3] = "return" => Man(frames, Depth) \subseteq run.gone /\ Man(frames, Depth - 1) \subseteq run.gone)
           /\ (run.at[2] \in {"try", "finally"} /\ run.at[3] = "error" /\ Top.stage # "body" =>
                 run.holds \subseteq Own(frames, Level(run.at)) \cup Top.clean)
<1>1. /\ HeldAt(run, frames, run.at, Counted(Temps)) /\ run.at \in Label /\ run.gone \subseteq Ref(frames, Depth)
  <2>1. ~finished
    BY PlaceFacts, Frames
  <2>2. QED
    BY <2>1, HoldsFacts
<1>2. /\ Depth - 1 \in Nat /\ Top = frames[Depth] /\ Man(frames, Depth - 1) \subseteq Man(frames, Depth)
      /\ (Top.node \notin {"for", "clause"} /\ ~IsCopy(Top, "except") => Ref(frames, Depth) = Ref(frames, Depth - 1))
      /\ Ref(frames, Depth - 1) \subseteq Own(frames, Depth - 1) /\ Top.temps \cap Own(frames, Depth - 1) = {}
      /\ \A gone : GoneUnder(frames, gone, Depth) => gone \cap Top.temps = {}
  BY OwnTop
<1>3. /\ (Bare(run.at) => Level(run.at) = Depth - 1) /\ (~Bare(run.at) => Level(run.at) = Depth)
  BY <1>1, Levels
<1>4. ASSUME GoneUnder(frames, run.gone, Depth - 1) PROVE Top.temps \cap run.gone = {}
  <2>1. Depth \in Nat /\ Depth - 1 <= Depth
    BY Frames
  <2>2. GoneUnder(frames, run.gone, Depth)
    BY <1>2, <1>4, <2>1, OwnGrows
  <2>3. QED
    BY <1>2, <2>2
<1>5. /\ CopiesStripped(frames, run.gone, Depth - 1) /\ ~run.fault /\ Exact(run, Own(frames, Level(run.at)))
      /\ (\A t \in run.holds : t \in Own(frames, Level(run.at)) \/ (run.at[3] = "error" /\ t \in Counted(Temps)))
      /\ (run.at[3] \notin {"error", "return", "no match"} => GoneUnder(frames, run.gone, Depth - 1))
      /\ (run.at[3] = "return" => Man(frames, Depth) \subseteq run.gone)
      /\ (run.at[2] \in {"try", "finally"} /\ run.at[3] = "error" /\ frames[Depth].stage # "body" =>
                 run.holds \subseteq Own(frames, Level(run.at)) \cup frames[Depth].clean)
  BY <1>1 DEF HeldAt, Exact
<1>6. ASSUME Top.node \notin {"for", "clause"}, ~IsCopy(Top, "except") PROVE Top.temps \cap run.gone = {}
  BY <1>1, <1>2, <1>6
<1>7. QED
  BY <1>2, <1>3, <1>4, <1>5, <1>6

(* The references of the innermost statement go.                                    *)
LEMMA LetGo ==
    ASSUME TempsInv, Depth > 0, NEW r, NEW s, Exact(r, Own(frames, Depth)),
           s.gone = r.gone \ Top.temps, s.holds = r.holds \ Top.temps \/ s.holds = r.holds,
           \/ (s.fault <=> r.fault)
           \/ Top.temps \cap r.gone = {} /\ (s.fault <=> (r.fault \/ ~ Top.temps \subseteq r.holds))
    PROVE  /\ Exact(s, Own(frames, Depth - 1)) /\ ~s.fault
           /\ r.holds \subseteq Own(frames, Depth) /\ s.holds = r.holds \ Top.temps =>
                 s.holds \subseteq Own(frames, Depth - 1)
<1>1. Own(frames, Depth) = Own(frames, Depth - 1) \cup Top.temps /\ Top.temps \cap Own(frames, Depth - 1) = {}
  BY OwnTop
<1>2. ~s.fault
  BY <1>1 DEF Exact
<1>3. QED
  BY <1>1, <1>2 DEF Exact

(* The ways that the execution goes when the innermost statement goes on or ends:      *)
(* it waits for a label of a statement around ...                                 *)
Beneath == Depth > 0 /\ \A i \in 1..(Depth - 1) : frames'[i] = frames[i]

LEMMA WaitBelow ==
    ASSUME ~finished, TempsInv, LabelType, LabelsInv, PlaceInv, HoldsInv, CodeNext, Beneath, ~run.overridden,
           run.at # Here, run.at[1] # Depth, run'.at = run.at, NEW G, G \subseteq Top.temps, Stays(run, run', G), NEW m
    PROVE  HeldNext(m)
<1>1. ~finished /\ Depth \in Nat /\ Depth > 0
  BY PlaceFacts, Frames DEF Beneath
<1>2. run.at[1] \in 0..Depth
  BY <1>1, HoldsFacts
<1>3. run.at[1] \in 0..(Depth - 1) /\ run.at[1] \in Nat /\ Depth - 1 \in Nat /\ run.at[1] <= Depth - 1
  BY <1>1, <1>2
<1>4. SameTo(frames, frames', run.at[1])
  BY <1>1, <1>3, SameFrom DEF Beneath
<1>5. G \cap Own(frames, run.at[1]) = {}
  <2>1. Own(frames, run.at[1]) \subseteq Own(frames, Depth - 1)
    BY <1>3, OwnGrows
  <2>2. Top.temps \cap Own(frames, Depth - 1) = {}
    BY <1>1, OwnTop
  <2>3. QED
    BY <2>1, <2>2
<1>6. QED
  BY <1>1, <1>4, <1>5, Waiting

(* ... it leaves by one of the labels that were there before, its references released  *)
(* or, on an exception, left to the end of the function ...                         *)
LEMMA LeaveTop ==
    ASSUME TempsInv, LabelType, LabelsInv, PlaceInv, HoldsInv, CodeNext, Beneath, ~run'.overridden,
           NEW w \in Ways, Top.labels[w] # NoLabel, run'.at = Top.labels[w],
           NEW d \in {Depth - 1, Depth}, Left(run, run', Top.labels[w], d),
           Exact(run, Own(frames, Depth)),
           \A t \in run.holds : t \in Own(frames, Depth) \/ (w = "error" /\ t \in Counted(Temps)),
           CopiesStripped(frames, run.gone, Depth - 1),
           w \in Loops => GoneUnder(frames, run.gone, Depth - 1),
           w = "return" => Man(frames, Depth - 1) \subseteq run.gone,
           run'.gone = run.gone \ Top.temps,
           \/ run'.holds = run.holds \ Top.temps
           \/ run'.holds = run.holds /\ w = "error" /\ Top.temps \subseteq Counted(Temps),
           \/ (run'.fault <=> run.fault)
           \/ Top.temps \cap run.gone = {} /\ (run'.fault <=> (run.fault \/ ~ Top.temps \subseteq run.holds)),
           NEW m
    PROVE  HeldNext(m)
<1> DEFINE T == Top.temps
           l == Top.labels[w]
<1>1. /\ Depth \in Nat /\ Depth > 0 /\ l \in Label /\ l[1] < Depth /\ LabelOk(frames, l, w, Depth - 1)
  BY OldLabels DEF Beneath
<1>2. PICK n \in Nat : n = Depth - 1 /\ Depth = n + 1
  BY <1>1
<1>3. /\ Own(frames, Depth) = Own(frames, n) \cup T /\ T \cap Own(frames, n) = {}
      /\ Man(frames, n) \subseteq Own(frames, n)
  BY <1>1, <1>2, OwnTop
<1>4. Exact(run', Own(frames, n)) /\ ~run'.fault
  BY <1>1, <1>2, LetGo
<1>5. Counted(Temps) \subseteq Counted(Temps)'
  BY Grown
<1>6. \A t \in run'.holds : t \in Own(frames, n) \/ (w = "error" /\ t \in Counted(Temps)')
  BY <1>3, <1>5
<1>7. CopiesStripped(frames, run'.gone, n) /\ (w \in Loops => GoneUnder(frames, run'.gone, n))
  <2>1. T \cap Man(frames, n) = {}
    BY <1>3
  <2>2. CopiesStripped(frames, run.gone, n) /\ (w \in Loops => GoneUnder(frames, run.gone, n))
    BY <1>2
  <2>3. PICK U : U = T
    OBVIOUS
  <2>4. U \cap Man(frames, n) = {} /\ run'.gone = run.gone \ U
    BY <2>1, <2>3
  <2>5. /\ (GoneUnder(frames, run.gone, n) => GoneUnder(frames, run.gone \ U, n))
        /\ (U \cap Man(frames, n) = {} /\ CopiesStripped(frames, run.gone, n) => CopiesStripped(frames, run.gone \ U, n))
    BY LessGone
  <2>6. QED
    BY <2>2, <2>4, <2>5
<1>8. w = "return" => Man(frames, n) \subseteq run'.gone
  BY <1>2, <1>3
<1>9. HeldTo(run', frames, w, n, Counted(Temps)')
  BY <1>4, <1>6, <1>7, <1>8 DEF HeldTo
<1>10. NoWay(frames, run'.gone, l, n)
  <2>1. ~Overrides(run, l, d) /\ run'.gone \subseteq run.gone
    BY DEF Left
  <2>2. d \in Nat /\ n \in 0..d
    BY <1>1, <1>2
  <2>3. QED
    BY <2>1, <2>2, NotOverridden
<1>11. l[1] \in 0..n /\ n <= Depth
  <2>1. l[1] \in Nat
    BY <1>1, Triple
  <2>2. QED
    BY <1>1, <1>2, <2>1
<1>12. SameTo(frames, frames', l[1])
  BY <1>2, <1>11, SameFrom DEF Beneath
<1>13. LabelOk(frames, l, w, n) /\ run'.at = l
  BY <1>1, <1>2
<1> HIDE DEF l, T
<1>14. QED
  BY <1>1, <1>9, <1>10, <1>11, <1>12, <1>13, Jumping

(* ... it arrives after the statement, which has ended ...                           *)
LEMMA EndHere ==
    ASSUME TempsInv, TopEnds, run'.at = Here, Exact(run', Own(frames, Depth - 1)),
           run'.holds \subseteq Own(frames, Depth - 1), CopiesStripped(frames, run'.gone, Depth - 1),
           \/ GoneUnder(frames, run'.gone, Depth - 1)
           \/ Depth - 1 > 0 /\ frames[Depth - 1].node = "except" /\ frames[Depth - 1].stage = "handled"
    PROVE  HeldNext({})
<1>1. Depth > 0 /\ Depth' = Depth - 1 /\ \A i \in 1..(Depth - 1) : frames'[i] = frames[i]
  BY DEF TopEnds
<1>2. /\ Depth - 1 \in Nat /\ Own(frames', Depth - 1) = Own(frames, Depth - 1)
      /\ \A gone : GoneUnder(frames, gone, Depth - 1) <=> GoneUnder(frames', gone, Depth - 1)
      /\ \A gone : CopiesStripped(frames, gone, Depth - 1) <=> CopiesStripped(frames', gone, Depth - 1)
  BY <1>1, BelowFacts
<1>3. PICK n \in Nat : n = Depth - 1 /\ n = Depth'
  BY <1>1, <1>2
<1>4. Exact(run', {} \cup Own(frames', n)) /\ run'.holds \subseteq {} \cup Own(frames', n)
  BY <1>2, <1>3 DEF Exact
<1>5. CopiesStripped(frames', run'.gone, n)
  BY <1>2, <1>3
<1>6. ~(n > 0 /\ frames'[n].node = "except" /\ frames'[n].stage \in {"handlers", "handled"})
          => GoneUnder(frames', run'.gone, n)
  <2>1. n > 0 => n \in 1..(Depth - 1)
    BY <1>3
  <2>2. QED
    BY <1>1, <1>2, <1>3, <2>1
<1>7. HeldHere(run', frames', n, {})
  BY <1>4, <1>5, <1>6 DEF HeldHere
<1>8. QED
  BY <1>3, <1>7 DEF HeldNext

(* ... or at the next part of it.                                                *)
LEMMA GoHere ==
    ASSUME TempsInv, NEW s, NEW T \in SUBSET Nat, NEW C, NEW W, TopGoes(s, T, C, W), run'.at = Here,
           Exact(run', Own(frames, Depth - 1) \cup T), run'.holds \subseteq Own(frames, Depth - 1) \cup T,
           CopiesStripped(frames', run'.gone, Depth),
           GoneUnder(frames', run'.gone, Depth) \/ (Top.node = "except" /\ s \in {"handlers", "handled"})
    PROVE  HeldNext({})
<1>1. /\ Depth > 0 /\ Depth' = Depth /\ Own(frames', Depth) = Own(frames, Depth - 1) \cup T
      /\ frames'[Depth].node = Top.node /\ frames'[Depth].stage = s
  BY GoFacts
<1>2. Exact(run', {} \cup Own(frames', Depth)) /\ run'.holds \subseteq {} \cup Own(frames', Depth)
  BY <1>1 DEF Exact
<1>3. ~(Depth > 0 /\ frames'[Depth].node = "except" /\ frames'[Depth].stage \in {"handlers", "handled"})
          => GoneUnder(frames', run'.gone, Depth)
  BY <1>1
<1>4. HeldHere(run', frames', Depth, {})
  BY <1>2, <1>3 DEF HeldHere
<1>5. QED
  BY <1>1, <1>4 DEF HeldNext

(* What the execution holds, and what a return has released, is a temporary.            *)
LEMMA GoneOn ==
    ASSUME ~finished, TempsInv, LabelType, LabelsInv, PlaceInv, HoldsInv, CodeNext, scratch' = {}, Depth > 0,
           NEW A, run'.holds \subseteq run.holds \cup A, A \subseteq Temps',
           run'.gone = run.gone \ Top.temps \/ (run'.gone \subseteq run.gone
                                               /\ Top.node \notin {"for", "clause"} /\ ~IsCopy(Top, "except")),
           TopEnds \/ \E s, C, W : \E T \in SUBSET Nat : TopGoes(s, T, C, W),
           ~run'.overridden => HeldNext({})
    PROVE  HoldsInv'
<1>1. run.holds \subseteq Temps /\ run.gone \subseteq Ref(frames, Depth) /\ Temps \subseteq Temps'
  <2>1. ~finished
    BY PlaceFacts, Frames
  <2>2. QED
    BY <2>1, HoldsFacts, Grown
<1>2. run'.gone \subseteq Ref(frames, Depth - 1)
  BY <1>1, OwnTop
<1>3. Ref(frames, Depth - 1) \subseteq Ref(frames', Depth')
  <2>1. CASE TopEnds
    BY <2>1, BelowFacts DEF TopEnds
  <2>2. CASE \E s, C, W : \E T \in SUBSET Nat : TopGoes(s, T, C, W)
    BY <2>2, GoFacts
  <2>3. QED
    BY <2>1, <2>2
<1>4. run'.holds \subseteq Temps' /\ run'.gone \subseteq Ref(frames', Depth')
  BY <1>1, <1>2, <1>3
<1>5. Counted(scratch)' = {}
  BY DEF Counted
<1>6. QED
  BY <1>4, <1>5, HoldsNext

(* The execution goes to a label of the statement itself.                           *)
LEMMA AtInternal ==
    ASSUME NEW l \in Label, l # Here, l # Done, run'.at = l, l[3] \in {"end", "catch", "handled"},
           Exact(run', Own(frames', Level(l))), run'.holds \subseteq Own(frames', Level(l)),
           GoneUnder(frames', run'.gone, l[1] - 1), CopiesStripped(frames', run'.gone, l[1] - 1), NEW m
    PROVE  HeldNext(m)
<1>1. HeldAt(run', frames', l, Counted(Temps)')
  BY DEF HeldAt
<1>2. QED
  BY <1>1 DEF HeldNext

LEMMA TopKind ==
    ASSUME TempsInv, Depth > 0, Top.node \in {"for", "clause"}
    PROVE  Top.temps \subseteq Counted(Temps)
<1>1. Top.temps \subseteq InUse /\ InUse \subseteq Temps
      /\ \A t \in Top.temps : kind[t] \in Managed <=> Top.node \in {"for", "clause"}
  BY TopFacts
<1>2. QED
  BY <1>1 DEF Counted

LEMMA HoldsForElse ==
    ASSUME TempsInv, LabelType, LabelsInv, PlaceInv, HoldsInv, ForElse
    PROVE  HoldsInv'
<1> DEFINE T == Top.temps
           C == <<Depth, "loop", "continue">>
           B == <<Depth, "loop", "break">>
           X == <<Depth, "for", "exhausted">>
           N == <<Depth, "for", "end">>
           L == Top.labels["error"]
<1>nf. ~finished
  BY DEF ForElse, Statement
<1>1. /\ Top.node = "for" /\ Top.stage = "body" /\ Depth > 0 /\ Depth \in Nat /\ Statement /\ scratch' = {}
      /\ TopGoes("else", {}, Top.clean, Top.ways)
  BY Frames, MovesOn DEF ForElse, In, Statement
<1>2. CodeNext
  BY DEF CodeNext, Loop
<1>3. labels["error"] = L
  BY <1>1, LabelsTop, FunctionLabels DEF Within, LabelType, Labelling, Ways, Frame
<1>4. Beneath /\ T \subseteq Counted(Temps) /\ ~IsCopy(Top, "return") /\ ~IsCopy(Top, "except")
  BY <1>1, TopKind DEF TopGoes, Beneath, IsCopy
<1>5. /\ run.at \in {Here, C, X} =>
                    \/ Is(run', Here, run.holds \ T, run.fault \/ ~ T \subseteq run.holds, run.gone \ T)
                       /\ Before(run, run')
                    \/ Is(run', L, run.holds, run.fault, run.gone \ T)
                       /\ Left(run, run', L, Depth)
      /\ run.at = B /\ B \in used =>
                    Is(run', N, run.holds \ T, run.fault \/ ~ T \subseteq run.holds, run.gone \ T)
                    /\ Before(run, run')
      /\ run.at \notin {Here, C, X} /\ ~(run.at = B /\ B \in used) =>
                    Is(run', run.at, run.holds, run.fault, run.gone \ T) /\ Before(run, run')
  BY <1>3, ForElseRun
<1>6. /\ C[1] = Depth /\ C[2] = "loop" /\ C[3] = "continue" /\ B[1] = Depth /\ B[2] = "loop" /\ B[3] = "break"
      /\ X[1] = Depth /\ X[2] = "for" /\ X[3] = "exhausted"
      /\ N[1] = Depth /\ N[2] = "for" /\ N[3] = "end" /\ N \in Label /\ N # Here /\ N # Done
      /\ C # Here /\ B # Here /\ X # Here
  <2>1. {"for", "loop"} \subseteq Groups /\ {"continue", "break", "exhausted", "end"} \subseteq Names
    BY DEF Groups, Names, Ways
  <2>2. QED
    BY <1>1, <2>1, Tuples
<1> HIDE DEF T, L
<1>7. run'.holds \subseteq run.holds \cup {} /\ run'.gone = run.gone \ T
  BY <1>5 DEF Is
<1>8. ASSUME ~run'.overridden PROVE HeldNext({})
  <2>1. ~run.overridden
    BY <1>5, <1>8 DEF Before, Left
  <2>2. ASSUME run.at \in {Here, C, X, B}
        PROVE  /\ Exact(run, Own(frames, Depth)) /\ run.holds \subseteq Own(frames, Depth)
               /\ GoneUnder(frames, run.gone, Depth - 1) /\ CopiesStripped(frames, run.gone, Depth - 1)
               /\ T \cap run.gone = {}
    <3>1. CASE run.at = Here
      BY <1>1, <1>4, <2>1, <3>1, TopHere DEF T
    <3>2. CASE run.at # Here
      <4>1. run.at[1] = Depth /\ run.at[3] \notin {"error", "return", "no match"} /\ run.at[2] \notin {"try", "finally"}
            /\ run.at[3] # "end"
        BY <1>6, <2>2, <3>2
      <4>2. ~Bare(run.at)
        BY <4>1 DEF Bare
      <4>3. QED
        BY <1>nf, <1>1, <2>1, <3>2, <4>1, <4>2, TopAt DEF T
    <3>3. QED
      BY <3>1, <3>2
  <2>3. CASE run.at \in {Here, C, X} /\ run'.at = Here /\ Is(run', Here, run.holds \ T, run.fault \/ ~ T \subseteq run.holds, run.gone \ T)
    <3>1. Exact(run', Own(frames, Depth - 1)) /\ run'.holds \subseteq Own(frames, Depth - 1)
      BY <1>1, <2>2, <2>3, LetGo DEF Is, T
    <3>2. run'.gone = run.gone
      BY <2>2, <2>3 DEF Is
    <3>3. GoneUnder(frames', run'.gone, Depth) /\ CopiesStripped(frames', run'.gone, Depth)
      BY <1>1, <2>2, <2>3, <3>2, GoFacts
    <3>4. PICK E : E = {}
      OBVIOUS
    <3>5. E \in SUBSET Nat /\ TopGoes("else", E, Top.clean, Top.ways)
      BY <1>1, <3>4
    <3>6. Own(frames, Depth - 1) = Own(frames, Depth - 1) \cup E
      BY <3>4
    <3>7. QED
      BY <2>3, <3>1, <3>3, <3>5, <3>6, GoHere
  <2>4. CASE run.at \in {Here, C, X} /\ Is(run', L, run.holds, run.fault, run.gone \ T) /\ Left(run, run', L, Depth)
    <3>1. "error" \in Ways /\ "error" \notin Loops /\ Top.labels["error"] # NoLabel
      BY <1>1, OldLabels DEF Ways, Loops
    <3>2. \A t \in run.holds : t \in Own(frames, Depth) \/ ("error" = "error" /\ t \in Counted(Temps))
      BY <2>2, <2>4
    <3>3. run'.at = Top.labels["error"] /\ run'.holds = run.holds /\ (run'.fault <=> run.fault)
      BY <2>4 DEF Is, L
    <3>4. Left(run, run', Top.labels["error"], Depth) /\ Top.temps \subseteq Counted(Temps) /\ run'.gone = run.gone \ Top.temps
      BY <1>4, <1>7, <2>4 DEF L, T
    <3>5. QED
      BY <1>2, <1>4, <1>8, <2>2, <2>4, <3>1, <3>2, <3>3, <3>4, LeaveTop
  <2>5. CASE run.at = B /\ B \in used
    <3>1. Is(run', N, run.holds \ T, run.fault \/ ~ T \subseteq run.holds, run.gone \ T)
      BY <1>5, <2>5
    <3>2. Exact(run', Own(frames, Depth - 1)) /\ run'.holds \subseteq Own(frames, Depth - 1)
      BY <1>1, <2>2, <2>5, <3>1, LetGo DEF Is, T
    <3>3. run'.gone = run.gone
      BY <2>2, <2>5, <3>1 DEF Is
    <3>4. GoneUnder(frames', run'.gone, Depth - 1) /\ CopiesStripped(frames', run'.gone, Depth - 1)
      BY <1>1, <1>4, <2>2, <2>5, <3>3, BelowFacts DEF Beneath
    <3>5. ~Bare(N)
      BY <1>6 DEF Bare
    <3>6. Level(N) = Depth
      BY <1>6, <3>5, Levels
    <3>7. Own(frames', Depth) = Own(frames, Depth - 1)
      <4>1. PICK E : E = {}
        OBVIOUS
      <4>2. E \in SUBSET Nat /\ TopGoes("else", E, Top.clean, Top.ways)
        BY <1>1, <4>1
      <4>3. Own(frames', Depth) = Own(frames, Depth - 1) \cup E
        BY <4>2, GoFacts
      <4>4. QED
        BY <4>1, <4>3
    <3>8. run'.at = N
      BY <3>1 DEF Is
    <3>9. QED
      BY <1>6, <3>2, <3>4, <3>6, <3>7, <3>8, AtInternal
  <2>6. CASE run.at \notin {Here, C, X} /\ ~(run.at = B /\ B \in used)
    <3>1. Is(run', run.at, run.holds, run.fault, run.gone \ T)
      BY <1>5, <2>6
    <3>2. run'.at = run.at /\ Stays(run, run', T)
      BY <3>1 DEF Is, Stays
    <3>3. ASSUME run.at[1] = Depth PROVE FALSE
      <4>1. /\ run.at = <<Depth, run.at[2], run.at[3]>>
            /\ InternalOf(Top, run.at[2], run.at[3]) \/ (Put(Top, run.at[2], run.at[3]) /\ run.at \in used)
        BY <1>1, <2>6, <3>3, WaitsTop DEF Statement
      <4>2. \/ run.at = X
            \/ (run.at = C \/ run.at = B) /\ run.at \in used
        BY <1>1, <4>1, <3>3 DEF InternalOf, Put, JumpOf, EarlierOf, Loops
      <4>3. QED
        BY <2>6, <4>2
    <3>4. T \subseteq Top.temps
      BY DEF T
    <3>5. QED
      BY <1>nf, <1>2, <1>4, <2>1, <2>6, <3>2, <3>3, <3>4, WaitBelow
  <2>7. QED
    BY <1>5, <2>3, <2>4, <2>5, <2>6 DEF Is
<1>9. run'.gone = run.gone \ Top.temps /\ {} \subseteq Temps'
  BY <1>7 DEF T
<1>10. \E s, D, W : \E U \in SUBSET Nat : TopGoes(s, U, D, W)
  BY <1>1
<1>11. QED
  BY <1>nf, <1>1, <1>2, <1>7, <1>8, <1>9, <1>10, GoneOn

LEMMA HoldsEnd ==
    ASSUME TempsInv, LabelType, LabelsInv, PlaceInv, HoldsInv, ForEnd \/ FinallyEnd
    PROVE  HoldsInv'
<1> DEFINE l == IF ForEnd THEN <<Depth, "for", "end">> ELSE <<Depth, "finally", "catch">>
<1>nf. ~finished
  BY DEF ForEnd, FinallyEnd, Statement
<1>1. CodeNext /\ TopEnds /\ Depth > 0 /\ Depth \in Nat /\ scratch = {} /\ scratch' = {} /\ frames # <<>>
  BY Frames, Ends DEF CodeNext, Loop, TryFinally, ForEnd, FinallyEnd, Statement, In
<1>2. Beneath /\ ~finished
  BY <1>1 DEF Beneath, TopEnds, ForEnd, FinallyEnd, Statement
<1>3. \/ Top.node = "for" /\ Top.stage = "else" /\ l = <<Depth, "for", "end">> /\ Statement
      \/ Top.node = "finally" /\ Top.stage = "ways" /\ Top.ways = {} /\ l = <<Depth, "finally", "catch">>
         /\ In("finally", "ways")
  BY DEF ForEnd, FinallyEnd, In
<1>4. run' = Reach(run, l)
  BY DEF ForEnd, FinallyEnd
<1>5. /\ l[1] = Depth /\ l \in Label /\ l # Here
      /\ (Top.node = "for" => l[2] = "for" /\ l[3] = "end") /\ (Top.node = "finally" => l[2] = "finally" /\ l[3] = "catch")
  <2>1. {"for", "finally"} \subseteq Groups /\ {"end", "catch"} \subseteq Names
    BY DEF Groups, Names
  <2>2. QED
    BY <1>1, <1>3, <2>1, Tuples
<1>6. Top.temps = {} /\ ~IsCopy(Top, "except") /\ ~IsCopy(Top, "return")
  BY <1>1, <1>3, OwnTop DEF IsCopy
<1> HIDE DEF l
<1>7. /\ run.at = l => Is(run', Here, run.holds, run.fault, run.gone) /\ Before(run, run')
      /\ run.at # l => run' = run
  BY <1>4, EndRun
<1>8. run'.holds \subseteq run.holds \cup {} /\ run'.gone = run.gone \ Top.temps /\ run'.gone = run.gone
  BY <1>6, <1>7 DEF Is
<1>9. Own(frames, Depth) = Own(frames, Depth - 1)
  BY <1>1, <1>6, OwnTop
<1>10. ASSUME ~run'.overridden PROVE HeldNext({})
  <2>1. ~run.overridden
    BY <1>7, <1>10 DEF Before
  <2>2. ASSUME Exact(run, Own(frames, Depth - 1)), run.holds \subseteq Own(frames, Depth - 1), run.at \in {Here, l},
               GoneUnder(frames, run.gone, Depth - 1), CopiesStripped(frames, run.gone, Depth - 1)
        PROVE  HeldNext({})
    <3>1. run'.at = Here /\ run'.holds = run.holds /\ (run'.fault <=> run.fault) /\ run'.gone = run.gone
      BY <1>7, <2>2 DEF Is
    <3>2. Exact(run', Own(frames, Depth - 1)) /\ run'.holds \subseteq Own(frames, Depth - 1)
      BY <2>2, <3>1 DEF Exact
    <3>3. GoneUnder(frames, run'.gone, Depth - 1) /\ CopiesStripped(frames, run'.gone, Depth - 1)
      BY <2>2, <3>1
    <3>4. QED
      BY <1>1, <3>1, <3>2, <3>3, EndHere
  <2>3. CASE run.at = Here
    <3>1. Statement
      BY <1>2, <1>3, <2>3, PlaceFacts
    <3>2. /\ Exact(run, Own(frames, Depth)) /\ run.holds \subseteq Own(frames, Depth)
          /\ GoneUnder(frames, run.gone, Depth - 1) /\ CopiesStripped(frames, run.gone, Depth - 1)
      BY <1>1, <1>6, <2>1, <2>3, <3>1, TopHere
    <3>3. Exact(run, Own(frames, Depth - 1)) /\ run.holds \subseteq Own(frames, Depth - 1)
      BY <1>9, <3>2
    <3>4. QED
      BY <2>2, <2>3, <3>2, <3>3
  <2>4. CASE run.at = l
    <3>1. run.at # Here /\ run.at[1] = Depth /\ run.at[3] \notin {"error", "return", "no match"}
      BY <1>3, <1>5, <2>4
    <3>2. /\ GoneUnder(frames, run.gone, Depth - 1) /\ CopiesStripped(frames, run.gone, Depth - 1)
          /\ (~Bare(run.at) => Exact(run, Own(frames, Depth)) /\ run.holds \subseteq Own(frames, Depth))
          /\ (Bare(run.at) => Exact(run, Own(frames, Depth - 1)) /\ run.holds \subseteq Own(frames, Depth - 1))
      BY <1>nf, <1>1, <2>1, <3>1, TopAt
    <3>3. Exact(run, Own(frames, Depth - 1)) /\ run.holds \subseteq Own(frames, Depth - 1)
      BY <1>9, <3>2
    <3>4. QED
      BY <2>2, <2>4, <3>2, <3>3
  <2>5. CASE run.at \notin {Here, l}
    <3>1. run' = run
      BY <1>7, <2>5
    <3>2. ASSUME run.at[1] = Depth PROVE FALSE
      <4>1. /\ run.at = <<Depth, run.at[2], run.at[3]>> /\ run.at \in Label
            /\ InternalOf(Top, run.at[2], run.at[3]) \/ (Put(Top, run.at[2], run.at[3]) /\ run.at \in used)
        BY <1>1, <1>2, <2>5, <3>2, WaitsTop
      <4>2. run.at[2] = l[2] /\ run.at[3] = l[3]
        BY <1>3, <1>5, <4>1 DEF InternalOf, Put, JumpOf, EarlierOf
      <4>3. run.at = l
        BY <1>5, <3>2, <4>1, <4>2, Triple
      <4>4. QED
        BY <2>5, <4>3
    <3>3. run'.at = run.at /\ Stays(run, run', {}) /\ {} \subseteq Top.temps
      BY <3>1 DEF Stays
    <3>4. QED
      BY <1>1, <1>2, <2>1, <2>5, <3>2, <3>3, WaitBelow
  <2>6. QED
    BY <2>3, <2>4, <2>5
<1>11. {} \subseteq Temps'
  OBVIOUS
<1>12. QED
  BY <1>nf, <1>1, <1>8, <1>10, <1>11, GoneOn

(* The execution waits while the innermost statement goes on, and what a handler       *)
(* clears is what may be held there.                                               *)
LEMMA WaitSame ==
    ASSUME ~finished, TempsInv, LabelType, LabelsInv, PlaceInv, HoldsInv, CodeNext, ~run.overridden, scratch = {},
           NEW s, NEW C, NEW W, TopGoes(s, Top.temps, C, W), run' = run, run.at # Here,
           (C = Top.clean /\ Top.stage # "body") \/ C = FreeManaged, NEW m
    PROVE  HeldNext(m)
<1>1. Depth > 0 /\ ~finished /\ Beneath /\ Depth \in Nat
  BY PlaceFacts, Frames DEF TopGoes, Beneath
<1>2. Stays(run, run', {}) /\ run'.at = run.at
  BY DEF Stays
<1>3. CASE run.at[1] # Depth
  <2>1. {} \subseteq Top.temps
    OBVIOUS
  <2>2. QED
    BY <1>1, <1>2, <1>3, <2>1, WaitBelow
<1>4. CASE run.at[1] = Depth
  <2>1. Top.temps \in SUBSET Nat
    BY <1>1, OwnTop
  <2>2. ASSUME run.at[2] \in {"try", "finally"}, run.at[3] = "error"
        PROVE  run.holds \subseteq Own(frames, Level(run.at)) \cup C
    <3>1. CASE C = Top.clean /\ Top.stage # "body"
      BY <1>1, <1>4, <2>2, <3>1, TopAt
    <3>2. CASE C = FreeManaged
      <4>1. /\ (\A t \in run.holds : t \in Own(frames, Level(run.at)) \/ t \in Counted(Temps))
            /\ (~Bare(run.at) => Level(run.at) = Depth) /\ (Bare(run.at) => Level(run.at) = Depth - 1 /\ Exact(run, Own(frames, Depth - 1)))
        BY <1>1, <1>4, TopAt
      <4>2. Counted(Temps) \subseteq Own(frames, Depth) \cup FreeManaged
        <5>1. InUse = scratch \cup Own(frames, Depth)
          BY OwnFacts
        <5>2. QED
          BY <5>1 DEF InUse, Counted, FreeManaged
      <4>3. CASE ~Bare(run.at)
        BY <3>2, <4>1, <4>2, <4>3
      <4>4. CASE Bare(run.at)
        <5>1. run.at[2] = "finally"
          BY <2>2, <4>4 DEF Bare
        <5>2. Top.node = "finally"
          <6>1. InternalOf(Top, run.at[2], run.at[3]) \/ Put(Top, run.at[2], run.at[3])
            BY <1>1, <1>4, WaitsTop
          <6>2. QED
            BY <5>1, <6>1 DEF InternalOf, Put, JumpOf, EarlierOf
        <5>3. ASSUME NEW t \in Top.temps PROVE t \notin Counted(Temps)
          BY <1>1, <5>2, TopFacts DEF Counted
        <5>4. Own(frames, Depth) = Own(frames, Depth - 1) \cup Top.temps
          BY <1>1, OwnTop
        <5>5. QED
          BY <3>2, <4>1, <4>2, <4>4, <5>3, <5>4
      <4>5. QED
        BY <4>3, <4>4
    <3>3. QED
      BY <3>1, <3>2
  <2>3. PICK T : T = {}
    OBVIOUS
  <2>4. T \cap Own(frames, Level(run.at)) = {} /\ T \cap Man(frames, Depth) = {} /\ Stays(run, run', T)
    BY <1>2, <2>3
  <2>5. QED
    BY <1>1, <1>2, <1>4, <2>1, <2>2, <2>4, WaitingTop
<1>5. QED
  BY <1>3, <1>4

(* The body of a try ends.                                                        *)
LEMMA HoldsAfterBody ==
    ASSUME TempsInv, LabelType, LabelsInv, PlaceInv, HoldsInv, TryElse \/ FinallyNormal
    PROVE  HoldsInv'
<1>nf. ~finished
  BY DEF TryElse, FinallyNormal, Statement
<1>1. /\ CodeNext /\ Statement /\ scratch = {} /\ scratch' = {} /\ run' = run /\ Depth > 0
      /\ Top.node \in {"except", "finally"} /\ Top.stage = "body"
  BY Frames DEF CodeNext, TryExcept, TryFinally, TryElse, FinallyNormal, Statement, In
<1>2. PICK s, W : TopGoes(s, Top.temps, FreeManaged, W) /\ s \notin {"return"}
  BY MovesOn
<1>3. ~IsCopy(Top, "return") /\ ~IsCopy(Top, "except") /\ Top.node \notin {"for", "clause"} /\ Top.temps \in SUBSET Nat
  BY <1>1, OwnTop DEF IsCopy
<1>4. ASSUME ~run'.overridden PROVE HeldNext({})
  <2>1. ~run.overridden
    BY <1>1, <1>4
  <2>2. CASE run.at = Here
    <3>1. /\ Exact(run, Own(frames, Depth)) /\ run.holds \subseteq Own(frames, Depth)
          /\ GoneUnder(frames, run.gone, Depth - 1) /\ CopiesStripped(frames, run.gone, Depth - 1)
      BY <1>1, <1>3, <2>1, <2>2, TopHere
    <3>2. Own(frames, Depth) = Own(frames, Depth - 1) \cup Top.temps
      BY <1>1, OwnTop
    <3>3. GoneUnder(frames', run.gone, Depth) /\ CopiesStripped(frames', run.gone, Depth)
      BY <1>2, <1>3, <3>1, GoFacts
    <3>4. Exact(run', Own(frames, Depth - 1) \cup Top.temps) /\ run'.holds \subseteq Own(frames, Depth - 1) \cup Top.temps
      BY <1>1, <3>1, <3>2
    <3>5. GoneUnder(frames', run'.gone, Depth) /\ CopiesStripped(frames', run'.gone, Depth) /\ run'.at = Here
      BY <1>1, <2>2, <3>3
    <3>6. QED
      BY <1>2, <1>3, <3>4, <3>5, GoHere
  <2>3. CASE run.at # Here
    BY <1>nf, <1>1, <1>2, <2>1, <2>3, WaitSame
  <2>4. QED
    BY <2>2, <2>3
<1>5. run'.holds \subseteq run.holds \cup {} /\ {} \subseteq Temps' /\ run'.gone \subseteq run.gone
  BY <1>1
<1>6. \E t, C, V : \E T \in SUBSET Nat : TopGoes(t, T, C, V)
  BY <1>2, <1>3
<1>7. QED
  BY <1>nf, <1>1, <1>3, <1>4, <1>5, <1>6, GoneOn

LEMMA CleanAway ==
    ASSUME TempsInv, Depth > 0
    PROVE  /\ Top.clean \cap Own(frames, Depth - 1) = {}
           /\ Top.node # "finally" => Top.clean \cap Own(frames, Depth) = {}
<1>1. /\ Top.clean \subseteq Temps /\ Top.clean \cap Owned(Depth - 1) = {}
      /\ (Top.node # "finally" => Top.clean \cap Top.temps = {})
  BY TopFacts
<1>2. Own(frames, Depth) = Own(frames, Depth - 1) \cup Top.temps
  BY OwnTop
<1>3. Top.clean \cap Own(frames, Depth - 1) = {}
  BY <1>1 DEF Own, Owned
<1>4. QED
  BY <1>1, <1>2, <1>3

LEMMA HoldsHandlers ==
    ASSUME TempsInv, LabelType, LabelsInv, PlaceInv, HoldsInv, TryHandlers \/ FinallyNormalEnd
    PROVE  HoldsInv'
<1> DEFINE T == Top.temps
           E == <<Depth, "try", "error">>
           l == IF TryHandlers THEN <<Depth, "try", "end">> ELSE <<Depth, "finally", "catch">>
<1>nf. ~finished
  BY DEF FinallyNormalEnd, TryHandlers, Statement
<1>1. /\ CodeNext /\ Statement /\ scratch = {} /\ scratch' = {} /\ Depth > 0 /\ Depth \in Nat
      /\ \/ Top.node = "except" /\ Top.stage = "else" /\ TryHandlers /\ l = <<Depth, "try", "end">>
         \/ Top.node = "finally" /\ Top.stage = "normal" /\ ~TryHandlers /\ l = <<Depth, "finally", "catch">>
  BY Frames DEF CodeNext, TryExcept, TryFinally, TryHandlers, FinallyNormalEnd, Statement, In
<1>2. /\ ~IsCopy(Top, "return") /\ ~IsCopy(Top, "except") /\ Top.node \notin {"for", "clause"} /\ T \in SUBSET Nat
      /\ (Top.node = "finally" => T = {})
  BY <1>1, OwnTop DEF IsCopy
<1>3. PICK s, W : TopGoes(s, T, Top.clean, W) /\ s # "return" /\ (TryHandlers => s = "handlers")
  <2>1. CASE TryHandlers
    BY <2>1, MovesOn
  <2>2. CASE ~TryHandlers
    BY <2>2, MovesOn
  <2>3. QED
    BY <2>1, <2>2
<1>4. /\ l[1] = Depth /\ l \in Label /\ l # Here /\ l # Done /\ l[3] \in {"end", "catch"}
      /\ (l[3] = "end" => l[2] = "try") /\ (l[3] = "catch" => l[2] = "finally")
      /\ E[1] = Depth /\ E[2] = "try" /\ E[3] = "error" /\ E # Here
  <2>1. {"try", "finally"} \subseteq Groups /\ {"end", "catch", "error"} \subseteq Names
    BY DEF Groups, Names, Ways
  <2>2. QED
    BY <1>1, <2>1, Tuples
<1>5. /\ run.at = Here => /\ Is(run', l, run.holds \ T, run.fault \/ ~ T \subseteq run.holds, run.gone)
                          /\ Left(run, run', l, Depth)
         \/ /\ T = {} /\ Is(run', l, run.holds, run.fault, run.gone) /\ Left(run, run', l, Depth)
      /\ run.at = E /\ TryHandlers => Is(run', Here, run.holds \ Top.clean, run.fault, run.gone) /\ Before(run, run')
      /\ run.at # Here /\ ~(run.at = E /\ TryHandlers) => run' = run
  <2>1. CASE TryHandlers
    BY <1>1, <2>1, TryHandlersRun
  <2>2. CASE ~TryHandlers
    BY <1>1, <1>2, <2>2, FinallyNormalEndRun
  <2>3. QED
    BY <2>1, <2>2
<1>6. /\ run.at = Here => Is(run', l, run.holds \ T, run.fault \/ ~ T \subseteq run.holds, run.gone)
      /\ run'.gone = run.gone /\ run'.holds \subseteq run.holds /\ Before(run, run')
  <2>1. T = {} => run.holds = run.holds \ T /\ T \subseteq run.holds
    OBVIOUS
  <2>2. QED
    BY <1>5, <2>1 DEF Is, Left, Before
<1> HIDE DEF l
<1>7. ASSUME ~run'.overridden PROVE HeldNext({})
  <2>1. ~run.overridden
    BY <1>6, <1>7 DEF Before
  <2>2. CASE run.at = Here
    <3>1. /\ Exact(run, Own(frames, Depth)) /\ run.holds \subseteq Own(frames, Depth) /\ T \cap run.gone = {}
          /\ GoneUnder(frames, run.gone, Depth - 1) /\ CopiesStripped(frames, run.gone, Depth - 1)
      BY <1>1, <1>2, <2>1, <2>2, TopHere
    <3>2. /\ run'.holds = run.holds \ T /\ run'.gone = run.gone \ T /\ (run'.fault <=> (run.fault \/ ~ T \subseteq run.holds))
          /\ run'.at = l
      BY <1>6, <2>2, <3>1 DEF Is
    <3>3. Exact(run', Own(frames, Depth - 1)) /\ run'.holds \subseteq Own(frames, Depth - 1)
      BY <1>1, <3>1, <3>2, LetGo
    <3>4. /\ Own(frames', Depth - 1) = Own(frames, Depth - 1)
          /\ GoneUnder(frames', run'.gone, Depth - 1) /\ CopiesStripped(frames', run'.gone, Depth - 1)
      BY <1>1, <1>3, <1>6, <3>1, BelowFacts DEF TopGoes
    <3>5. Bare(l) /\ l[1] > 0
      BY <1>1, <1>4 DEF Bare
    <3>6. Level(l) = Depth - 1
      BY <1>4, <3>5, Levels
    <3>7. QED
      BY <1>4, <3>2, <3>3, <3>4, <3>6, AtInternal
  <2>3. CASE run.at = E /\ TryHandlers
    <3>1. Top.node = "except" /\ Top.stage = "else" /\ run.at # Here /\ ~Bare(run.at)
      BY <1>1, <1>4, <2>3 DEF Bare
    <3>2. /\ Exact(run, Own(frames, Depth)) /\ run.holds \subseteq Own(frames, Depth) \cup Top.clean
          /\ CopiesStripped(frames, run.gone, Depth - 1)
      BY <1>nf, <1>1, <1>4, <2>1, <2>3, <3>1, TopAt
    <3>3. Top.clean \cap Own(frames, Depth) = {} /\ Own(frames, Depth) = Own(frames, Depth - 1) \cup T
      BY <1>1, <3>1, CleanAway, OwnTop
    <3>4. run'.at = Here /\ run'.holds = run.holds \ Top.clean /\ (run'.fault <=> run.fault) /\ run'.gone = run.gone
      BY <1>5, <2>3 DEF Is
    <3>5. Exact(run', Own(frames, Depth - 1) \cup T) /\ run'.holds \subseteq Own(frames, Depth - 1) \cup T
      BY <3>2, <3>3, <3>4 DEF Exact
    <3>6. CopiesStripped(frames', run'.gone, Depth)
      BY <1>2, <1>3, <3>2, <3>4, GoFacts
    <3>7. Top.node = "except" /\ s \in {"handlers", "handled"}
      BY <1>3, <2>3, <3>1
    <3>8. QED
      BY <1>2, <1>3, <3>4, <3>5, <3>6, <3>7, GoHere
  <2>4. CASE run.at # Here /\ ~(run.at = E /\ TryHandlers)
    <3>1. run' = run /\ Top.stage # "body"
      BY <1>1, <1>5, <2>4
    <3>2. QED
      BY <1>nf, <1>1, <1>3, <2>1, <2>4, <3>1, WaitSame
  <2>5. QED
    BY <2>2, <2>3, <2>4
<1>8. run'.holds \subseteq run.holds \cup {} /\ {} \subseteq Temps' /\ run'.gone \subseteq run.gone
  BY <1>6
<1>9. \E t, C, V : \E U \in SUBSET Nat : TopGoes(t, U, C, V)
  BY <1>2, <1>3
<1>10. QED
  BY <1>nf, <1>1, <1>2, <1>7, <1>8, <1>9, GoneOn

(* The execution waits for another copy of a finally clause, or for its end.            *)
LEMMA WaitCopy ==
    ASSUME ~finished, TempsInv, LabelType, LabelsInv, PlaceInv, HoldsInv, CodeNext, ~run.overridden,
           Top.node = "finally", Top.stage # "body", NEW s, NEW T \in SUBSET Nat, NEW W, TopGoes(s, T, Top.clean, W),
           s # "body", run.at # Here, run'.at = run.at, NEW G, G \subseteq Top.temps, Stays(run, run', G),
           IsCopy(Top, "except") => ~ \E w \in Ways : run.at = <<Depth, "clause of finally", w>> /\ run.at \in used,
           NEW m
    PROVE  HeldNext(m)
<1>1. Depth > 0 /\ ~finished /\ Beneath /\ Depth \in Nat
  BY PlaceFacts, Frames DEF TopGoes, Beneath
<1>2. CASE run.at[1] # Depth
  BY <1>1, <1>2, WaitBelow
<1>3. CASE run.at[1] = Depth
  <2>1. /\ run.at = <<Depth, run.at[2], run.at[3]>> /\ run.at \in Label
        /\ InternalOf(Top, run.at[2], run.at[3]) \/ (Put(Top, run.at[2], run.at[3]) /\ run.at \in used)
    BY <1>1, <1>3, WaitsTop
  <2>2. run.at[2] = "finally"
    BY <2>1 DEF InternalOf, Put, JumpOf, EarlierOf, IsCopy
  <2>3. Bare(run.at) /\ Top.node \notin {"for", "clause"}
    BY <2>2 DEF Bare
  <2>4. run.at[2] \in {"try", "finally"} /\ run.at[3] = "error" =>
           run.holds \subseteq Own(frames, Level(run.at)) \cup Top.clean
    BY <1>1, <1>3, TopAt
  <2>5. G \cap Own(frames, Level(run.at)) = {} /\ G \cap Man(frames, Depth) = {}
    <3>1. /\ Top.temps \cap Own(frames, Depth - 1) = {} /\ Man(frames, Depth - 1) \subseteq Own(frames, Depth - 1)
          /\ Man(frames, Depth) = Man(frames, Depth - 1)
      BY <1>1, <2>3, OwnTop
    <3>2. Level(run.at) = Depth - 1
      BY <1>1, <1>3, <2>3, TopAt
    <3>3. QED
      BY <3>1, <3>2
  <2>6. QED
    BY <1>1, <1>3, <2>3, <2>4, <2>5, WaitingTop
<1>4. QED
  BY <1>2, <1>3

(* A copy of a finally clause begins.                                              *)
LEMMA HoldsCopy ==
    ASSUME TempsInv, LabelType, LabelsInv, PlaceInv, HoldsInv, CodeNext, NEW w \in Ways, NEW T,
           \/ w = "error" /\ \E t \in 1..MaxTemps : FinallyExcept(t) /\ T = {t}
           \/ w # "error" /\ FinallyWay(w, T)
    PROVE  HoldsInv'
<1> DEFINE s == IF w = "error" THEN "except" ELSE w
           C == IF w = "error" THEN Top.clean ELSE {}
           l == <<Depth, "finally", w>>
<1>1. /\ scratch = {} /\ scratch' = {} /\ Depth > 0 /\ Depth \in Nat /\ Top.node = "finally" /\ Top.stage = "ways"
      /\ In("finally", "ways") /\ ~finished
  BY Frames, PlaceFacts DEF FinallyExcept, FinallyWay, In
<1>3. T = {} \/ \E t : AllocateTemp(t, Plain) /\ T = {t}
  BY DEF FinallyExcept, FinallyWay
<1>4. T \in SUBSET Nat /\ T \subseteq Temps' /\ T \cap InUse = {}
  <2>1. ASSUME NEW t, AllocateTemp(t, Plain) PROVE {t} \in SUBSET Nat /\ {t} \subseteq Temps' /\ {t} \cap InUse = {}
    <3>1. Plain \in Kind
      BY KindAssumption
    <3>2. Grows({t}) /\ t \in Nat /\ t \notin InUse
      BY <2>1, <3>1, Allocated
    <3>3. QED
      BY <3>2 DEF Grows
  <2>2. QED
    BY <1>3, <2>1
<1>5. /\ s # "body" /\ s # "ways" /\ (w \in Loops => s \in Loops) /\ (w \notin Loops => s \in {"except", "return"})
      /\ (s = "return" <=> w = "return") /\ C \in SUBSET Nat
  BY <1>1, PlaceFacts DEF Ways, Loops
<1>6. PICK W : TopGoes(s, T, Top.clean, W)
  <2>1. CASE w = "error"
    BY <2>1, MovesOn
  <2>2. CASE w # "error"
    BY <2>2, MovesOn DEF Ways
  <2>3. QED
    BY <2>1, <2>2
<1>7. CopyRun(l, T, C)
  <2>1. CASE w = "error"
    BY <2>1, FinallyExceptRun
  <2>2. CASE w # "error"
    BY <2>2, FinallyWayRun
  <2>3. QED
    BY <2>1, <2>2
<1>8. l[1] = Depth /\ l[2] = "finally" /\ l[3] = w /\ l \in Label /\ l # Here
  <2>1. "finally" \in Groups /\ w \in Names
    BY DEF Groups, Names
  <2>2. QED
    BY <1>1, <2>1, Tuples
<1>9. /\ Top.temps = {} /\ ~IsCopy(Top, "except") /\ Own(frames, Depth) \subseteq InUse
      /\ Own(frames, Depth) = Own(frames, Depth - 1) \cup Top.temps /\ Depth - 1 \in Nat
  BY <1>1, OwnTop, OwnFacts DEF IsCopy
<1>10. run.at # Here /\ run.gone \subseteq Own(frames, Depth - 1)
  <2>1. run.gone \subseteq Ref(frames, Depth)
    BY <1>1, HoldsFacts
  <2>2. QED
    BY <1>1, <1>9, <2>1, OwnTop, PlaceFacts
<1>11. Beneath
  BY <1>6 DEF TopGoes, Beneath
<1> HIDE DEF l, s
<1>12. /\ run.at = l => /\ run'.at = Here /\ run'.gone = run.gone /\ Before(run, run')
                        /\ run'.holds = (run.holds \ C) \cup T
                        /\ run'.fault <=> (run.fault \/ T \cap (run.holds \ C) # {})
       /\ run.at # l => run' = run
  BY <1>7 DEF CopyRun
<1>13. ASSUME ~run'.overridden PROVE HeldNext({})
  <2>1. ~run.overridden
    BY <1>12, <1>13 DEF Before
  <2>2. CASE run.at = l
    <3>1. Bare(run.at) /\ run.at[1] = Depth /\ run.at[3] = w /\ run.at[2] = "finally" /\ Top.stage # "body"
      BY <1>1, <1>8, <2>2 DEF Bare
    <3>2. /\ Exact(run, Own(frames, Depth - 1)) /\ CopiesStripped(frames, run.gone, Depth - 1)
          /\ (w # "error" => run.holds \subseteq Own(frames, Depth - 1))
          /\ (w = "error" => run.holds \subseteq Own(frames, Depth - 1) \cup Top.clean)
          /\ (w = "return" => Man(frames, Depth - 1) \subseteq run.gone)
          /\ (w \in Loops => GoneUnder(frames, run.gone, Depth - 1))
      BY <1>1, <1>10, <2>1, <3>1, TopAt DEF Loops
    <3>3. Top.clean \cap Own(frames, Depth - 1) = {}
      BY <1>1, CleanAway
    <3>4. run.holds \ C \subseteq Own(frames, Depth - 1) /\ C \cap Own(frames, Depth - 1) = {}
      BY <3>2, <3>3
    <3>5. T \cap Own(frames, Depth - 1) = {} /\ T \cap run.gone = {} /\ T \cap (run.holds \ C) = {}
      BY <1>4, <1>9, <1>10, <3>4
    <3>6. run'.at = Here /\ run'.gone = run.gone /\ run'.holds = (run.holds \ C) \cup T /\ (run'.fault <=> run.fault)
      BY <1>12, <2>2, <3>5
    <3>7. Exact(run', Own(frames, Depth - 1) \cup T)
      BY <3>2, <3>4, <3>5, <3>6 DEF Exact
    <3>8. run'.holds \subseteq Own(frames, Depth - 1) \cup T
      BY <3>4, <3>6
    <3>9. /\ frames'[Depth].node = "finally" /\ frames'[Depth].stage = s
          /\ Own(frames', Depth - 1) = Own(frames, Depth - 1) /\ Man(frames', Depth - 1) = Man(frames, Depth - 1)
          /\ (CopiesStripped(frames, run.gone, Depth - 1) <=> CopiesStripped(frames', run.gone, Depth - 1))
      BY <1>1, <1>6, BelowFacts DEF TopGoes
    <3>10. CopiesStripped(frames', run'.gone, Depth)
      <4>1. CASE s # "return"
        BY <1>4, <1>6, <3>2, <3>6, <4>1, GoFacts
      <4>2. CASE s = "return"
        <5>1. Man(frames', Depth - 1) \subseteq run.gone /\ CopiesStripped(frames', run.gone, Depth - 1)
          BY <1>5, <3>2, <3>9, <4>2
        <5>2. QED
          BY <1>1, <3>6, <5>1 DEF CopiesStripped
      <4>3. QED
        BY <4>1, <4>2
    <3>11. GoneUnder(frames', run'.gone, Depth)
      <4>1. CASE w \in Loops
        BY <1>4, <1>6, <3>2, <3>6, <4>1, GoFacts
      <4>2. CASE w \notin Loops
        <5>1. IsCopy(frames'[Depth], "return") \/ IsCopy(frames'[Depth], "except")
          BY <1>5, <3>9, <4>2 DEF IsCopy
        <5>2. \A t \in run'.gone : t \in Own(frames', Depth - 1)
          BY <1>10, <3>6, <3>9
        <5>3. Depth \in 1..Depth
          BY <1>1
        <5>4. QED
          BY <5>1, <5>2, <5>3 DEF GoneUnder
      <4>3. QED
        BY <4>1, <4>2
    <3>12. QED
      BY <1>4, <1>6, <3>6, <3>7, <3>8, <3>10, <3>11, GoHere
  <2>3. CASE run.at # l
    <3>1. run' = run /\ run'.at = run.at
      BY <1>12, <2>3
    <3>2. Stays(run, run', {}) /\ {} \subseteq Top.temps
      BY <3>1 DEF Stays
    <3>3. ~IsCopy(Top, "except") /\ s # "body"
      BY <1>1, <1>5 DEF IsCopy
    <3>4. QED
      BY <1>1, <1>4, <1>6, <1>10, <2>1, <3>1, <3>2, <3>3, WaitCopy
  <2>4. QED
    BY <2>2, <2>3
<1>14. run'.holds \subseteq run.holds \cup T /\ run'.gone \subseteq run.gone
  BY <1>12
<1>15. \E z, D, V : \E U \in SUBSET Nat : TopGoes(z, U, D, V)
  BY <1>4, <1>6
<1>16. Top.node \notin {"for", "clause"}
  BY <1>1
<1>17. QED
  BY <1>1, <1>4, <1>9, <1>13, <1>14, <1>15, <1>16, GoneOn

(* ... and ends.                                                                *)
LEMMA HoldsExceptEnd ==
    ASSUME TempsInv, LabelType, LabelsInv, PlaceInv, HoldsInv, FinallyExceptEnd
    PROVE  HoldsInv'
<1> DEFINE T == Top.temps
<1>nf. ~finished
  BY DEF FinallyExceptEnd, Statement
<1>1. /\ Statement /\ scratch' = {} /\ Depth > 0 /\ Depth \in Nat /\ Top.node = "finally" /\ Top.stage = "except"
      /\ TopGoes("ways", {}, Top.clean, Top.ways)
  BY Frames, MovesOn DEF FinallyExceptEnd, Statement, In
<1>2. CodeNext /\ Beneath
  BY <1>1 DEF CodeNext, TryFinally, TopGoes, Beneath
<1>3. /\ labels = NewLabels(Top.labels, "clause of finally", Depth)
      /\ run.at = Here =>
            /\ Is(run', Top.labels["error"], run.holds \ T, run.fault \/ ~ T \subseteq run.holds, run.gone \ T)
            /\ Left(run, run', Top.labels["error"], Depth)
      /\ \A w \in Ways : run.at = labels[w] /\ labels[w] \in used =>
            /\ Is(run', Top.labels[w], run.holds \ T, run.fault, run.gone \ T)
            /\ Left(run, run', Top.labels[w], Depth)
      /\ run.at # Here /\ (\A w \in Ways : ~(run.at = labels[w] /\ labels[w] \in used)) =>
            Is(run', run.at, run.holds, run.fault, run.gone \ T) /\ Before(run, run')
  BY FinallyExceptEndRun
<1>4. /\ run'.gone = run.gone \ T /\ run'.holds \subseteq run.holds /\ Before(run, run')
  <2>1. CASE run.at = Here
    BY <1>3, <2>1 DEF Is, Left, Before
  <2>2. CASE \E w \in Ways : run.at = labels[w] /\ labels[w] \in used
    <3>1. PICK w \in Ways : run.at = labels[w] /\ labels[w] \in used
      BY <2>2
    <3>2. Is(run', Top.labels[w], run.holds \ T, run.fault, run.gone \ T) /\ Left(run, run', Top.labels[w], Depth)
      BY <1>3, <3>1
    <3>3. QED
      BY <3>2 DEF Is, Left, Before
  <2>3. CASE run.at # Here /\ \A w \in Ways : ~(run.at = labels[w] /\ labels[w] \in used)
    BY <1>3, <2>3 DEF Is
  <2>4. QED
    BY <2>1, <2>2, <2>3
<1>5. ASSUME ~run'.overridden PROVE HeldNext({})
  <2>1. ~run.overridden /\ run'.gone = run.gone \ Top.temps
    BY <1>4, <1>5 DEF Before
  <2>2. CASE run.at = Here
    <3>1. /\ Exact(run, Own(frames, Depth)) /\ run.holds \subseteq Own(frames, Depth) /\ Top.temps \cap run.gone = {}
          /\ CopiesStripped(frames, run.gone, Depth - 1)
      BY <1>1, <2>1, <2>2, TopHere
    <3>2. /\ run'.at = Top.labels["error"] /\ run'.holds = run.holds \ Top.temps
          /\ (run'.fault <=> (run.fault \/ ~ Top.temps \subseteq run.holds)) /\ Left(run, run', Top.labels["error"], Depth)
      BY <1>3, <2>2 DEF Is
    <3>3. "error" \in Ways /\ "error" \notin Loops /\ "error" # "return" /\ Top.labels["error"] # NoLabel
      BY <1>1, OldLabels DEF Ways, Loops
    <3>4. \A t \in run.holds : t \in Own(frames, Depth) \/ ("error" = "error" /\ t \in Counted(Temps))
      BY <3>1
    <3>5. QED
      BY <1>2, <1>5, <2>1, <3>1, <3>2, <3>3, <3>4, LeaveTop
  <2>3. CASE \E w \in Ways : run.at = labels[w] /\ labels[w] \in used
    <3>1. PICK w \in Ways : run.at = labels[w] /\ labels[w] \in used
      BY <2>3
    <3>2. labels[w] = <<Depth, "clause of finally", w>> /\ Top.labels[w] # NoLabel
      BY <1>1, <1>3, <3>1, NewUsed
    <3>3. run.at[1] = Depth /\ run.at[2] = "clause of finally" /\ run.at[3] = w /\ run.at # Here
      <4>1. "clause of finally" \in Groups /\ w \in Names
        BY DEF Groups, Names
      <4>2. \A g \in Groups, x \in Names : <<Depth, g, x>> # Here
        BY <1>1, Tuples
      <4> DEFINE c == <<Depth, "clause of finally", w>>
      <4>3. c # Here /\ c[1] = Depth /\ c[2] = "clause of finally" /\ c[3] = w /\ run.at = c
        BY <3>1, <3>2, <4>1, <4>2
      <4> HIDE DEF c
      <4>4. QED
        BY <4>3
    <3>4. ~Bare(run.at)
      BY <3>3 DEF Bare, Ways
    <3>5. /\ Exact(run, Own(frames, Depth)) /\ CopiesStripped(frames, run.gone, Depth - 1)
          /\ (\A t \in run.holds : t \in Own(frames, Depth) \/ (w = "error" /\ t \in Counted(Temps)))
          /\ (w \in Loops => GoneUnder(frames, run.gone, Depth - 1))
          /\ (w = "return" => Man(frames, Depth - 1) \subseteq run.gone)
      BY <1>nf, <1>1, <2>1, <3>3, <3>4, TopAt DEF Loops
    <3>6. /\ run'.at = Top.labels[w] /\ run'.holds = run.holds \ Top.temps /\ (run'.fault <=> run.fault)
          /\ Left(run, run', Top.labels[w], Depth)
      <4>1. Is(run', Top.labels[w], run.holds \ T, run.fault, run.gone \ T) /\ Left(run, run', Top.labels[w], Depth)
        BY <1>3, <3>1
      <4>2. QED
        BY <4>1 DEF Is
    <3>7. QED
      BY <1>2, <1>5, <2>1, <3>2, <3>5, <3>6, LeaveTop
  <2>4. CASE run.at # Here /\ \A w \in Ways : ~(run.at = labels[w] /\ labels[w] \in used)
    <3>1. run'.at = run.at /\ Stays(run, run', T) /\ T \subseteq Top.temps
      BY <1>3, <2>4 DEF Is, Stays
    <3>2. ASSUME NEW w \in Ways, run.at = <<Depth, "clause of finally", w>>, run.at \in used PROVE FALSE
      <4>1. labels[w] = <<Depth, "clause of finally", w>>
        BY <1>1, <1>3, <3>2, NewUsed
      <4>2. QED
        BY <2>4, <3>2, <4>1
    <3>3. PICK E : E = {}
      OBVIOUS
    <3>4. E \in SUBSET Nat /\ TopGoes("ways", E, Top.clean, Top.ways)
      BY <1>1, <3>3
    <3>5. Top.node = "finally" /\ Top.stage # "body" /\ "ways" # "body"
      BY <1>1
    <3>6. QED
      BY <1>nf, <1>2, <2>1, <2>4, <3>1, <3>2, <3>4, <3>5, WaitCopy
  <2>5. QED
    BY <2>2, <2>3, <2>4
<1>6. run'.holds \subseteq run.holds \cup {} /\ {} \subseteq Temps' /\ run'.gone = run.gone \ Top.temps
  BY <1>4
<1>7. \E z, D, V : \E U \in SUBSET Nat : TopGoes(z, U, D, V)
  BY <1>1
<1>8. QED
  BY <1>nf, <1>1, <1>2, <1>5, <1>6, <1>7, GoneOn

LEMMA HoldsWayEnd ==
    ASSUME TempsInv, LabelType, LabelsInv, PlaceInv, HoldsInv, NEW w \in {"return", "break", "continue"}, FinallyWayEnd(w)
    PROVE  HoldsInv'
<1> DEFINE T == Top.temps
<1>nf. ~finished
  BY DEF FinallyWayEnd, Statement
<1>1. /\ Statement /\ scratch' = {} /\ Depth > 0 /\ Depth \in Nat /\ Top.node = "finally" /\ Top.stage = w
      /\ TopGoes("ways", {}, Top.clean, Top.ways)
  BY Frames, MovesOn DEF FinallyWayEnd, Statement, In
<1>2. CodeNext /\ Beneath /\ w \in Ways
  BY <1>1 DEF CodeNext, TryFinally, TopGoes, Beneath, Ways
<1>3. /\ run.at = Here =>
            /\ Is(run', Top.labels[w], run.holds \ T, run.fault \/ ~ T \subseteq run.holds, run.gone)
            /\ Left(run, run', Top.labels[w], Depth - 1)
      /\ run.at # Here => run' = run
  BY FinallyWayEndRun
<1>4. Top.labels[w] # NoLabel
  <2>1. w \in Loops => Looped(frames, Depth - 1)
    BY <1>1, PlaceFacts DEF WaysOk
  <2>2. QED
    BY <1>1, <1>2, <2>1, OldLabels DEF Loops
<1>5. run'.gone = run.gone /\ run'.holds \subseteq run.holds /\ Before(run, run')
  BY <1>3 DEF Is, Left, Before
<1>6. ~IsCopy(Top, "except") /\ (w \in Loops => ~IsCopy(Top, "return")) /\ (w = "return" => IsCopy(Top, "return"))
  BY <1>1 DEF IsCopy, Loops
<1>7. ASSUME ~run'.overridden PROVE HeldNext({})
  <2>1. ~run.overridden
    BY <1>5, <1>7 DEF Before
  <2>2. CASE run.at = Here
    <3>1. /\ Exact(run, Own(frames, Depth)) /\ run.holds \subseteq Own(frames, Depth) /\ Top.temps \cap run.gone = {}
          /\ CopiesStripped(frames, run.gone, Depth - 1)
          /\ (w \in Loops => GoneUnder(frames, run.gone, Depth - 1))
          /\ (w = "return" => Man(frames, Depth - 1) \subseteq run.gone)
      BY <1>1, <1>6, <2>1, <2>2, TopHere
    <3>2. /\ run'.at = Top.labels[w] /\ run'.holds = run.holds \ Top.temps
          /\ (run'.fault <=> (run.fault \/ ~ Top.temps \subseteq run.holds)) /\ Left(run, run', Top.labels[w], Depth - 1)
      BY <1>3, <2>2 DEF Is
    <3>3. \A t \in run.holds : t \in Own(frames, Depth) \/ (w = "error" /\ t \in Counted(Temps))
      BY <3>1
    <3>4. run'.gone = run.gone \ Top.temps /\ Depth - 1 \in {Depth - 1, Depth}
      BY <1>5, <3>1
    <3>5. QED
      BY <1>2, <1>4, <1>7, <3>1, <3>2, <3>3, <3>4, LeaveTop
  <2>3. CASE run.at # Here
    <3>1. run'.at = run.at /\ Stays(run, run', {}) /\ {} \subseteq Top.temps
      BY <1>3, <2>3 DEF Stays
    <3>2. PICK E : E = {}
      OBVIOUS
    <3>3. E \in SUBSET Nat /\ TopGoes("ways", E, Top.clean, Top.ways)
      BY <1>1, <3>2
    <3>4. Top.node = "finally" /\ Top.stage # "body" /\ "ways" # "body"
      BY <1>1
    <3>5. QED
      BY <1>nf, <1>2, <1>6, <2>1, <2>3, <3>1, <3>3, <3>4, WaitCopy
  <2>4. QED
    BY <2>2, <2>3
<1>8. run'.holds \subseteq run.holds \cup {} /\ {} \subseteq Temps' /\ run'.gone \subseteq run.gone
  BY <1>5
<1>9. \E z, D, V : \E U \in SUBSET Nat : TopGoes(z, U, D, V)
  BY <1>1
<1>10. Top.node \notin {"for", "clause"}
  BY <1>1
<1>11. QED
  BY <1>nf, <1>1, <1>2, <1>6, <1>7, <1>8, <1>9, <1>10, GoneOn

(* The label of a statement.                                                    *)
Tag(l, n, g, x) == l = <<n, g, x>>

LEMMA Tagged ==
    ASSUME NEW n \in Nat, n > 0, NEW g \in Groups, NEW x \in Names, NEW l, Tag(l, n, g, x)
    PROVE  l[1] = n /\ l[2] = g /\ l[3] = x /\ l \in Label /\ l # Here /\ l # Done
<1>1. /\ <<n, g, x>> \in Label /\ <<n, g, x>>[1] = n /\ <<n, g, x>>[2] = g /\ <<n, g, x>>[3] = x
      /\ <<n, g, x>> # Here /\ <<n, g, x>> # Done
  BY Tuples
<1>2. QED
  BY <1>1 DEF Tag

(* An except clause begins: what a return has released is under way, or the return is    *)
(* overridden.                                                                   *)
LEMMA AllUnderWay ==
    ASSUME TempsInv, NEW gone, gone \subseteq Nat, \A u \in gone : UnderWay(u, Depth)
    PROVE  GoneUnder(frames, gone, Depth)
<1>1. Depth \in Nat
  BY Frames
<1>2. ASSUME NEW u \in gone
      PROVE  \E c \in 1..Depth : (IsCopy(frames[c], "return") \/ IsCopy(frames[c], "except")) /\ u \in Own(frames, c - 1)
  <2>1. PICK c \in 1..Depth : /\ Copy(c, "return") \/ Copy(c, "except")
                              /\ \E i \in 1..(c - 1) : u \in frames[i].temps
    BY <1>2 DEF UnderWay
  <2>2. u \in Own(frames, c - 1)
    BY <1>2, <2>1 DEF Own
  <2>3. QED
    BY <2>1, <2>2 DEF Copy, IsCopy
<1>3. QED
  BY <1>2 DEF GoneUnder

LEMMA HoldsClauseBegin ==
    ASSUME TempsInv, LabelType, LabelsInv, PlaceInv, HoldsInv, NEW t \in 1..MaxTemps, NEW k \in Kind, ClauseBegin(t, k)
    PROVE  HoldsInv'
<1> DEFINE T == {t}
           E == labels["error"]
           N == <<Depth + 1, "clause", "no match">>
<1>nf. ~finished
  BY DEF ClauseBegin, Statement
<1>1. /\ Depth \in Nat /\ Depth > 0 /\ ~finished /\ Opens(Handled, "clause", T) /\ scratch = {} /\ scratch' = {}
      /\ (In("except", "handlers") \/ In("except", "handled")) /\ AllocateTemp(t, k)
      /\ Top = frames[Depth] /\ Top.node = "except" /\ Top.stage \in {"handlers", "handled"}
  BY Frames, Begins DEF ClauseBegin, In
<1>2. CodeNext
  BY DEF CodeNext, TryExcept
<1>3. /\ Handled[Depth].stage = "handled" /\ Handled[Depth].clean = frames[Depth].clean
      /\ \A i \in 1..(Depth - 1) : Handled[i] = frames[i]
      /\ \A i \in 1..Depth : Handled[i].node = frames[i].node /\ Handled[i].temps = frames[i].temps
                             /\ Handled[i].clean = frames[i].clean
  BY <1>1, HandledFrames
<1>4. /\ Depth' = Depth + 1 /\ \A i \in 1..Depth : frames'[i] = Handled[i]
      /\ frames'[Depth + 1].temps = T /\ frames'[Depth + 1].stage = "body"
  BY <1>1 DEF Opens
<1>5. /\ \A i \in 1..(Depth - 1) : frames'[i] = frames[i]
      /\ Depth \in 1..Depth /\ frames'[Depth].node = "except" /\ frames'[Depth].stage = "handled"
      /\ frames'[Depth].temps = Top.temps /\ frames'[Depth].clean = Top.clean
  BY <1>1, <1>3, <1>4
<1>6. SameOwn(frames, frames', Depth)
  <2>1. \A i \in 1..Depth : i = Depth \/ i \in 1..(Depth - 1)
    BY <1>1
  <2>2. \A i \in 1..Depth : frames'[i].temps = frames[i].temps /\ frames'[i].node = frames[i].node
    BY <1>3, <1>4
  <2>3. ASSUME NEW i \in 1..Depth
        PROVE  /\ (IsCopy(frames'[i], "return") <=> IsCopy(frames[i], "return"))
               /\ (IsCopy(frames'[i], "except") <=> IsCopy(frames[i], "except"))
    <3>1. CASE i = Depth
      BY <1>1, <1>5, <3>1 DEF IsCopy
    <3>2. CASE i \in 1..(Depth - 1)
      BY <1>5, <3>2
    <3>3. QED
      BY <2>1, <3>1, <3>2
  <2>4. QED
    BY <2>2, <2>3 DEF SameOwn
<1>7. /\ Own(frames', Depth) = Own(frames, Depth) /\ Ref(frames', Depth) = Ref(frames, Depth)
      /\ \A gone : GoneUnder(frames, gone, Depth) => GoneUnder(frames', gone, Depth)
      /\ \A gone : CopiesStripped(frames, gone, Depth) => CopiesStripped(frames', gone, Depth)
  <2>1. Depth \in 0..Depth
    BY <1>1
  <2>2. QED
    BY <1>1, <1>6, <2>1, OwnAlike
<1>8. Ref(frames', Depth) \subseteq Ref(frames', Depth + 1)
  <2>1. Depth + 1 \in Nat /\ Depth <= Depth + 1
    BY <1>1
  <2>2. QED
    BY <1>1, <2>1, OwnGrows
<1>9. T \in SUBSET Nat /\ T \subseteq Temps' /\ T \cap InUse = {}
  <2>1. Grows({t}) /\ t \in Nat /\ t \notin InUse
    BY <1>1, Allocated
  <2>2. QED
    BY <2>1 DEF Grows
<1>10. /\ E = <<Depth, "except", "error">> /\ E \in Label
  <2>1. labels = [NewLabels(Top.labels, "try", Depth) EXCEPT !["error"] = <<Depth, "except", "error">>,
                                                             !["return"] = <<Depth, "except", "return">>]
    BY <1>1, LabelsTop DEF Within
  <2>2. QED
    BY <2>1, ErrorMarked DEF NewLabels, Ways
<1>11. /\ E[1] = Depth /\ E[2] = "except" /\ E[3] = "error" /\ E # Here /\ E # Done
       /\ N[1] = Depth + 1 /\ N[2] = "clause" /\ N[3] = "no match" /\ N \in Label /\ N # Here /\ N # Done
  <2>1. "clause" \in Groups /\ "except" \in Groups /\ "no match" \in Names /\ "error" \in Names
    BY DEF Groups, Names, Ways
  <2>2. PICK j \in Nat : j = Depth + 1 /\ j > 0
    BY <1>1
  <2>3. Tag(E, Depth, "except", "error") /\ Tag(N, j, "clause", "no match")
    BY <1>10, <2>2 DEF Tag
  <2> HIDE DEF E, N
  <2>4. E[1] = Depth /\ E[2] = "except" /\ E[3] = "error" /\ E # Here /\ E # Done
    <3>1. PICK g, x : g = "except" /\ x = "error"
      OBVIOUS
    <3>2. Tag(E, Depth, g, x) /\ g \in Groups /\ x \in Names
      BY <2>1, <2>3, <3>1
    <3>3. E[1] = Depth /\ E[2] = g /\ E[3] = x /\ E # Here /\ E # Done
      BY <1>1, <3>2, Tagged
    <3>4. QED
      BY <3>1, <3>3
  <2>5. N[1] = j /\ N[2] = "clause" /\ N[3] = "no match" /\ N \in Label /\ N # Here /\ N # Done
    <3>1. PICK g, x : g = "clause" /\ x = "no match"
      OBVIOUS
    <3>2. Tag(N, j, g, x) /\ g \in Groups /\ x \in Names
      BY <2>1, <2>3, <3>1
    <3>3. N[1] = j /\ N[2] = g /\ N[3] = x /\ N \in Label /\ N # Here /\ N # Done
      BY <2>2, <3>2, Tagged
    <3>4. QED
      BY <3>1, <3>3
  <2>6. QED
    BY <2>2, <2>4, <2>5
<1>12. /\ run.at = Here =>
              \/ /\ Is(run', Here, run.holds \cup T, run.fault \/ T \cap run.holds # {}, run.gone)
                 /\ Before(run, run') /\ (~run'.overridden => \A u \in run.gone : UnderWay(u, Depth))
              \/ Is(run', E, run.holds, run.fault, run.gone) /\ Left(run, run', E, Depth)
              \/ Is(run', N, run.holds, run.fault, run.gone) /\ Left(run, run', N, Depth)
       /\ run.at # Here => run' = run
  BY ClauseBeginRun
<1> HIDE DEF T, E, N
<1>13. run'.holds \subseteq run.holds \cup T /\ run'.gone = run.gone /\ Before(run, run')
  BY <1>12 DEF Is, Left, Before
<1>14. run.holds \subseteq Temps /\ run.gone \subseteq Ref(frames, Depth) /\ Temps \subseteq Temps' /\ run.gone \subseteq InUse
       /\ run.gone \subseteq Nat
  <2>1. Ref(frames, Depth) \subseteq Nat
    BY DEF Ref
  <2>2. QED
    BY <1>1, <1>2, <2>1, HoldsFacts, Grown
<1>15. run'.holds \subseteq Temps' /\ run'.gone \subseteq Ref(frames', Depth')
  BY <1>4, <1>7, <1>8, <1>9, <1>13, <1>14
<1>16. ASSUME ~run'.overridden PROVE HeldNext({})
  <2>1. ~run.overridden
    BY <1>13, <1>16 DEF Before
  <2>2. CASE run.at = Here
    <3>1. HeldHere(run, frames, Depth, {})
      <4>1. Counted(scratch) = {}
        BY <1>1 DEF Counted
      <4>2. QED
        BY <1>1, <2>1, <2>2, <4>1, HoldsFacts
    <3>2. Exact(run, Own(frames, Depth)) /\ run.holds \subseteq Own(frames, Depth) /\ CopiesStripped(frames, run.gone, Depth)
      BY <3>1 DEF HeldHere, Exact
    <3>3. CASE /\ Is(run', Here, run.holds \cup T, run.fault \/ T \cap run.holds # {}, run.gone)
               /\ \A u \in run.gone : UnderWay(u, Depth)
      <4>1. GoneUnder(frames, run.gone, Depth)
        BY <1>14, <3>3, AllUnderWay
      <4>2. T \cap run.gone = {} /\ T \cap run.holds = {}
        <5>1. Own(frames, Depth) \subseteq InUse
          BY OwnFacts
        <5>2. QED
          BY <1>9, <1>14, <3>2, <5>1
      <4>3. run'.at = Here /\ run'.holds = run.holds \cup T /\ ~run'.fault /\ run'.gone = run.gone
        BY <3>2, <3>3, <4>2 DEF Is, Exact
      <4>4. HeldHere(run', frames', Depth + 1, {})
        BY <1>1, <1>4, <1>6, <1>9, <3>1, <4>1, <4>2, <4>3, HerePush
      <4>5. QED
        BY <1>4, <4>3, <4>4 DEF HeldNext
    <3>4. CASE Is(run', E, run.holds, run.fault, run.gone)
      <4>1. run'.at = E /\ run'.holds = run.holds /\ (run'.fault <=> run.fault) /\ run'.gone = run.gone
        BY <3>4 DEF Is
      <4>2. Level(E) = Depth
        <5>1. ~Bare(E)
          BY <1>11 DEF Bare
        <5>2. QED
          BY <1>10, <1>11, <5>1, Levels
      <4>3. Exact(run', Own(frames', Depth)) /\ run'.holds \subseteq Own(frames', Depth)
        BY <1>7, <3>2, <4>1 DEF Exact
      <4>4. CopiesStripped(frames', run'.gone, Depth - 1)
        <5>1. CopiesStripped(frames', run'.gone, Depth)
          BY <1>7, <3>2, <4>1
        <5>2. Depth - 1 \in Nat /\ Depth - 1 <= Depth
          BY <1>1
        <5>3. QED
          BY <1>1, <5>1, <5>2, OwnGrows
      <4>5. HeldAt(run', frames', E, Counted(Temps)')
        BY <1>11, <4>2, <4>3, <4>4 DEF HeldAt
      <4>6. QED
        BY <1>11, <4>1, <4>5 DEF HeldNext
    <3>5. CASE Is(run', N, run.holds, run.fault, run.gone)
      <4>1. run'.at = N /\ run'.holds = run.holds /\ (run'.fault <=> run.fault) /\ run'.gone = run.gone
        BY <3>5 DEF Is
      <4>2. Level(N) = Depth /\ N[1] - 1 = Depth
        <5>1. Bare(N)
          BY <1>11 DEF Bare
        <5>2. N[1] > 0 /\ N[1] - 1 = Depth
          <6>1. Depth \in Nat
            BY <1>1
          <6>2. N[1] = Depth + 1
            BY <1>11
          <6>3. QED
            BY <6>1, <6>2
        <5>3. Level(N) = N[1] - 1
          BY <1>11, <5>1, <5>2, Levels
        <5>4. QED
          BY <5>2, <5>3
      <4>3. Exact(run', Own(frames', Depth)) /\ run'.holds \subseteq Own(frames', Depth) /\ CopiesStripped(frames', run'.gone, Depth)
        BY <1>7, <3>2, <4>1 DEF Exact
      <4>4. HeldAt(run', frames', N, Counted(Temps)')
        BY <1>11, <4>2, <4>3 DEF HeldAt
      <4>5. QED
        BY <1>11, <4>1, <4>4 DEF HeldNext
    <3>6. QED
      BY <1>12, <1>16, <2>2, <3>3, <3>4, <3>5
  <2>3. CASE run.at # Here
    <3>1. run' = run /\ run'.at = run.at
      BY <1>12, <2>3
    <3>2. CASE run.at[1] # Depth
      <4>1. Stays(run, run', {}) /\ {} \subseteq Top.temps /\ Beneath
        BY <1>1, <1>5, <3>1 DEF Stays, Beneath
      <4>2. QED
        BY <1>nf, <1>2, <2>1, <2>3, <3>1, <3>2, <4>1, WaitBelow
    <3>3. CASE run.at[1] = Depth
      <4>1. HeldAt(run, frames, run.at, Counted(Temps)) /\ run.at \in Label /\ run.at # Done
        BY <1>1, <2>1, <2>3, HoldsFacts
      <4>2. Counted(Temps) \subseteq Counted(Temps)'
        BY <1>2, Grown
      <4>3. PICK n \in Nat : n = Depth - 1 /\ Depth = n + 1
        BY <1>1
      <4>4. SameTo(frames, frames', n) /\ Top.temps \subseteq Nat
        <5>1. n \in 0..(Depth - 1)
          BY <4>3
        <5>2. QED
          BY <1>1, <1>5, <5>1, SameFrom, OwnTop
      <4>5. StaysPut(frames, frames', Depth, run.at)
        BY <1>1, <1>5, <4>4 DEF StaysPut
      <4>6. run.at[2] \in {"try", "finally"} /\ run.at[3] = "error" /\ frames'[Depth].stage # "body" =>
               run.holds \subseteq Own(frames, Level(run.at)) \cup frames'[Depth].clean
        BY <1>1, <1>5, <2>1, <2>3, <3>3, TopAt
      <4>7. PICK G : G = {}
        OBVIOUS
      <4>8. G \cap Own(frames, Level(run.at)) = {} /\ G \cap Man(frames, Depth) = {} /\ Stays(run, run', G)
        BY <3>1, <4>7 DEF Stays
      <4>9. HeldAt(run', frames', run.at, Counted(Temps)')
        BY <3>3, <4>1, <4>2, <4>3, <4>4, <4>5, <4>6, <4>8, HeldLift
      <4>10. QED
        BY <2>3, <3>1, <4>1, <4>9 DEF HeldNext
    <3>4. QED
      BY <3>2, <3>3
  <2>4. QED
    BY <2>2, <2>3
<1>17. Counted(scratch)' = {}
  BY <1>1 DEF Counted
<1>18. QED
  BY <1>15, <1>16, <1>17, HoldsNext

(* An except clause ends: the try is handled, or a break or continue leaves it.         *)
LEMMA HoldsClauseEnd ==
    ASSUME TempsInv, LabelType, LabelsInv, PlaceInv, HoldsInv, ClauseEnd
    PROVE  HoldsInv'
<1> DEFINE T == Top.temps
           H == <<Depth - 1, "try", "handled">>
           N == <<Depth, "clause", "no match">>
<1>nf. ~finished
  BY DEF ClauseEnd, Statement
<1>1. /\ Statement /\ scratch' = {} /\ Depth > 0 /\ Depth \in Nat /\ Top.node = "clause" /\ TopEnds
      /\ Depth \in {Depth - 1, Depth}
  BY Frames, Ends DEF ClauseEnd, Statement, In
<1>2. CodeNext /\ Beneath
  BY <1>1 DEF CodeNext, TryExcept, TopEnds, Beneath
<1>3. /\ \A w \in Loops : labels[w] = <<Depth, "clause", w>>
      /\ run.at = Here => Is(run', H, run.holds \ T, run.fault, run.gone \ T) /\ Left(run, run', H, Depth)
      /\ \A w \in Loops : run.at = labels[w] /\ labels[w] \in used =>
            /\ Is(run', Top.labels[w], run.holds \ T, run.fault \/ ~ T \subseteq run.holds, run.gone \ T)
            /\ Left(run, run', Top.labels[w], Depth)
      /\ run.at = N => Is(run', Here, run.holds, run.fault, run.gone \ T) /\ Before(run, run')
      /\ run.at \notin {Here, N} /\ (\A w \in Loops : ~(run.at = labels[w] /\ labels[w] \in used)) =>
            Is(run', run.at, run.holds, run.fault, run.gone \ T) /\ Before(run, run')
  BY ClauseEndRun
<1>4. /\ Depth - 1 > 0 /\ Depth - 1 \in Nat /\ frames[Depth - 1].node = "except" /\ frames[Depth - 1].stage = "handled"
      /\ frames'[Depth - 1] = frames[Depth - 1]
  <2>1. ClauseOk(frames, Depth) /\ Top = frames[Depth]
    BY <1>1, LabelsTop
  <2>2. Depth > 1 /\ frames[Depth - 1].node = "except" /\ frames[Depth - 1].stage = "handled"
    BY <1>1, <2>1 DEF ClauseOk
  <2>3. Depth - 1 > 0 /\ Depth - 1 \in Nat /\ Depth - 1 \in 1..(Depth - 1)
    BY <1>1, <2>2
  <2>4. QED
    BY <1>1, <2>2, <2>3 DEF TopEnds
<1>5. PICK j \in Nat : j = Depth - 1 /\ j > 0
  BY <1>4
<1>6. /\ H[1] = Depth - 1 /\ H[2] = "try" /\ H[3] = "handled" /\ H \in Label /\ H # Here /\ H # Done
      /\ N[1] = Depth /\ N[2] = "clause" /\ N[3] = "no match" /\ N # Here
  <2>1. "clause" \in Groups /\ "try" \in Groups /\ "no match" \in Names /\ "handled" \in Names
    BY DEF Groups, Names
  <2>2. Tag(H, j, "try", "handled") /\ Tag(N, Depth, "clause", "no match")
    BY <1>5 DEF Tag
  <2> HIDE DEF H, N
  <2>3. H[1] = j /\ H[2] = "try" /\ H[3] = "handled" /\ H \in Label /\ H # Here /\ H # Done
    <3>1. PICK g, x : g = "try" /\ x = "handled"
      OBVIOUS
    <3>2. Tag(H, j, g, x) /\ g \in Groups /\ x \in Names
      BY <2>1, <2>2, <3>1
    <3>3. H[1] = j /\ H[2] = g /\ H[3] = x /\ H \in Label /\ H # Here /\ H # Done
      BY <1>5, <3>2, Tagged
    <3>4. QED
      BY <3>1, <3>3
  <2>4. N[1] = Depth /\ N[2] = "clause" /\ N[3] = "no match" /\ N # Here
    <3>1. PICK g, x : g = "clause" /\ x = "no match"
      OBVIOUS
    <3>2. Tag(N, Depth, g, x) /\ g \in Groups /\ x \in Names
      BY <2>1, <2>2, <3>1
    <3>3. N[1] = Depth /\ N[2] = g /\ N[3] = x /\ N # Here
      BY <1>1, <3>2, Tagged
    <3>4. QED
      BY <3>1, <3>3
  <2>5. QED
    BY <1>5, <2>3, <2>4
<1>7. ASSUME NEW w \in Loops
      PROVE  labels[w][1] = Depth /\ labels[w][2] = "clause" /\ labels[w][3] = w /\ labels[w] # Here
  <2>1. "clause" \in Groups /\ w \in Names
    BY DEF Groups, Names, Ways, Loops
  <2>2. PICK g : g = "clause"
    OBVIOUS
  <2>3. Tag(labels[w], Depth, g, w)
    BY <1>3, <2>2 DEF Tag
  <2>4. labels[w][1] = Depth /\ labels[w][2] = g /\ labels[w][3] = w /\ labels[w] # Here
    BY <1>1, <2>1, <2>2, <2>3, Tagged
  <2>5. QED
    BY <2>2, <2>4
<1> HIDE DEF T, H, N
<1>8. run'.holds \subseteq run.holds \cup {} /\ run'.gone = run.gone \ T /\ Before(run, run')
  <2>1. CASE run.at \in {Here, N}
    BY <1>3, <2>1 DEF Is, Left, Before
  <2>2. CASE \E w \in Loops : run.at = labels[w] /\ labels[w] \in used
    <3>1. PICK w \in Loops : run.at = labels[w] /\ labels[w] \in used
      BY <2>2
    <3>2. /\ Is(run', Top.labels[w], run.holds \ T, run.fault \/ ~ T \subseteq run.holds, run.gone \ T)
          /\ Left(run, run', Top.labels[w], Depth)
      BY <1>3, <3>1
    <3>3. QED
      BY <3>2 DEF Is, Left, Before
  <2>3. CASE run.at \notin {Here, N} /\ \A w \in Loops : ~(run.at = labels[w] /\ labels[w] \in used)
    BY <1>3, <2>3 DEF Is
  <2>4. QED
    BY <2>1, <2>2, <2>3
<1>9. ASSUME ~run'.overridden PROVE HeldNext({})
  <2>1. ~run.overridden /\ run'.gone = run.gone \ Top.temps
    BY <1>8, <1>9 DEF Before, T
  <2>2. CASE run.at = Here
    <3>1. /\ Exact(run, Own(frames, Depth)) /\ run.holds \subseteq Own(frames, Depth) /\ Top.temps \cap run.gone = {}
          /\ CopiesStripped(frames, run.gone, Depth - 1) /\ GoneUnder(frames, run.gone, Depth - 1)
      BY <1>1, <2>1, <2>2, TopHere DEF IsCopy
    <3>2. run'.at = H /\ run'.holds = run.holds \ Top.temps /\ (run'.fault <=> run.fault)
      BY <1>3, <2>2 DEF Is, T
    <3>3. Exact(run', Own(frames, Depth - 1)) /\ run'.holds \subseteq Own(frames, Depth - 1)
      BY <1>1, <2>1, <3>1, <3>2, LetGo
    <3>4. run'.gone = run.gone
      BY <2>1, <3>1
    <3>5. /\ CopiesStripped(frames', run'.gone, Depth - 1) /\ GoneUnder(frames', run'.gone, Depth - 1)
          /\ Own(frames', Depth - 1) = Own(frames, Depth - 1)
      BY <1>1, <1>2, <3>1, <3>4, BelowFacts DEF Beneath
    <3>6. GoneUnder(frames', run'.gone, j - 1) /\ CopiesStripped(frames', run'.gone, j - 1)
      <4>1. PICK i \in Nat : i = j - 1 /\ i + 1 = j /\ i <= j
        BY <1>5
      <4>2. ~IsCopy(frames'[i + 1], "return") /\ ~IsCopy(frames'[i + 1], "except")
        BY <1>4, <1>5, <4>1 DEF IsCopy
      <4>3. GoneUnder(frames', run'.gone, i + 1) /\ CopiesStripped(frames', run'.gone, j)
        BY <1>5, <3>5, <4>1
      <4>4. GoneUnder(frames', run'.gone, i)
        BY <4>1, <4>2, <4>3, WaysLast
      <4>5. CopiesStripped(frames', run'.gone, i)
        BY <1>5, <4>1, <4>3, OwnGrows
      <4>6. QED
        BY <4>1, <4>4, <4>5
    <3>7. Level(H) = Depth - 1
      <4>1. ~Bare(H)
        BY <1>6 DEF Bare
      <4>2. QED
        BY <1>6, <4>1, Levels
    <3>8. Exact(run', Own(frames', Level(H))) /\ run'.holds \subseteq Own(frames', Level(H))
      BY <3>3, <3>5, <3>7
    <3>9. GoneUnder(frames', run'.gone, H[1] - 1) /\ CopiesStripped(frames', run'.gone, H[1] - 1)
      BY <1>5, <1>6, <3>6
    <3>10. QED
      BY <1>6, <3>2, <3>8, <3>9, AtInternal
  <2>3. CASE \E w \in Loops : run.at = labels[w] /\ labels[w] \in used
    <3>1. PICK w \in Loops : run.at = labels[w] /\ labels[w] \in used
      BY <2>3
    <3>2. run.at[1] = Depth /\ run.at[2] = "clause" /\ run.at[3] = w /\ run.at # Here
      BY <1>7, <3>1
    <3>3. w \in Ways /\ w \notin {"error", "return", "no match"} /\ w \in Loops
      BY DEF Loops, Ways
    <3>4. Top.labels[w] # NoLabel
      <4>1. PICK g : g = "clause"
        OBVIOUS
      <4>2. <<Depth, g, w>> \in used
        BY <1>3, <3>1, <4>1
      <4>3. ~LoopBody(Top) /\ Top.node # "for"
        BY <1>1 DEF LoopBody
      <4>4. QED
        BY <1>1, <4>2, <4>3, LoopAround
    <3>5. ~Bare(run.at)
      BY <3>2, <3>3 DEF Bare
    <3>6. /\ Exact(run, Own(frames, Depth)) /\ CopiesStripped(frames, run.gone, Depth - 1)
          /\ GoneUnder(frames, run.gone, Depth - 1) /\ Top.temps \cap run.gone = {}
          /\ (\A t \in run.holds : t \in Own(frames, Depth) \/ (w = "error" /\ t \in Counted(Temps)))
      BY <1>nf, <1>1, <2>1, <3>2, <3>3, <3>5, TopAt
    <3>7. /\ run'.at = Top.labels[w] /\ run'.holds = run.holds \ Top.temps
          /\ (run'.fault <=> (run.fault \/ ~ Top.temps \subseteq run.holds))
          /\ Left(run, run', Top.labels[w], Depth)
      <4>1. /\ Is(run', Top.labels[w], run.holds \ T, run.fault \/ ~ T \subseteq run.holds, run.gone \ T)
            /\ Left(run, run', Top.labels[w], Depth)
        BY <1>3, <3>1
      <4>2. QED
        BY <4>1 DEF Is, T
    <3>8. QED
      BY <1>2, <1>9, <2>1, <3>3, <3>4, <3>6, <3>7, LeaveTop
  <2>4. CASE run.at = N
    <3>1. Is(run', Here, run.holds, run.fault, run.gone \ T)
      BY <1>3, <2>4
    <3>2. run.at # Here /\ run.at[1] = Depth /\ run.at[3] = "no match"
      BY <1>6, <2>4
    <3>3. Bare(run.at)
      BY <3>2 DEF Bare
    <3>4. /\ Exact(run, Own(frames, Depth - 1)) /\ CopiesStripped(frames, run.gone, Depth - 1)
          /\ run.holds \subseteq Own(frames, Depth - 1)
      BY <1>nf, <1>1, <2>1, <3>2, <3>3, TopAt
    <3>5. Top.temps \cap Own(frames, Depth - 1) = {} /\ Top.temps \cap Man(frames, Depth - 1) = {}
      BY <1>1, OwnTop
    <3>6. run'.at = Here /\ run'.holds = run.holds /\ (run'.fault <=> run.fault)
      BY <3>1 DEF Is
    <3>7. Exact(run', Own(frames, Depth - 1)) /\ run'.holds \subseteq Own(frames, Depth - 1)
      BY <2>1, <3>4, <3>5, <3>6 DEF Exact
    <3>8. CopiesStripped(frames, run'.gone, Depth - 1)
      <4>1. CopiesStripped(frames, run.gone \ Top.temps, Depth - 1)
        BY <1>4, <3>4, <3>5, LessGone
      <4>2. QED
        BY <2>1, <4>1
    <3>9. QED
      BY <1>1, <1>4, <3>6, <3>7, <3>8, EndHere
  <2>5. CASE run.at \notin {Here, N} /\ \A w \in Loops : ~(run.at = labels[w] /\ labels[w] \in used)
    <3>1. run'.at = run.at /\ Stays(run, run', Top.temps) /\ Top.temps \subseteq Top.temps
      BY <1>3, <2>5 DEF Is, Stays, T
    <3>2. ASSUME run.at[1] = Depth PROVE FALSE
      <4>1. /\ run.at = <<Depth, run.at[2], run.at[3]>>
            /\ InternalOf(Top, run.at[2], run.at[3]) \/ (Put(Top, run.at[2], run.at[3]) /\ run.at \in used)
        BY <1>1, <2>5, <3>2, WaitsTop DEF Statement
      <4>2. \/ run.at = N
            \/ run.at \in used /\ run.at[3] \in Loops /\ run.at = <<Depth, "clause", run.at[3]>>
        BY <1>1, <4>1 DEF InternalOf, Put, JumpOf, EarlierOf, N
      <4>3. QED
        BY <1>3, <2>5, <4>2
    <3>3. QED
      BY <1>nf, <1>2, <2>1, <2>5, <3>1, <3>2, WaitBelow
  <2>6. QED
    BY <2>2, <2>3, <2>4, <2>5
<1>10. run'.gone = run.gone \ Top.temps /\ {} \subseteq Temps'
  BY <1>8 DEF T
<1>11. QED
  BY <1>nf, <1>1, <1>2, <1>8, <1>9, <1>10, GoneOn

(* A try-except ends: what no clause has matched is raised, and every way out goes on.   *)
LEMMA HoldsTryEnd ==
    ASSUME TempsInv, LabelType, LabelsInv, PlaceInv, HoldsInv, TryEnd
    PROVE  HoldsInv'
<1> DEFINE T == Top.temps
           E == Top.labels["error"]
           R == <<Depth, "except", "error">>
           H == <<Depth, "try", "handled">>
           N == <<Depth, "try", "end">>
           A == {<<Depth, "try", "break">>, <<Depth, "try", "continue">>, <<Depth, "try", "return">>,
                 <<Depth, "except", "return">>}
<1>nf. ~finished
  BY DEF TryEnd, Statement
<1>1. /\ scratch = {} /\ scratch' = {} /\ ~finished /\ Depth > 0 /\ Depth \in Nat /\ Top.node = "except"
      /\ Top.stage = "handled" /\ TopEnds /\ Depth \in {Depth - 1, Depth}
  BY Frames, Ends DEF TryEnd, In
<1>2. CodeNext /\ Beneath
  BY <1>1 DEF CodeNext, TryExcept, TopEnds, Beneath
<1>3. /\ run.at \in {Here, R} =>
            /\ Is(run', E, run.holds \ T, run.fault \/ ~ T \subseteq run.holds, run.gone \ T)
            /\ Left(run, run', E, Depth)
      /\ run.at \in A /\ run.at \in used =>
            /\ Is(run', Top.labels[run.at[3]], run.holds \ T, run.fault \/ ~ T \subseteq run.holds, run.gone \ T)
            /\ Left(run, run', Top.labels[run.at[3]], Depth)
      /\ run.at = H => /\ Is(run', Here, run.holds \ T, run.fault \/ ~ T \subseteq run.holds, run.gone \ T)
                       /\ Before(run, run')
      /\ run.at = N => Is(run', Here, run.holds, run.fault, run.gone \ T) /\ Before(run, run')
      /\ run.at \notin {Here, R, H, N} /\ ~(run.at \in A /\ run.at \in used) =>
            Is(run', run.at, run.holds, run.fault, run.gone \ T) /\ Before(run, run')
  BY TryEndRun
<1>4. run.at \in {R, H, N} \cup A => \E g \in {"try", "except"}, w \in {"error", "handled", "end", "return", "break", "continue"} :
            /\ Tag(run.at, Depth, g, w)
            /\ (run.at = R => g = "except" /\ w = "error") /\ (run.at = H => g = "try" /\ w = "handled")
            /\ (run.at = N => g = "try" /\ w = "end") /\ (run.at \in A => w \in {"return", "break", "continue"})
  BY DEF Tag
<1>5. run.at \in {R, H, N} \cup A =>
            /\ run.at[1] = Depth /\ run.at # Here /\ run.at = <<Depth, run.at[2], run.at[3]>> /\ run.at[2] \in {"try", "except"}
            /\ (run.at = R => run.at[2] = "except" /\ run.at[3] = "error")
            /\ (run.at = H => run.at[2] = "try" /\ run.at[3] = "handled")
            /\ (run.at = N => run.at[2] = "try" /\ run.at[3] = "end")
            /\ (run.at \in A => run.at[3] \in {"return", "break", "continue"})
  <2>1. CASE run.at \in {R, H, N} \cup A
    <3>1. PICK g \in {"try", "except"}, w \in {"error", "handled", "end", "return", "break", "continue"} :
            /\ Tag(run.at, Depth, g, w)
            /\ (run.at = R => g = "except" /\ w = "error") /\ (run.at = H => g = "try" /\ w = "handled")
            /\ (run.at = N => g = "try" /\ w = "end") /\ (run.at \in A => w \in {"return", "break", "continue"})
      BY <1>4, <2>1
    <3>2. g \in Groups /\ w \in Names
      BY <3>1 DEF Groups, Names, Ways
    <3>3. run.at[1] = Depth /\ run.at[2] = g /\ run.at[3] = w /\ run.at # Here
      BY <1>1, <3>1, <3>2, Tagged
    <3>4. run.at = <<Depth, run.at[2], run.at[3]>>
      BY <3>1, <3>3 DEF Tag
    <3> HIDE DEF R, H, N, A
    <3>5. QED
      BY <3>1, <3>3, <3>4
  <2> HIDE DEF R, H, N, A
  <2>2. QED
    BY <2>1
<1> HIDE DEF T, E, R, H, N, A
<1>6. /\ run'.holds \subseteq run.holds \cup {} /\ run'.gone = run.gone \ T /\ Before(run, run')
  BY <1>3 DEF Is, Left, Before
<1>7. run.gone \cap Top.temps = {} /\ run'.gone = run.gone
  <2>1. run.gone \subseteq Ref(frames, Depth)
    BY <1>1, HoldsFacts
  <2>2. ~IsCopy(Top, "except") /\ Top.node \notin {"for", "clause"}
    BY <1>1 DEF IsCopy
  <2>3. run.gone \subseteq Own(frames, Depth - 1) /\ Top.temps \cap Own(frames, Depth - 1) = {}
    BY <1>1, <2>1, <2>2, OwnTop
  <2>4. QED
    BY <1>6, <2>3 DEF T
<1>8. Top.labels["error"] # NoLabel /\ Top.labels["return"] # NoLabel
  BY <1>1, OldLabels
<1>9. ASSUME ~run'.overridden PROVE HeldNext({})
  <2>1. ~run.overridden /\ run'.gone = run.gone \ Top.temps
    BY <1>6, <1>9 DEF Before, T
  <2>2. CASE run.at \in {Here, R}
    <3>1. /\ Exact(run, Own(frames, Depth)) /\ CopiesStripped(frames, run.gone, Depth - 1)
          /\ \A t \in run.holds : t \in Own(frames, Depth) \/ ("error" = "error" /\ t \in Counted(Temps))
      <4>1. CASE run.at = Here
        <5>1. HeldHere(run, frames, Depth, Counted(scratch))
          BY <1>1, <2>1, <4>1, HoldsFacts
        <5>2. Counted(scratch) = {}
          BY <1>1 DEF Counted
        <5>3. Exact(run, Own(frames, Depth)) /\ run.holds \subseteq Own(frames, Depth) /\ CopiesStripped(frames, run.gone, Depth)
          BY <5>1, <5>2 DEF HeldHere, Exact
        <5>4. CopiesStripped(frames, run.gone, Depth - 1)
          <6>1. PICK n \in Nat : n = Depth - 1 /\ n <= Depth
            BY <1>1
          <6>2. QED
            BY <1>1, <5>3, <6>1, OwnGrows
        <5>5. QED
          BY <5>3, <5>4
      <4>2. CASE run.at = R
        <5>1. run.at[1] = Depth /\ run.at # Here /\ run.at[2] = "except" /\ run.at[3] = "error"
          BY <1>5, <4>2
        <5>2. ~Bare(run.at)
          BY <5>1 DEF Bare
        <5>3. QED
          BY <1>1, <2>1, <5>1, <5>2, TopAt
      <4>3. QED
        BY <2>2, <4>1, <4>2
    <3>2. /\ run'.at = Top.labels["error"] /\ run'.holds = run.holds \ Top.temps
          /\ (run'.fault <=> (run.fault \/ ~ Top.temps \subseteq run.holds)) /\ Left(run, run', Top.labels["error"], Depth)
      BY <1>3, <2>2 DEF Is, T, E
    <3>3. "error" \in Ways /\ "error" \notin Loops /\ "error" # "return"
      BY DEF Ways, Loops
    <3>4. QED
      BY <1>1, <1>2, <1>7, <1>8, <1>9, <2>1, <3>1, <3>2, <3>3, LeaveTop
  <2>3. CASE run.at \in A /\ run.at \in used
    <3>1. PICK w \in {"return", "break", "continue"} : run.at[3] = w
      BY <1>5, <2>3
    <3>2. run.at[1] = Depth /\ run.at # Here /\ run.at[2] \in {"try", "except"} /\ run.at = <<Depth, run.at[2], w>>
      BY <1>5, <2>3, <3>1
    <3>3. ~Bare(run.at)
      BY <3>1, <3>2 DEF Bare
    <3>4. w \in Ways /\ w \notin {"error", "no match"} /\ (w \in Loops => w \notin {"error", "return", "no match"})
          /\ (w \in Loops \/ w = "return")
      BY DEF Ways, Loops
    <3>5. Top.labels[w] # NoLabel
      <4>1. CASE w \in Loops
        <5>1. PICK g : g = run.at[2]
          OBVIOUS
        <5>2. <<Depth, g, w>> \in used
          BY <2>3, <3>2, <5>1
        <5>3. ~LoopBody(Top) /\ Top.node # "for"
          BY <1>1 DEF LoopBody
        <5>4. QED
          BY <1>1, <4>1, <5>2, <5>3, LoopAround
      <4>2. QED
        BY <1>8, <3>4, <4>1
    <3>6. /\ Exact(run, Own(frames, Depth)) /\ CopiesStripped(frames, run.gone, Depth - 1)
          /\ (w \in Loops => GoneUnder(frames, run.gone, Depth - 1))
          /\ (w = "return" => Man(frames, Depth - 1) \subseteq run.gone)
          /\ (\A t \in run.holds : t \in Own(frames, Depth) \/ (w = "error" /\ t \in Counted(Temps)))
      BY <1>1, <2>1, <3>1, <3>2, <3>3, <3>4, TopAt
    <3>7. /\ run'.at = Top.labels[w] /\ run'.holds = run.holds \ Top.temps
          /\ (run'.fault <=> (run.fault \/ ~ Top.temps \subseteq run.holds)) /\ Left(run, run', Top.labels[w], Depth)
      BY <1>3, <2>3, <3>1 DEF Is, T
    <3>8. QED
      BY <1>1, <1>2, <1>7, <1>9, <2>1, <3>4, <3>5, <3>6, <3>7, LeaveTop
  <2>4. CASE run.at = H
    <3>1. run.at[1] = Depth /\ run.at # Here /\ run.at[2] = "try" /\ run.at[3] = "handled"
      BY <1>5, <2>4
    <3>2. ~Bare(run.at)
      BY <3>1 DEF Bare
    <3>3. /\ Exact(run, Own(frames, Depth)) /\ CopiesStripped(frames, run.gone, Depth - 1)
          /\ GoneUnder(frames, run.gone, Depth - 1) /\ run.holds \subseteq Own(frames, Depth)
      BY <1>1, <2>1, <3>1, <3>2, TopAt
    <3>4. /\ run'.at = Here /\ run'.holds = run.holds \ Top.temps
          /\ (run'.fault <=> (run.fault \/ ~ Top.temps \subseteq run.holds))
      BY <1>3, <2>4 DEF Is, T
    <3>5. Exact(run', Own(frames, Depth - 1)) /\ run'.holds \subseteq Own(frames, Depth - 1)
      BY <1>1, <1>7, <2>1, <3>3, <3>4, LetGo
    <3>6. CopiesStripped(frames, run'.gone, Depth - 1) /\ GoneUnder(frames, run'.gone, Depth - 1)
      BY <1>7, <3>3
    <3>7. QED
      BY <1>1, <3>4, <3>5, <3>6, EndHere
  <2>5. CASE run.at = N
    <3>1. run.at[1] = Depth /\ run.at # Here /\ run.at[2] = "try" /\ run.at[3] = "end"
      BY <1>5, <2>5
    <3>2. Bare(run.at)
      BY <3>1 DEF Bare
    <3>3. /\ Exact(run, Own(frames, Depth - 1)) /\ CopiesStripped(frames, run.gone, Depth - 1)
          /\ GoneUnder(frames, run.gone, Depth - 1) /\ run.holds \subseteq Own(frames, Depth - 1)
      BY <1>1, <2>1, <3>1, <3>2, TopAt
    <3>4. run'.at = Here /\ run'.holds = run.holds /\ (run'.fault <=> run.fault)
      BY <1>3, <2>5 DEF Is, T
    <3>5. Exact(run', Own(frames, Depth - 1)) /\ run'.holds \subseteq Own(frames, Depth - 1)
      BY <1>7, <3>3, <3>4 DEF Exact
    <3>6. CopiesStripped(frames, run'.gone, Depth - 1) /\ GoneUnder(frames, run'.gone, Depth - 1)
      BY <1>7, <3>3
    <3>7. QED
      BY <1>1, <3>4, <3>5, <3>6, EndHere
  <2>6. CASE run.at \notin {Here, R, H, N} /\ ~(run.at \in A /\ run.at \in used)
    <3>1. run'.at = run.at /\ Stays(run, run', Top.temps) /\ Top.temps \subseteq Top.temps
      BY <1>3, <2>6 DEF Is, Stays, T
    <3>2. ASSUME run.at[1] = Depth PROVE FALSE
      <4>1. /\ run.at = <<Depth, run.at[2], run.at[3]>>
            /\ InternalOf(Top, run.at[2], run.at[3]) \/ (Put(Top, run.at[2], run.at[3]) /\ run.at \in used)
        BY <1>1, <2>6, <3>2, WaitsTop
      <4>2. \/ run.at[2] = "try" /\ run.at[3] \in {"handled", "end"}
            \/ run.at \in used /\ run.at[2] = "try" /\ run.at[3] \in {"break", "continue", "return"}
            \/ run.at[2] = "except" /\ (run.at[3] = "error" \/ (run.at[3] = "return" /\ run.at \in used))
        BY <1>1, <4>1 DEF InternalOf, Put, JumpOf, EarlierOf, Loops
      <4>3. run.at \in {R, H, N} \/ (run.at \in A /\ run.at \in used)
        BY <4>1, <4>2 DEF R, H, N, A
      <4>4. QED
        BY <2>6, <4>3
    <3>3. QED
      BY <1>nf, <1>2, <2>1, <2>6, <3>1, <3>2, WaitBelow
  <2>7. QED
    BY <2>2, <2>3, <2>4, <2>5, <2>6
<1>10. run'.gone = run.gone \ Top.temps /\ {} \subseteq Temps'
  BY <1>6 DEF T
<1>11. QED
  BY <1>1, <1>2, <1>6, <1>9, <1>10, GoneOn

-----------------------------------------------------------------------------
(* The function ends.                                                         *)
LEMMA HoldsFunctionEnd ==
    ASSUME TempsInv, LabelType, LabelsInv, PlaceInv, HoldsInv, FunctionEnd
    PROVE  HoldsInv'
<1> DEFINE E == FunctionLabel("error")
           R == FunctionLabel("return")
<1>1. /\ scratch = {} /\ scratch' = {} /\ ~finished /\ frames = <<>> /\ frames' = frames /\ Depth = 0 /\ Depth' = 0
      /\ CodeNext
  BY DEF FunctionEnd, Statement, CodeNext, Depth
<1>2. /\ run'.at = Done /\ run.at \in {Here, E, R} /\ run'.gone = run.gone /\ Before(run, run')
      /\ (run.at \in {Here, R} => run'.holds = run.holds /\ (run'.fault <=> run.fault))
      /\ (run.at = E => run'.holds = run.holds \ Counted(Temps) /\ (run'.fault <=> run.fault))
  BY FunctionEndRun
<1>3. /\ E[1] = 0 /\ E[2] = "function" /\ E[3] = "error" /\ E \in Label /\ E # Here
      /\ R[1] = 0 /\ R[2] = "function" /\ R[3] = "return" /\ R \in Label /\ R # Here
  <2>1. "error" \in Ways /\ "return" \in Ways
    BY DEF Ways
  <2>2. QED
    BY <2>1, FunctionLabels, LabelTypes
<1> HIDE DEF E, R
<1>4. Own(frames, 0) = {}
  BY DEF Own
<1>5. run'.holds \subseteq run.holds /\ (run'.fault <=> run.fault)
  BY <1>2
<1>6. ASSUME ~run'.overridden PROVE HeldNext({})
  <2>1. ~run.overridden
    BY <1>2, <1>6 DEF Before
  <2>2. CASE run.at = Here
    <3>1. HeldHere(run, frames, Depth, Counted(scratch))
      BY <1>1, <2>1, <2>2, HoldsFacts
    <3>2. Counted(scratch) = {}
      BY <1>1 DEF Counted
    <3>3. ~run.fault /\ run.holds = {}
      BY <1>1, <1>4, <3>1, <3>2 DEF HeldHere, Exact
    <3>4. QED
      BY <1>2, <1>5, <3>3 DEF HeldNext
  <2>3. CASE run.at \in {E, R}
    <3>1. HeldAt(run, frames, run.at, Counted(Temps))
      BY <1>1, <1>3, <2>1, <2>3, HoldsFacts
    <3>2. Level(run.at) = 0
      <4>1. run.at \in Label /\ run.at[1] = 0
        BY <1>3, <2>3
      <4>2. QED
        BY <4>1, Levels
    <3>3. ~run.fault /\ \A t \in run.holds : run.at[3] = "error" /\ t \in Counted(Temps)
      BY <1>4, <3>1, <3>2 DEF HeldAt, Exact
    <3>4. run'.holds = {}
      BY <1>2, <1>3, <2>3, <3>3
    <3>5. QED
      BY <1>2, <1>5, <3>3, <3>4 DEF HeldNext
  <2>4. QED
    BY <1>2, <2>2, <2>3
<1>7. run'.holds \subseteq Temps' /\ run'.gone \subseteq Ref(frames', Depth')
  <2>1. run.holds \subseteq Temps /\ run.gone \subseteq Ref(frames, Depth)
    BY <1>1, HoldsFacts
  <2>2. Temps \subseteq Temps'
    BY <1>1, Grown
  <2>3. QED
    BY <1>1, <1>2, <1>5, <2>1, <2>2
<1>8. Counted(scratch)' = {}
  BY <1>1 DEF Counted
<1>9. QED
  BY <1>6, <1>7, <1>8, HoldsNext

-----------------------------------------------------------------------------
LEMMA HoldsUnchanged ==
    ASSUME HoldsInv, UNCHANGED codeVars
    PROVE  HoldsInv'
<1> DEFINE m == Counted(scratch)
           M == Counted(Temps)
           d == Depth
<1>1. /\ frames' = frames /\ run' = run /\ Temps' = Temps /\ m' = m /\ M' = M /\ d' = d
  BY DEF codeVars, Temps, Counted, Depth
<1>2. QED
  BY <1>1 DEF HoldsInv

LEMMA HoldsStep ==
    ASSUME TempsInv, LabelType, LabelsInv, PlaceInv, HoldsInv, [CodeNext]_codeVars
    PROVE  HoldsInv'
<1>1. CASE CodeNext
  <2>1. CASE \E t \in 1..MaxTemps, k \in Kind : Evaluate(t, k)
    BY <2>1, HoldsEvaluate
  <2>2. CASE \E t \in 1..MaxTemps : Dispose(t)
    BY <2>2, HoldsFinished, HoldsDispose
  <2>3. CASE \E way \in {"break", "continue"} : BreakOrContinue(way) \/ JumpNowhere(way)
    BY <2>3, HoldsBreak, HoldsNowhere
  <2>4. CASE Return \/ Reraise
    BY <2>4, HoldsReturn, HoldsReraise
  <2>5. CASE \E t \in 1..MaxTemps, k \in Kind : ForBegin(t, k)
    BY <2>5, HoldsForBegin
  <2>6. CASE ForElse \/ ForEnd \/ FinallyEnd
    BY <2>6, HoldsForElse, HoldsEnd
  <2>7. CASE \E t \in 1..MaxTemps : TryBegin(t)
    BY <2>7, HoldsTryBegin
  <2>8. CASE \E t \in 1..MaxTemps, k \in Kind : ClauseBegin(t, k)
    BY <2>8, HoldsClauseBegin
  <2>9. CASE TryElse \/ FinallyNormal \/ TryHandlers \/ FinallyNormalEnd
    BY <2>9, HoldsAfterBody, HoldsHandlers
  <2>10. CASE ClauseEnd \/ TryEnd \/ FinallyBegin \/ FinallyExceptEnd \/ FunctionEnd
    BY <2>10, HoldsClauseEnd, HoldsTryEnd, HoldsFinallyBegin, HoldsExceptEnd, HoldsFunctionEnd
  <2>11. CASE \E t \in 1..MaxTemps : FinallyExcept(t)
    <3>1. PICK t \in 1..MaxTemps : FinallyExcept(t)
      BY <2>11
    <3>2. PICK w, T : w = "error" /\ T = {t}
      OBVIOUS
    <3>3. w \in Ways
      BY <3>2 DEF Ways
    <3>4. QED
      BY <1>1, <3>1, <3>2, <3>3, HoldsCopy
  <2>12. CASE \E way \in {"return", "break", "continue"} : \E T : FinallyWay(way, T)
    <3>1. PICK w \in {"return", "break", "continue"} : \E T : FinallyWay(w, T)
      BY <2>12
    <3>2. PICK T : FinallyWay(w, T)
      BY <3>1
    <3>3. w \in Ways /\ w # "error"
      BY DEF Ways
    <3>4. QED
      BY <1>1, <3>2, <3>3, HoldsCopy
  <2>13. CASE \E way \in {"return", "break", "continue"} : FinallyWayEnd(way)
    BY <2>13, HoldsWayEnd
  <2>14. QED
    BY <1>1, <2>1, <2>2, <2>3, <2>4, <2>5, <2>6, <2>7, <2>8, <2>9, <2>10, <2>11, <2>12, <2>13, Actions
<1>2. CASE UNCHANGED codeVars
  BY <1>2, HoldsUnchanged
<1>3. QED
  BY <1>1, <1>2

LEMMA HoldsFirst == CodeInit => HoldsInv
<1>1. SUFFICES ASSUME CodeInit PROVE HoldsInv
  OBVIOUS
<1>2. /\ frames = <<>> /\ Depth = 0 /\ run.at = Here /\ run.holds = {} /\ run.gone = {} /\ ~run.fault
      /\ Counted(scratch) = {}
  BY <1>1 DEF CodeInit, Counted, Depth
<1>3. Own(frames, 0) = {}
  BY DEF Own
<1>4. HeldHere(run, frames, Depth, Counted(scratch))
  BY <1>2, <1>3 DEF HeldHere, Exact, GoneUnder, CopiesStripped
<1>5. QED
  BY <1>2, <1>4 DEF HoldsInv

(* The owned temporaries, and what is under way, in the terms of the model.              *)
LEMMA OwnedIs ==
    ASSUME TempsInv
    PROVE  /\ Owned(Depth) = Own(frames, Depth)
           /\ \A gone : GoneUnder(frames, gone, Depth) => \A t \in gone : UnderWay(t, Depth)
<1>1. Own(frames, Depth) \subseteq Temps /\ Depth \in Nat
  BY OwnFacts
<1>2. Temps \subseteq Nat
  BY DEF Temps
<1>3. Owned(Depth) = Own(frames, Depth)
  BY <1>1, <1>2 DEF Owned, Own
<1>4. ASSUME NEW gone, GoneUnder(frames, gone, Depth), NEW t \in gone
      PROVE  UnderWay(t, Depth)
  <2>1. PICK c \in 1..Depth : (IsCopy(frames[c], "return") \/ IsCopy(frames[c], "except")) /\ t \in Own(frames, c - 1)
    BY <1>4 DEF GoneUnder
  <2>2. Copy(c, "return") \/ Copy(c, "except")
    BY <2>1 DEF Copy, IsCopy
  <2>3. \E i \in 1..(c - 1) : t \in frames[i].temps
    BY <2>1 DEF Own
  <2>4. QED
    BY <2>2, <2>3 DEF UnderWay
<1>5. QED
  BY <1>3, <1>4

LEMMA HeldIsExpected ==
    ASSUME TempsInv, LabelType, LabelsInv, PlaceInv, HoldsInv
    PROVE  HoldsWhatIsExpected /\ NothingLeaks
<1>1. Done # Here
  BY FunctionLabels
<1>2. ASSUME finished PROVE run.at = Done /\ run.at # Here
  BY <1>1, <1>2 DEF PlaceInv, PlaceOk
<1>3. ASSUME ~run.overridden
      PROVE  /\ ~run.fault /\ (run.at = Done => run.holds = {})
             /\ (run.at = Here => HeldHere(run, frames, Depth, Counted(scratch)))
  <2>1. CASE run.at = Here
    BY <1>1, <1>3, <2>1 DEF HoldsInv, HeldHere, Exact
  <2>2. CASE run.at = Done
    BY <1>1, <1>3, <2>2 DEF HoldsInv
  <2>3. CASE run.at # Here /\ run.at # Done
    BY <1>3, <2>3 DEF HoldsInv, HeldAt, Exact
  <2>4. QED
    BY <2>1, <2>2, <2>3
<1>4. NothingLeaks
  BY <1>2, <1>3 DEF NothingLeaks
<1>5. ASSUME ~run.overridden, run.at = Here, ~Between
      PROVE  /\ run.holds \subseteq Counted(scratch) \cup Owned(Depth)
             /\ \A t \in (Counted(scratch) \cup Owned(Depth)) \ run.holds : UnderWay(t, Depth)
  <2>1. HeldHere(run, frames, Depth, Counted(scratch))
    BY <1>3, <1>5
  <2>2. ~(Depth > 0 /\ frames[Depth].node = "except" /\ frames[Depth].stage \in {"handlers", "handled"})
    BY <1>5, Frames DEF Between, In
  <2>3. GoneUnder(frames, run.gone, Depth)
    BY <2>1, <2>2 DEF HeldHere
  <2>4. /\ run.holds \subseteq Counted(scratch) \cup Own(frames, Depth)
        /\ (Counted(scratch) \cup Own(frames, Depth)) \ run.gone \subseteq run.holds
    BY <2>1 DEF HeldHere, Exact
  <2>5. Owned(Depth) = Own(frames, Depth) /\ \A t \in run.gone : UnderWay(t, Depth)
    BY <2>3, OwnedIs
  <2>6. QED
    BY <2>4, <2>5
<1>6. HoldsWhatIsExpected
  BY <1>3, <1>5 DEF HoldsWhatIsExpected
<1>7. QED
  BY <1>4, <1>6

(* For any program: the execution has released exactly what each label it can be at      *)
(* takes to be released, and holds the rest (the invariant from which the next two follow, *)
(* with the ones above: Code.py temps_holding_reference, all_free_managed_temps;          *)
(* Nodes.py label_interceptor, put_error_cleaner).                                *)
THEOREM HoldsInvariant == CodeSpec => [](TempsInv /\ LabelType /\ LabelsInv /\ PlaceInv /\ HoldsInv)
<1>1. CodeInit => HoldsInv
  BY HoldsFirst
<1>2. TempsInv /\ LabelType /\ LabelsInv /\ PlaceInv /\ HoldsInv /\ [CodeNext]_codeVars => HoldsInv'
  BY HoldsStep
<1>3. QED
  BY <1>1, <1>2, PlaceInvariant, PTL DEF CodeSpec

(* For any program, and whichever way the execution takes through its statements,         *)
(* interceptors and copies of finally clauses: what generated code takes for a reference   *)
(* in a temporary is one, and none is released twice or overwritten (Code.py              *)
(* FunctionState.temps_holding_reference; Nodes.py ReturnStatNode, ForInStatNode,          *)
(* TryExceptStatNode, ExceptClauseNode, TryFinallyStatNode).                        *)
THEOREM HoldsExpected == CodeSpec => []HoldsWhatIsExpected
<1>1. TempsInv /\ LabelType /\ LabelsInv /\ PlaceInv /\ HoldsInv => HoldsWhatIsExpected
  BY HeldIsExpected
<1>2. QED
  BY <1>1, HoldsInvariant, PTL

(* For any program: however a function is left, by its end, by a return or by an exception  *)
(* from anywhere within its statements, no temporary holds a reference any more           *)
(* (Nodes.py FuncDefNode.generate_function_definitions, the error and return labels).      *)
THEOREM NoLeaks == CodeSpec => []NothingLeaks
<1>1. TempsInv /\ LabelType /\ LabelsInv /\ PlaceInv /\ HoldsInv => NothingLeaks
  BY HeldIsExpected
<1>2. QED
  BY <1>1, HoldsInvariant, PTL

-----------------------------------------------------------------------------
USE CallerAssumption, BoundAssumption, NobodyAssumption

(* The GIL or the mutex of a free-threaded build guards the exception.           *)
LockHeld == \A t \in Thread : at[t] \in {"locked", "storing", "noting"} => lock = t

(* Where a thread notes its way out, by the form and its place.                   *)
ScopeOfPlace ==
    \A t \in Thread :
       /\ scope[t] \in {t, Region}
       /\ form # "nested" => scope[t] = Region
       /\ form = "nested" /\ at[t] \in {"loop", "body", "barrier", "left"} => scope[t] = t
       /\ form = "parallel" => at[t] \notin {"loop", "body", "barrier", "left"}
       /\ at[t] \in {"outside", "entering", "before", "block", "joining", "ended"} => scope[t] = Region
       /\ at[t] = "before" => form = "nested"
       /\ at[t] = "block" => form # "prange"

(* Who has an exception has it alone.                                            *)
OwnedAlone ==
    /\ \A t, u \in Thread : pending[t] # Nobody /\ pending[t] = pending[u] => t = u
    /\ \A s, r \in Scope : kept[s] # Nobody /\ kept[s] = kept[r] => s = r
    /\ \A t \in Thread, s \in Scope : pending[t] # Nobody => pending[t] # kept[s]
    /\ \A t \in Thread : pending[t] \notin released
    /\ \A s \in Scope : kept[s] \notin released
    /\ \A e \in 1..raised :
          e \in released \/ (\E t \in Thread : pending[t] = e) \/ (\E s \in Scope : kept[s] = e)

OnItsWay(t) == at[t] \in {"raising", "locked", "storing"} \/ kept[t] # Nobody

(* Where exceptions are while threads leave.                                      *)
ExceptionPlaces ==
    /\ \A t \in Thread :
          /\ at[t] \in {"raising", "locked", "storing"} => pending[t] # Nobody
          /\ at[t] = "storing" => kept[scope[t]] = Nobody
          /\ at[t] = "noting" => kept[scope[t]] # Nobody
          /\ scope[t] = Region => kept[t] = Nobody
          /\ scope[t] = t /\ why[t] = 4 => kept[t] # Nobody
          /\ at[t] = "ended" /\ t # Caller => pending[t] = Nobody
    /\ outcome = "none" /\ why[Region] = 4 => kept[Region] # Nobody
    /\ outcome = "none" /\ raised > 0 => kept[Region] # Nobody \/ \E t \in Thread : OnItsWay(t)

(* What was noted last for the region is one of its ways out.                      *)
Noted ==
    /\ exits = {} => why[Region] = 0
    /\ exits # {} => why[Region] \in exits
    /\ form = "prange" /\ exits # {} => why[Region] >= 2

(* A thread begins a late body only while it has not seen the way out.              *)
LateUnseen ==
    \A t \in Thread :
       /\ form # "prange" => late[t] = 0
       /\ late[t] <= 1
       /\ late[t] = 1 => why[Region] >= 2
       /\ late[t] = 1 => \/ view[t] >= 2
                         \/ at[t] \in {"body", "raising", "locked", "storing", "noting"}

(* A thread that is gone has seen it, where it reads how it left.                   *)
GoneSeen ==
    /\ form = "prange" /\ leavers # {} => exits # {}
    /\ \A t \in Thread :
          /\ at[t] = "body" => t \notin leavers
          /\ t \in leavers /\ form = "prange" => view[t] >= 2
          /\ t \in leavers /\ scope[t] = t => why[t] >= 2
          /\ at[t] \in {"outside", "entering", "before"} => t \notin leavers /\ why[t] = 0

(* Nothing happens after the end.                                                *)
Ended ==
    outcome # "none" =>
       /\ \A t \in Thread : at[t] = "ended"
       /\ \A e \in 1..raised : e \notin released => pending[Caller] = e
       /\ \A s \in Scope : kept[s] = Nobody
       /\ OutcomeMatches

(* The types of what holds the exceptions.                                        *)
ExceptionType ==
    /\ raised \in Nat /\ released \subseteq 1..raised
    /\ kept \in [Scope -> 1..raised \cup {Nobody}]
    /\ pending \in [Thread -> 1..raised \cup {Nobody}]

IInv == TypeOK /\ LockHeld /\ ScopeOfPlace /\ OwnedAlone /\ ExceptionPlaces /\ Noted /\ LateUnseen /\ GoneSeen /\ Ended

-----------------------------------------------------------------------------
(* The ways an exception changes hands.                                           *)
LEMMA RaiseOwned ==
    ASSUME ExceptionType, OwnedAlone, NEW t \in Thread,
           raised' = raised + 1, pending' = [pending EXCEPT ![t] = raised + 1],
           Release(pending[t]), kept' = kept
    PROVE  ExceptionType' /\ OwnedAlone'
<1>1. ExceptionType'
  <2>1. 1..raised \subseteq 1..raised' /\ raised + 1 \in 1..raised'
    BY DEF ExceptionType
  <2>2. released' \subseteq 1..raised'
    BY <2>1 DEF ExceptionType, Release
  <2>3. QED
    BY <2>1, <2>2 DEF ExceptionType
<1>2. /\ pending'[t] = raised + 1 /\ \A u \in Thread \ {t} : pending'[u] = pending[u]
      /\ raised + 1 \notin released /\ raised + 1 # Nobody
      /\ \A u \in Thread : pending[u] # raised + 1
      /\ \A s \in Scope : kept[s] # raised + 1
  BY DEF ExceptionType
<1>3. released' = released \cup ({pending[t]} \ {Nobody})
  BY DEF Release
<1>4. ASSUME NEW e \in 1..raised' 
      PROVE  e \in released' \/ (\E u \in Thread : pending'[u] = e) \/ (\E s \in Scope : kept'[s] = e)
  <2>1. CASE e = raised + 1
    BY <1>2, <2>1
  <2>2. CASE e # raised + 1
    <3>1. e \in 1..raised
      BY <2>2 DEF ExceptionType
    <3>2. QED
      BY <1>2, <1>3, <3>1 DEF OwnedAlone, ExceptionType
  <2>3. QED
    BY <2>1, <2>2
<1>5. QED
  BY <1>1, <1>2, <1>3, <1>4 DEF OwnedAlone

LEMMA KeepOwned ==
    ASSUME ExceptionType, OwnedAlone, NEW t \in Thread, NEW s \in Scope, kept[s] = Nobody,
           kept' = [kept EXCEPT ![s] = pending[t]], pending' = [pending EXCEPT ![t] = Nobody],
           raised' = raised, released' = released
    PROVE  ExceptionType' /\ OwnedAlone'
<1>1. ExceptionType'
  BY DEF ExceptionType
<1>2. /\ pending'[t] = Nobody /\ \A u \in Thread \ {t} : pending'[u] = pending[u]
      /\ kept'[s] = pending[t] /\ \A r \in Scope \ {s} : kept'[r] = kept[r]
  BY DEF ExceptionType
<1>3. ASSUME NEW e \in 1..raised'
      PROVE  e \in released' \/ (\E u \in Thread : pending'[u] = e) \/ (\E r \in Scope : kept'[r] = e)
  <2>1. CASE \E u \in Thread : pending[u] = e
    BY <1>2, <2>1
  <2>2. CASE \E r \in Scope : kept[r] = e
    BY <1>2, <2>2 DEF ExceptionType
  <2>3. QED
    BY <2>1, <2>2 DEF OwnedAlone
<1>4. QED
  BY <1>1, <1>2, <1>3 DEF OwnedAlone, ExceptionType

LEMMA RestoreOwned ==
    ASSUME ExceptionType, OwnedAlone, NEW t \in Thread, NEW s \in Scope, Restore(t, s)
    PROVE  ExceptionType' /\ OwnedAlone'
<1>1. ExceptionType'
  BY DEF ExceptionType, Restore, Release
<1>2. /\ pending'[t] = kept[s] /\ \A u \in Thread \ {t} : pending'[u] = pending[u]
      /\ kept'[s] = Nobody /\ \A r \in Scope \ {s} : kept'[r] = kept[r]
      /\ released' = released \cup ({pending[t]} \ {Nobody}) /\ raised' = raised
  BY DEF ExceptionType, Restore, Release
<1>3. ASSUME NEW e \in 1..raised'
      PROVE  e \in released' \/ (\E u \in Thread : pending'[u] = e) \/ (\E r \in Scope : kept'[r] = e)
  <2>1. CASE \E u \in Thread : pending[u] = e
    BY <1>2, <2>1 DEF ExceptionType
  <2>2. CASE \E r \in Scope : kept[r] = e
    BY <1>2, <2>2 DEF ExceptionType
  <2>3. QED
    BY <1>2, <2>1, <2>2 DEF OwnedAlone
<1>4. QED
  BY <1>1, <1>2, <1>3 DEF OwnedAlone, ExceptionType

LEMMA DropOwned ==
    ASSUME ExceptionType, OwnedAlone, NEW t \in Thread,
           pending' = [pending EXCEPT ![t] = Nobody], Release(pending[t]), kept' = kept,
           raised' = raised
    PROVE  ExceptionType' /\ OwnedAlone'
<1>1. ExceptionType'
  BY DEF ExceptionType, Release
<1>2. /\ pending'[t] = Nobody /\ \A u \in Thread \ {t} : pending'[u] = pending[u]
      /\ released' = released \cup ({pending[t]} \ {Nobody})
  BY DEF ExceptionType, Release
<1>3. ASSUME NEW e \in 1..raised'
      PROVE  e \in released' \/ (\E u \in Thread : pending'[u] = e) \/ (\E r \in Scope : kept'[r] = e)
  BY <1>2 DEF OwnedAlone, ExceptionType
<1>4. QED
  BY <1>1, <1>2, <1>3 DEF OwnedAlone, ExceptionType
(* A way out is noted for the region, or for the loop of one thread.                *)
LEMMA NoteNoted ==
    ASSUME TypeOK, ScopeOfPlace, Noted, NEW t \in Thread, NEW w \in 1..4, Note(t, w),
           form = "prange" => w >= 2
    PROVE  /\ why' \in [Scope -> 0..4] /\ exits' \subseteq 1..4
           /\ why'[scope[t]] = w /\ \A s \in Scope \ {scope[t]} : why'[s] = why[s]
           /\ exits' = {} => why'[Region] = 0
           /\ exits' # {} => why'[Region] \in exits'
           /\ form = "prange" /\ exits' # {} => why'[Region] >= 2
           /\ form = "prange" => why'[Region] = w
           /\ leavers' \in {leavers, leavers \cup {t}} /\ (w >= 2 => leavers' = leavers \cup {t}) /\ (w < 2 => leavers' = leavers)
           /\ form = "prange" => exits' # {}
<1>5. /\ leavers' \in {leavers, leavers \cup {t}} /\ (w >= 2 => leavers' = leavers \cup {t}) /\ (w < 2 => leavers' = leavers)
      /\ form = "prange" => exits' # {}
  <2>1. form = "prange" => scope[t] = Region
    BY DEF ScopeOfPlace
  <2>2. QED
    BY <2>1 DEF Note
<1>1. /\ why' \in [Scope -> 0..4] /\ exits' \subseteq 1..4
      /\ why'[scope[t]] = w /\ \A s \in Scope \ {scope[t]} : why'[s] = why[s]
  BY DEF Note, TypeOK
<1>2. CASE scope[t] = Region
  BY <1>1, <1>2 DEF Note, Noted
<1>3. CASE scope[t] # Region
  <2>1. why'[Region] = why[Region] /\ exits' = exits /\ form # "prange"
    BY <1>1, <1>3 DEF Note, ScopeOfPlace, Scope
  <2>2. QED
    BY <1>1, <1>5, <2>1 DEF Noted
<1>4. QED
  BY <1>2, <1>3, <1>1, <1>5 DEF Scope

(* A thread goes on where no exception is on its way.                              *)
LEMMA ThreadMovesOn ==
    ASSUME TypeOK, ExceptionPlaces, NEW t \in Thread,
           \A u \in Thread \ {t} : at'[u] = at[u],
           at[t] \notin {"raising", "locked", "storing"},
           at'[t] \notin {"raising", "locked", "storing", "noting", "ended"},
           scope' = scope, why' = why, kept' = kept, pending' = pending, raised' = raised,
           outcome' = outcome
    PROVE  ExceptionPlaces'
<1>1. \A u \in Thread : OnItsWay(u)' <=> OnItsWay(u)
  BY DEF OnItsWay
<1>2. QED
  BY <1>1 DEF ExceptionPlaces

-----------------------------------------------------------------------------
LEMMA InitIInv == Init => IInv
<1> SUFFICES ASSUME Init PROVE IInv
  OBVIOUS
<1>1. TypeOK
  <2>1. left \in [Thread -> 0..MaxShare] /\ MaxShare \in Nat
    BY DEF Init
  <2>2. left \in [Thread -> Nat]
    BY <2>1
  <2>3. /\ form \in Form /\ freeThreaded \in BOOLEAN /\ attached \in BOOLEAN
        /\ at \in [Thread -> Place] /\ scope \in [Thread -> Scope]
        /\ late \in [Thread -> Nat] /\ why \in [Scope -> 0..4] /\ view \in [Thread -> 0..4]
    <3>1. /\ at = [t \in Thread |-> "outside"] /\ late = [t \in Thread |-> 0]
          /\ view = [t \in Thread |-> 0] /\ why = [s \in Scope |-> 0]
      BY Zenon DEF Init
    <3>2. at \in [Thread -> Place] /\ late \in [Thread -> Nat] /\ view \in [Thread -> 0..4]
      BY <3>1 DEF Place
    <3>3. scope \in [Thread -> Scope]
      BY DEF Init, Scope
    <3>4. why \in [Scope -> 0..4]
      BY <3>1
    <3>5. QED
      BY <3>2, <3>3, <3>4 DEF Init
  <2>4. /\ exits = {} /\ leavers = {} /\ raised = 0 /\ released = {} /\ outcome = "none"
        /\ kept \in [Scope -> {Nobody}] /\ pending \in [Thread -> {Nobody}]
        /\ lock \in Thread \cup {Nobody}
    BY DEF Init
  <2>5. QED
    BY <2>2, <2>3, <2>4 DEF TypeOK
<1>0. /\ \A t \in Thread : at[t] = "outside" /\ pending[t] = Nobody /\ late[t] = 0
      /\ \A s \in Scope : kept[s] = Nobody /\ why[s] = 0
      /\ raised = 0 /\ released = {} /\ exits = {} /\ leavers = {} /\ outcome = "none"
  BY DEF Init
<1>2. LockHeld /\ Noted /\ LateUnseen /\ Ended
  BY <1>0 DEF LockHeld, Noted, LateUnseen, Ended, Scope
<1>7. GoneSeen
  BY <1>0 DEF GoneSeen, Scope
<1>3. ScopeOfPlace
  BY <1>0 DEF Init, Form, ScopeOfPlace
<1>4. OwnedAlone
  BY <1>0 DEF OwnedAlone
<1>5. ExceptionPlaces
  BY <1>0 DEF ExceptionPlaces, Scope
<1>6. QED
  BY <1>1, <1>2, <1>3, <1>4, <1>5, <1>7 DEF IInv

(* Every step of a thread, of the runtime and of the caller keeps the invariant.     *)
LEMMA NextIInv == IInv /\ [Next]_vars => IInv'
<1> SUFFICES ASSUME IInv, [Next]_vars PROVE IInv'
  OBVIOUS
<1> USE DEF Goto, CanAttach, program, exceptions, noted
<1>0. TypeOK /\ LockHeld /\ ScopeOfPlace /\ OwnedAlone /\ ExceptionPlaces /\ Noted /\ LateUnseen /\ GoneSeen /\ Ended
  BY DEF IInv
<1>1. ASSUME Enter PROVE IInv'
  <2>1. TypeOK'
    BY <1>0, <1>1 DEF Enter, TypeOK, Scope, Place
  <2>2. LockHeld'
    BY <1>0, <1>1 DEF Enter, LockHeld, TypeOK
  <2>3. ScopeOfPlace'
    BY <1>0, <1>1 DEF Enter, ScopeOfPlace, TypeOK, Form
  <2>4. OwnedAlone'
    BY <1>0, <1>1 DEF Enter, OwnedAlone, TypeOK, Scope
  <2>5. ExceptionPlaces'
    BY <1>0, <1>1 DEF Enter, ExceptionPlaces, OnItsWay, TypeOK, Scope, ScopeOfPlace, LockHeld
  <2>6. Noted'
    BY <1>0, <1>1 DEF Enter, Noted, TypeOK, Scope, ScopeOfPlace, ExceptionPlaces
  <2>7. LateUnseen'
    BY <1>0, <1>1 DEF Enter, LateUnseen, TypeOK, Scope, ScopeOfPlace, Noted
  <2>8. Ended'
    BY <1>0, <1>1 DEF Enter, Ended, OutcomeMatches, TypeOK, Scope
  <2>9. GoneSeen'
    BY <1>0, <1>1 DEF Enter, GoneSeen, TypeOK, Scope, ScopeOfPlace
  <2>10. QED
    BY <2>1, <2>2, <2>3, <2>4, <2>5, <2>6, <2>7, <2>8, <2>9 DEF IInv
<1>2. ASSUME Barrier PROVE IInv'
  <2>1. TypeOK'
    BY <1>0, <1>2 DEF Barrier, TypeOK, Scope, Place
  <2>2. LockHeld'
    BY <1>0, <1>2 DEF Barrier, LockHeld, TypeOK
  <2>3. ScopeOfPlace'
    BY <1>0, <1>2 DEF Barrier, ScopeOfPlace, TypeOK, Form
  <2>4. OwnedAlone'
    BY <1>0, <1>2 DEF Barrier, OwnedAlone, TypeOK, Scope
  <2>5. ExceptionPlaces'
    BY <1>0, <1>2 DEF Barrier, ExceptionPlaces, OnItsWay, TypeOK, Scope, ScopeOfPlace, LockHeld
  <2>6. Noted'
    BY <1>0, <1>2 DEF Barrier, Noted, TypeOK, Scope, ScopeOfPlace, ExceptionPlaces
  <2>7. LateUnseen'
    BY <1>0, <1>2 DEF Barrier, LateUnseen, TypeOK, Scope, ScopeOfPlace, Noted
  <2>8. Ended'
    BY <1>0, <1>2 DEF Barrier, Ended, OutcomeMatches, TypeOK, Scope
  <2>9. GoneSeen'
    BY <1>0, <1>2 DEF Barrier, GoneSeen, TypeOK, Scope, ScopeOfPlace
  <2>10. QED
    BY <2>1, <2>2, <2>3, <2>4, <2>5, <2>6, <2>7, <2>8, <2>9 DEF IInv
<1>3. ASSUME Resume PROVE IInv'
  <2>1. TypeOK'
    BY <1>0, <1>3 DEF Resume, WayOut, Restore, Release, GoesOn, TypeOK, Scope, Place
  <2>2. LockHeld'
    BY <1>0, <1>3 DEF Resume, WayOut, Restore, Release, GoesOn, LockHeld, TypeOK
  <2>3. ScopeOfPlace'
    BY <1>0, <1>3 DEF Resume, WayOut, Restore, Release, GoesOn, ScopeOfPlace, TypeOK, Form
  <2>4. OwnedAlone'
    <3>1. CASE WayOut(Region) = 4
      BY <1>0, <1>3, <3>1, RestoreOwned DEF Resume, TypeOK, ExceptionType, Scope
    <3>2. CASE WayOut(Region) # 4
      BY <1>0, <1>3, <3>2 DEF Resume, OwnedAlone
    <3>3. QED
      BY <3>1, <3>2
  <2>5. ExceptionPlaces'
    <3>1. \A u \in Thread : at[u] = "ended" /\ scope[u] = Region /\ kept[u] = Nobody
      BY <1>0, <1>3 DEF Resume, ScopeOfPlace, ExceptionPlaces
    <3>2. outcome' # "none" /\ UNCHANGED <<at, scope, why>>
      BY <1>3 DEF Resume, GoesOn
    <3>3. \A u \in Thread : kept'[u] = Nobody /\ (u # Caller => pending'[u] = Nobody)
      BY <1>0, <1>3, <3>1 DEF Resume, Restore, ExceptionPlaces, TypeOK, Scope
    <3>4. QED
      BY <3>1, <3>2, <3>3 DEF ExceptionPlaces
  <2>6. Noted'
    BY <1>0, <1>3 DEF Resume, WayOut, Restore, Release, GoesOn, Noted, TypeOK, Scope, ScopeOfPlace, ExceptionPlaces
  <2>7. LateUnseen'
    BY <1>0, <1>3 DEF Resume, WayOut, Restore, Release, GoesOn, LateUnseen, TypeOK, Scope, ScopeOfPlace, Noted
  <2>8. Ended'
    <3>1. \A u \in Thread : at'[u] = "ended" /\ kept[u] = Nobody /\ (u # Caller => pending[u] = Nobody)
      BY <1>0, <1>3 DEF Resume, ScopeOfPlace, ExceptionPlaces
    <3>2. kept[Region] # Nobody <=> raised > 0
      BY <1>0, <1>3, <3>1 DEF Resume, ExceptionPlaces, OnItsWay, TypeOK, Scope
    <3>3. WayOut(Region) = 4 <=> kept[Region] # Nobody
      BY <1>0, <1>3 DEF Resume, WayOut, ExceptionPlaces
    <3>4. \A s \in Scope : kept'[s] = Nobody
      BY <1>0, <1>3, <3>1, <3>3 DEF Resume, Restore, TypeOK, Scope
    <3>5. \A u \in Thread : u # Caller => pending'[u] = Nobody
      BY <1>0, <1>3, <3>1 DEF Resume, Restore, TypeOK
    <3>6. \A e \in 1..raised' : e \notin released' => pending'[Caller] = e
      BY <2>4, <3>4, <3>5 DEF OwnedAlone
    <3>7. (outcome' = "error") <=> raised' > 0
      BY <1>0, <1>3, <3>2, <3>3 DEF Resume, Restore, GoesOn, TypeOK
    <3>8. (outcome' = "error") <=> pending'[Caller] # Nobody
      <4>1. CASE WayOut(Region) = 4
        BY <1>0, <1>3, <3>3, <4>1 DEF Resume, Restore, GoesOn, TypeOK
      <4>2. CASE WayOut(Region) # 4
        <5>1. raised = 0 /\ UNCHANGED <<raised, pending>>
          BY <1>0, <1>3, <3>2, <3>3, <4>2 DEF Resume, TypeOK
        <5>2. QED
          BY <1>0, <3>7, <5>1 DEF TypeOK
      <4>3. QED
        BY <4>1, <4>2
    <3>9. outcome' # "error" => outcome' = GoesOn(why[Region]) /\ why[Region] # 4
      BY <1>3 DEF Resume, WayOut, GoesOn
    <3>10. why[Region] \in 0..4 /\ exits' = exits /\ form' = form
      BY <1>0, <1>3 DEF Resume, TypeOK, Scope
    <3>11. ASSUME form' = "prange", outcome' # "error"
           PROVE  outcome' = (IF exits' = {} THEN "else" ELSE "next")
      <4>1. exits = {} => why[Region] = 0
        BY <1>0 DEF Noted
      <4>2. exits # {} => why[Region] >= 2
        BY <1>0, <3>10, <3>11 DEF Noted
      <4>3. QED
        BY <3>9, <3>10, <3>11, <4>1, <4>2 DEF GoesOn
    <3>12. ASSUME form' # "prange", outcome' # "error"
           PROVE  IF exits' = {} THEN outcome' = "next"
                  ELSE outcome' \in {<<"continue", "break", "return">>[w] : w \in exits'}
      <4>1. CASE exits = {}
        BY <1>0, <3>9, <3>10, <3>12, <4>1 DEF GoesOn, Noted
      <4>2. CASE exits # {}
        <5>1. why[Region] \in exits /\ why[Region] \in 1..3
          BY <1>0, <3>9, <3>10, <3>12, <4>2 DEF Noted, TypeOK
        <5>2. outcome' = <<"continue", "break", "return">>[why[Region]]
          BY <3>9, <3>10, <3>12, <5>1 DEF GoesOn
        <5>3. QED
          BY <3>10, <4>2, <5>1, <5>2
      <4>3. QED
        BY <4>1, <4>2
    <3>13. QED
      BY <3>1, <3>4, <3>6, <3>7, <3>8, <3>11, <3>12 DEF Ended, OutcomeMatches
  <2>9. GoneSeen'
    BY <1>0, <1>3 DEF Resume, WayOut, Restore, Release, GoesOn, GoneSeen, TypeOK, Scope, ScopeOfPlace
  <2>10. QED
    BY <2>1, <2>2, <2>3, <2>4, <2>5, <2>6, <2>7, <2>8, <2>9 DEF IInv
<1>4. ASSUME NEW t \in Thread, Begin(t) PROVE IInv'
  <2>1. TypeOK'
    BY <1>0, <1>4 DEF Begin, TypeOK, Scope, Place
  <2>2. LockHeld'
    BY <1>0, <1>4 DEF Begin, LockHeld, TypeOK
  <2>3. ScopeOfPlace'
    BY <1>0, <1>4 DEF Begin, ScopeOfPlace, TypeOK, Form
  <2>4. OwnedAlone'
    BY <1>0, <1>4 DEF Begin, OwnedAlone, TypeOK, Scope
  <2>5. ExceptionPlaces'
    <3>1. /\ \A u \in Thread \ {t} : at'[u] = at[u]
          /\ at[t] = "entering" /\ at'[t] \in {"loop", "block", "before"}
      BY <1>0, <1>4 DEF Begin, TypeOK
    <3>2. QED
      BY <1>0, <1>4, <3>1, ThreadMovesOn DEF Begin
  <2>6. Noted'
    BY <1>0, <1>4 DEF Begin, Noted, TypeOK, Scope, ScopeOfPlace, ExceptionPlaces
  <2>7. LateUnseen'
    BY <1>0, <1>4 DEF Begin, LateUnseen, TypeOK, Scope, ScopeOfPlace, Noted
  <2>8. Ended'
    BY <1>0, <1>4 DEF Begin, Ended, OutcomeMatches, TypeOK, Scope
  <2>9. GoneSeen'
    BY <1>0, <1>4 DEF Begin, GoneSeen, TypeOK, Scope, ScopeOfPlace
  <2>10. QED
    BY <2>1, <2>2, <2>3, <2>4, <2>5, <2>6, <2>7, <2>8, <2>9 DEF IInv
<1>5. ASSUME NEW t \in Thread, Iterate(t) PROVE IInv'
  <2>1. TypeOK'
    BY <1>0, <1>5 DEF Iterate, TypeOK, Scope, Place
  <2>2. LockHeld'
    BY <1>0, <1>5 DEF Iterate, LockHeld, TypeOK
  <2>3. ScopeOfPlace'
    <3>1. /\ UNCHANGED <<form, scope>> /\ at[t] = "loop" /\ at'[t] \in {"loop", "body"}
          /\ \A u \in Thread \ {t} : at'[u] = at[u]
      BY <1>0, <1>5 DEF Iterate, TypeOK
    <3>2. QED
      BY <1>0, <3>1 DEF ScopeOfPlace
  <2>4. OwnedAlone'
    BY <1>0, <1>5 DEF Iterate, OwnedAlone, TypeOK, Scope
  <2>5. ExceptionPlaces'
    <3>1. \A u \in Thread : at'[u] = at[u] \/ (at'[u] = "body" /\ at[u] = "loop")
      <4>1. at[t] = "loop" /\ (at' = [at EXCEPT ![t] = "body"] \/ at' = at)
        BY <1>5 DEF Iterate
      <4>2. \A u \in Thread : [at EXCEPT ![t] = "body"][u] = IF u = t THEN "body" ELSE at[u]
        BY <1>0 DEF TypeOK
      <4>3. QED
        BY <4>1, <4>2
    <3>2. UNCHANGED <<scope, why, kept, pending, raised, outcome>>
      BY <1>5 DEF Iterate
    <3>3. QED
      BY <1>0, <3>1, <3>2 DEF ExceptionPlaces, OnItsWay
  <2>6. Noted'
    BY <1>0, <1>5 DEF Iterate, Noted, TypeOK, Scope, ScopeOfPlace, ExceptionPlaces
  <2>7. LateUnseen'
    <3>1. UNCHANGED <<form, why>> /\ \A u \in Thread \ {t} :
             late'[u] = late[u] /\ view'[u] = view[u] /\ at'[u] = at[u]
      BY <1>0, <1>5 DEF Iterate, TypeOK
    <3>2. CASE late'[t] = late[t]
      BY <1>0, <1>5, <3>1, <3>2 DEF Iterate, LateUnseen, TypeOK, Scope
    <3>3. CASE late'[t] # late[t]
      <4>1. scope[t] = Region /\ view[t] < 2 /\ why[Region] >= 2 /\ at'[t] = "body"
            /\ late'[t] = late[t] + 1
        <5>1. form = "prange" /\ leavers # {} /\ scope[t] = Region
          <6>1. PICK seen : /\ view' = [view EXCEPT ![t] = seen]
                            /\ IF seen < 2
                               THEN late' = [late EXCEPT ![t] = IF form # "prange" \/ leavers = {} THEN @ ELSE @ + 1]
                               ELSE UNCHANGED <<at, late>>
            BY <1>5 DEF Iterate
          <6>2. form = "prange" /\ leavers # {}
            BY <1>0, <3>3, <6>1 DEF TypeOK
          <6>3. QED
            BY <1>0, <6>2 DEF ScopeOfPlace
        <5>2. why[Region] >= 2
          BY <1>0, <5>1 DEF GoneSeen, Noted
        <5>3. QED
          BY <1>0, <1>5, <3>3, <5>1, <5>2 DEF Iterate, TypeOK, Scope
      <4>2. form = "prange" /\ at[t] = "loop"
        <5>1. at[t] = "loop"
          BY <1>5 DEF Iterate
        <5>2. form # "prange" => late' = late
          <6>1. PICK seen : IF seen < 2
                            THEN late' = [late EXCEPT ![t] = IF form # "prange" \/ leavers = {} THEN @ ELSE @ + 1]
                            ELSE UNCHANGED <<at, late>>
            BY <1>5 DEF Iterate
          <6>2. QED
            BY <1>0, <6>1 DEF TypeOK
        <5>3. QED
          BY <3>3, <5>1, <5>2
      <4>3. late[t] = 0
        BY <1>0, <4>1, <4>2 DEF LateUnseen, TypeOK
      <4>4. QED
        BY <1>0, <3>1, <4>1, <4>2, <4>3 DEF LateUnseen
    <3>4. QED
      BY <3>2, <3>3
  <2>8. Ended'
    BY <1>0, <1>5 DEF Iterate, Ended, OutcomeMatches, TypeOK, Scope
  <2>9. GoneSeen'
    <3>1. /\ at[t] = "loop" /\ UNCHANGED <<form, scope, why, exits, leavers>>
          /\ \A u \in Thread \ {t} : at'[u] = at[u] /\ view'[u] = view[u]
          /\ at'[t] \in {"loop", "body"} /\ (at'[t] = "body" => view'[t] < 2)
          /\ scope[t] = Region => view'[t] \in {why[Region], view[t]}
          /\ scope[t] # Region => view'[t] = why[scope[t]]
      BY <1>0, <1>5 DEF Iterate, TypeOK
    <3>2. form = "prange" /\ t \in leavers => view'[t] >= 2
      <4>1. form = "prange" => scope[t] = Region
        BY <1>0 DEF ScopeOfPlace
      <4>2. form = "prange" /\ leavers # {} => why[Region] >= 2
        BY <1>0 DEF GoneSeen, Noted
      <4>3. QED
        BY <1>0, <3>1, <4>1, <4>2 DEF GoneSeen
    <3>3. at'[t] = "body" => t \notin leavers
      <4>1. form = "prange" \/ (scope[t] = t /\ t # Region)
        BY <1>0, <3>1 DEF ScopeOfPlace, TypeOK, Form
      <4>2. view'[t] \in 0..4 /\ why[scope[t]] \in 0..4
        BY <1>0, <3>1 DEF TypeOK, Scope
      <4>3. QED
        BY <1>0, <3>1, <3>2, <4>1, <4>2 DEF GoneSeen
    <3>4. QED
      BY <1>0, <3>1, <3>2, <3>3 DEF GoneSeen
  <2>10. QED
    BY <2>1, <2>2, <2>3, <2>4, <2>5, <2>6, <2>7, <2>8, <2>9 DEF IInv
<1>6. ASSUME NEW t \in Thread, Body(t) PROVE IInv'
  <2>1. CASE /\ at' = [at EXCEPT ![t] = "loop"] /\ view' = [view EXCEPT ![t] = why[scope[t]]]
             /\ UNCHANGED <<why, noted, exceptions>>
    <3>1. TypeOK'
      BY <1>0, <1>6, <2>1 DEF Body, TypeOK, Scope, Place
    <3>2. LockHeld'
      BY <1>0, <1>6, <2>1 DEF Body, LockHeld, TypeOK
    <3>3. ScopeOfPlace'
      BY <1>0, <1>6, <2>1 DEF Body, ScopeOfPlace, TypeOK, Form
    <3>4. OwnedAlone'
      BY <1>0, <1>6, <2>1 DEF Body, OwnedAlone, TypeOK, Scope
    <3>5. ExceptionPlaces'
      <4>1. /\ \A u \in Thread \ {t} : at'[u] = at[u]
            /\ at[t] = "body" /\ at'[t] = "loop"
        BY <1>0, <1>6, <2>1 DEF Body, TypeOK
      <4>2. QED
        BY <1>0, <1>6, <2>1, <4>1, ThreadMovesOn DEF Body
    <3>6. Noted'
      BY <1>0, <1>6, <2>1 DEF Body, Noted, TypeOK, Scope, ScopeOfPlace, ExceptionPlaces
    <3>7. LateUnseen'
      <4>1. /\ \A u \in Thread \ {t} : view'[u] = view[u] /\ at'[u] = at[u]
            /\ view'[t] = why[scope[t]] /\ UNCHANGED <<form, why, late>>
        BY <1>0, <1>6, <2>1 DEF Body, TypeOK
      <4>2. form = "prange" => scope[t] = Region
        BY <1>0 DEF ScopeOfPlace
      <4>3. QED
        BY <1>0, <4>1, <4>2 DEF LateUnseen, TypeOK
    <3>8. Ended'
      BY <1>0, <1>6, <2>1 DEF Body, Ended, OutcomeMatches, TypeOK, Scope
    <3>9. GoneSeen'
      BY <1>0, <1>6, <2>1 DEF Body, GoneSeen, TypeOK, Scope, ScopeOfPlace
    <3>10. QED
      BY <3>1, <3>2, <3>3, <3>4, <3>5, <3>6, <3>7, <3>8, <3>9 DEF IInv
  <2>2. ASSUME NEW w \in {2, 3}, Note(t, w), view' = [view EXCEPT ![t] = w],
               at' = [at EXCEPT ![t] = "loop"], UNCHANGED exceptions
        PROVE  IInv'
    <3>1. TypeOK'
      BY <1>0, <1>6, <2>2 DEF Body, Note, TypeOK, Scope, Place
    <3>2. LockHeld'
      BY <1>0, <1>6, <2>2 DEF Body, Note, LockHeld, TypeOK
    <3>3. ScopeOfPlace'
      BY <1>0, <1>6, <2>2 DEF Body, Note, ScopeOfPlace, TypeOK, Form
    <3>4. OwnedAlone'
      BY <1>0, <1>6, <2>2 DEF Body, Note, OwnedAlone, TypeOK, Scope
    <3>5. ExceptionPlaces'
      <4>1. /\ \A u \in Thread \ {t} : at'[u] = at[u] /\ scope'[u] = scope[u]
            /\ at'[t] = "loop" /\ at[t] = "body" /\ UNCHANGED <<scope, exceptions, outcome>>
            /\ why'[scope[t]] = w /\ w # 4 /\ \A s \in Scope \ {scope[t]} : why'[s] = why[s]
        BY <1>0, <1>6, <2>2 DEF Body, Note, TypeOK
      <4>2. \A s \in Scope : why'[s] = 4 => why[s] = 4
        BY <4>1
      <4>3. QED
        BY <1>0, <4>1, <4>2 DEF ExceptionPlaces, OnItsWay, Scope
    <3>6. Noted'
      <4>1. w \in 1..4 /\ w >= 2 /\ form' = form
        BY <1>6, <2>2 DEF Body
      <4>2. QED
        BY <1>0, <2>2, <4>1, NoteNoted DEF Noted
    <3>7. LateUnseen'
      <4>1. /\ \A u \in Thread \ {t} : view'[u] = view[u] /\ at'[u] = at[u]
            /\ view'[t] = w /\ UNCHANGED <<form, late>>
        BY <1>0, <1>6, <2>2 DEF Body, TypeOK
      <4>2. form = "prange" => why'[Region] = w
        BY <1>0, <2>2, NoteNoted
      <4>3. QED
        BY <1>0, <4>1, <4>2 DEF LateUnseen, TypeOK
    <3>8. Ended'
      BY <1>0, <1>6, <2>2 DEF Body, Note, Ended, OutcomeMatches, TypeOK, Scope
    <3>9. GoneSeen'
      <4>1. /\ \A u \in Thread \ {t} : at'[u] = at[u] /\ view'[u] = view[u]
            /\ at'[t] = "loop" /\ view'[t] = w /\ w >= 2 /\ UNCHANGED <<form, scope>>
        BY <1>0, <1>6, <2>2 DEF Body, TypeOK
      <4>2. /\ leavers' = leavers \cup {t} /\ why'[scope[t]] = w
            /\ \A s \in Scope \ {scope[t]} : why'[s] = why[s]
            /\ form = "prange" => exits' # {}
        BY <1>0, <2>2, <4>1, NoteNoted
      <4>3. at[t] = "body" /\ scope[t] \in {t, Region} /\ \A u \in Thread : u \in Scope /\ u # Region
        BY <1>0, <1>6 DEF Body, ScopeOfPlace, Scope
      <4>4. QED
        BY <1>0, <4>1, <4>2, <4>3 DEF GoneSeen
    <3>10. QED
      BY <3>1, <3>2, <3>3, <3>4, <3>5, <3>6, <3>7, <3>8, <3>9 DEF IInv
  <2>3. CASE Raise(t) /\ view' = view
    <3>1. TypeOK'
      <4>1. ExceptionType'
        BY <1>0, <2>3, RaiseOwned DEF Raise, TypeOK, ExceptionType
      <4>2. QED
        BY <1>0, <1>6, <2>3, <4>1 DEF Body, Raise, ExceptionType, TypeOK, Place, Scope
    <3>2. LockHeld'
      BY <1>0, <1>6, <2>3 DEF Body, Raise, LockHeld, TypeOK
    <3>3. ScopeOfPlace'
      BY <1>0, <1>6, <2>3 DEF Body, Raise, ScopeOfPlace, TypeOK, Form
    <3>4. OwnedAlone'
      BY <1>0, <2>3, RaiseOwned DEF Raise, TypeOK, ExceptionType
    <3>5. ExceptionPlaces'
      <4>1. /\ at'[t] = "raising" /\ pending'[t] # Nobody /\ at[t] \in {"body", "block", "before"}
            /\ \A u \in Thread \ {t} : at'[u] = at[u] /\ pending'[u] = pending[u]
            /\ UNCHANGED <<scope, why, kept, outcome>>
        BY <1>0, <1>6, <2>3 DEF Body, Raise, TypeOK
      <4>2. QED
        BY <1>0, <4>1 DEF ExceptionPlaces, OnItsWay
    <3>6. Noted'
      BY <1>0, <1>6, <2>3 DEF Body, Raise, Noted, TypeOK, Scope, ScopeOfPlace, ExceptionPlaces
    <3>7. LateUnseen'
      BY <1>0, <1>6, <2>3 DEF Body, Raise, LateUnseen, TypeOK, Scope, ScopeOfPlace, Noted
    <3>8. Ended'
      BY <1>0, <1>6, <2>3 DEF Body, Raise, Ended, OutcomeMatches, TypeOK, Scope
    <3>9. GoneSeen'
      BY <1>0, <1>6, <2>3 DEF Body, Raise, GoneSeen, TypeOK, Scope, ScopeOfPlace
    <3>10. QED
      BY <3>1, <3>2, <3>3, <3>4, <3>5, <3>6, <3>7, <3>8, <3>9 DEF IInv
  <2>4. QED
    BY <1>6, <2>1, <2>2, <2>3 DEF Body, FlushedView, Raise
<1>7. ASSUME NEW t \in Thread, Lock(t) PROVE IInv'
  <2>1. TypeOK'
    BY <1>0, <1>7 DEF Lock, TypeOK, Scope, Place
  <2>2. LockHeld'
    BY <1>0, <1>7 DEF Lock, LockHeld, TypeOK
  <2>3. ScopeOfPlace'
    BY <1>0, <1>7 DEF Lock, ScopeOfPlace, TypeOK, Form
  <2>4. OwnedAlone'
    BY <1>0, <1>7 DEF Lock, OwnedAlone, TypeOK, Scope
  <2>5. ExceptionPlaces'
    BY <1>0, <1>7 DEF Lock, ExceptionPlaces, OnItsWay, TypeOK, Scope, ScopeOfPlace, LockHeld
  <2>6. Noted'
    BY <1>0, <1>7 DEF Lock, Noted, TypeOK, Scope, ScopeOfPlace, ExceptionPlaces
  <2>7. LateUnseen'
    BY <1>0, <1>7 DEF Lock, LateUnseen, TypeOK, Scope, ScopeOfPlace, Noted
  <2>8. Ended'
    BY <1>0, <1>7 DEF Lock, Ended, OutcomeMatches, TypeOK, Scope
  <2>9. GoneSeen'
    BY <1>0, <1>7 DEF Lock, GoneSeen, TypeOK, Scope, ScopeOfPlace
  <2>10. QED
    BY <2>1, <2>2, <2>3, <2>4, <2>5, <2>6, <2>7, <2>8, <2>9 DEF IInv
<1>8. ASSUME NEW t \in Thread, LookForOther(t) PROVE IInv'
  <2>1. TypeOK'
    BY <1>0, <1>8 DEF LookForOther, TypeOK, Scope, Place
  <2>2. LockHeld'
    BY <1>0, <1>8 DEF LookForOther, LockHeld, TypeOK
  <2>3. ScopeOfPlace'
    BY <1>0, <1>8 DEF LookForOther, ScopeOfPlace, TypeOK, Form
  <2>4. OwnedAlone'
    BY <1>0, <1>8 DEF LookForOther, OwnedAlone, TypeOK, Scope
  <2>5. ExceptionPlaces'
    <3>1. /\ at[t] = "locked" /\ UNCHANGED <<scope, why, kept, pending, raised, outcome>>
          /\ at'[t] = IF kept[scope[t]] = Nobody THEN "storing" ELSE "noting"
          /\ \A u \in Thread \ {t} : at'[u] = at[u]
      BY <1>0, <1>8 DEF LookForOther, TypeOK
    <3>2. \A u \in Thread \ {t} : OnItsWay(u)' <=> OnItsWay(u)
      BY <3>1 DEF OnItsWay
    <3>3. kept[Region] # Nobody \/ OnItsWay(t)'
      BY <1>0, <3>1 DEF OnItsWay, ScopeOfPlace
    <3>4. QED
      BY <1>0, <3>1, <3>2, <3>3 DEF ExceptionPlaces
  <2>6. Noted'
    BY <1>0, <1>8 DEF LookForOther, Noted, TypeOK, Scope, ScopeOfPlace, ExceptionPlaces
  <2>7. LateUnseen'
    BY <1>0, <1>8 DEF LookForOther, LateUnseen, TypeOK, Scope, ScopeOfPlace, Noted
  <2>8. Ended'
    BY <1>0, <1>8 DEF LookForOther, Ended, OutcomeMatches, TypeOK, Scope
  <2>9. GoneSeen'
    BY <1>0, <1>8 DEF LookForOther, GoneSeen, TypeOK, Scope, ScopeOfPlace
  <2>10. QED
    BY <2>1, <2>2, <2>3, <2>4, <2>5, <2>6, <2>7, <2>8, <2>9 DEF IInv
<1>9. ASSUME NEW t \in Thread, Keep(t) PROVE IInv'
  <2>1. TypeOK'
    BY <1>0, <1>9 DEF Keep, TypeOK, Scope, Place
  <2>2. LockHeld'
    BY <1>0, <1>9 DEF Keep, LockHeld, TypeOK
  <2>3. ScopeOfPlace'
    BY <1>0, <1>9 DEF Keep, ScopeOfPlace, TypeOK, Form
  <2>4. OwnedAlone'
    BY <1>0, <1>9, KeepOwned DEF Keep, ExceptionPlaces, TypeOK, ExceptionType
  <2>5. ExceptionPlaces'
    <3>1. /\ \A u \in Thread \ {t} : at'[u] = at[u] /\ pending'[u] = pending[u]
          /\ at[t] = "storing" /\ at'[t] = "noting" /\ pending[t] # Nobody /\ kept[scope[t]] = Nobody
          /\ kept'[scope[t]] = pending[t] /\ \A s \in Scope \ {scope[t]} : kept'[s] = kept[s]
          /\ UNCHANGED <<scope, why, outcome, raised>>
      BY <1>0, <1>9 DEF Keep, ExceptionPlaces, TypeOK
    <3>2. scope[t] \in {t, Region} /\ \A u \in Thread \ {t} : at[u] # "storing"
      <4>1. scope[t] \in {t, Region} /\ lock = t
        BY <1>0, <3>1 DEF ScopeOfPlace, LockHeld
      <4>2. QED
        BY <1>0, <4>1 DEF LockHeld
    <3>3. \A u \in Thread : /\ at'[u] \in {"raising", "locked", "storing"} => pending'[u] # Nobody
                            /\ at'[u] = "ended" /\ u # Caller => pending'[u] = Nobody
      BY <1>0, <3>1 DEF ExceptionPlaces
    <3>8. \A u \in Thread : at'[u] # "storing"
      BY <3>1, <3>2
    <3>9. \A s \in Scope : kept[s] # Nobody => kept'[s] # Nobody
      BY <3>1
    <3>10. ASSUME NEW u \in Thread
           PROVE  /\ at'[u] = "noting" => kept'[scope[u]] # Nobody
                  /\ scope[u] = u /\ why[u] = 4 => kept'[u] # Nobody
      <4>1. scope[u] \in Scope /\ u \in Scope
        BY <1>0 DEF TypeOK, Scope
      <4>2. CASE u = t
        BY <1>0, <3>1, <3>9, <4>1, <4>2 DEF ExceptionPlaces
      <4>3. CASE u # t
        BY <1>0, <3>1, <3>9, <4>1, <4>3 DEF ExceptionPlaces
      <4>4. QED
        BY <4>2, <4>3
    <3>4. \A u \in Thread : scope[u] = Region => kept'[u] = Nobody
      BY <1>0, <3>1, <3>2 DEF ExceptionPlaces, Scope
    <3>5. kept'[Region] # Nobody \/ OnItsWay(t)'
      BY <3>1, <3>2 DEF OnItsWay
    <3>6. kept[Region] # Nobody => kept'[Region] # Nobody
      BY <3>1 DEF Scope
    <3>7. QED
      BY <1>0, <3>1, <3>3, <3>4, <3>5, <3>6, <3>8, <3>10 DEF ExceptionPlaces
  <2>6. Noted'
    BY <1>0, <1>9 DEF Keep, Noted, TypeOK, Scope, ScopeOfPlace, ExceptionPlaces
  <2>7. LateUnseen'
    BY <1>0, <1>9 DEF Keep, LateUnseen, TypeOK, Scope, ScopeOfPlace, Noted
  <2>8. Ended'
    BY <1>0, <1>9 DEF Keep, Ended, OutcomeMatches, TypeOK, Scope
  <2>9. GoneSeen'
    BY <1>0, <1>9 DEF Keep, GoneSeen, TypeOK, Scope, ScopeOfPlace
  <2>10. QED
    BY <2>1, <2>2, <2>3, <2>4, <2>5, <2>6, <2>7, <2>8, <2>9 DEF IInv
<1>10. ASSUME NEW t \in Thread, NoteError(t) PROVE IInv'
  <2>1. TypeOK'
    BY <1>0, <1>10 DEF NoteError, Note, TypeOK, Scope, Place
  <2>2. LockHeld'
    BY <1>0, <1>10 DEF NoteError, Note, LockHeld, TypeOK
  <2>3. ScopeOfPlace'
    BY <1>0, <1>10 DEF NoteError, Note, ScopeOfPlace, TypeOK, Form
  <2>4. OwnedAlone'
    BY <1>0, <1>10 DEF NoteError, Note, OwnedAlone, TypeOK, Scope
  <2>5. ExceptionPlaces'
    <3>1. /\ at[t] = "noting" /\ UNCHANGED <<scope, kept, pending, raised, outcome>>
          /\ at'[t] \in {"joining", "loop"} /\ \A u \in Thread \ {t} : at'[u] = at[u]
      BY <1>0, <1>10 DEF NoteError, TypeOK
    <3>2. kept[scope[t]] # Nobody /\ scope[t] \in {t, Region}
      BY <1>0, <3>1 DEF ExceptionPlaces, ScopeOfPlace
    <3>3. \A s \in Scope \ {scope[t]} : why'[s] = why[s]
      BY <1>0, <1>10, NoteNoted DEF NoteError
    <3>4. \A u \in Thread : OnItsWay(u)' <=> OnItsWay(u)
      BY <3>1 DEF OnItsWay
    <3>5. \A u \in Thread : u \in Scope /\ (scope[u] = u /\ why'[u] = 4 => kept[u] # Nobody)
      BY <1>0, <3>2, <3>3 DEF ExceptionPlaces, Scope
    <3>6. outcome = "none" /\ why'[Region] = 4 => kept[Region] # Nobody
      BY <1>0, <3>2, <3>3 DEF ExceptionPlaces, Scope
    <3>7. QED
      BY <1>0, <3>1, <3>2, <3>4, <3>5, <3>6 DEF ExceptionPlaces
  <2>6. Noted'
    BY <1>0, <1>10, NoteNoted DEF NoteError, Noted
  <2>7. LateUnseen'
    <3>1. /\ \A u \in Thread \ {t} : view'[u] = view[u] /\ at'[u] = at[u]
          /\ view'[t] = 4 /\ UNCHANGED <<form, late>>
      BY <1>0, <1>10 DEF NoteError, TypeOK
    <3>2. form = "prange" => why'[Region] = 4
      BY <1>0, <1>10, NoteNoted DEF NoteError
    <3>3. QED
      BY <1>0, <3>1, <3>2 DEF LateUnseen, TypeOK
  <2>8. Ended'
    BY <1>0, <1>10 DEF NoteError, Note, Ended, OutcomeMatches, TypeOK, Scope
  <2>9. GoneSeen'
    <3>1. /\ \A u \in Thread \ {t} : at'[u] = at[u] /\ view'[u] = view[u]
          /\ at'[t] \in {"joining", "loop"} /\ view'[t] = 4 /\ UNCHANGED <<form, scope>>
      BY <1>0, <1>10 DEF NoteError, TypeOK
    <3>2. /\ leavers' = leavers \cup {t} /\ why'[scope[t]] = 4
          /\ \A s \in Scope \ {scope[t]} : why'[s] = why[s]
          /\ form = "prange" => exits' # {}
      BY <1>0, <1>10, NoteNoted DEF NoteError
    <3>3. at[t] = "noting" /\ scope[t] \in {t, Region} /\ \A u \in Thread : u \in Scope /\ u # Region
      BY <1>0, <1>10 DEF NoteError, ScopeOfPlace, Scope
    <3>4. QED
      BY <1>0, <3>1, <3>2, <3>3 DEF GoneSeen
  <2>10. QED
    BY <2>1, <2>2, <2>3, <2>4, <2>5, <2>6, <2>7, <2>8, <2>9 DEF IInv
<1>11. ASSUME NEW t \in Thread, Arrive(t) PROVE IInv'
  <2>1. TypeOK'
    BY <1>0, <1>11 DEF Arrive, TypeOK, Scope, Place
  <2>2. LockHeld'
    BY <1>0, <1>11 DEF Arrive, LockHeld, TypeOK
  <2>3. ScopeOfPlace'
    BY <1>0, <1>11 DEF Arrive, ScopeOfPlace, TypeOK, Form
  <2>4. OwnedAlone'
    BY <1>0, <1>11 DEF Arrive, OwnedAlone, TypeOK, Scope
  <2>5. ExceptionPlaces'
    <3>1. /\ \A u \in Thread \ {t} : at'[u] = at[u]
          /\ at[t] = "loop" /\ at'[t] = "barrier"
      BY <1>0, <1>11 DEF Arrive, TypeOK
    <3>2. QED
      BY <1>0, <1>11, <3>1, ThreadMovesOn DEF Arrive
  <2>6. Noted'
    BY <1>0, <1>11 DEF Arrive, Noted, TypeOK, Scope, ScopeOfPlace, ExceptionPlaces
  <2>7. LateUnseen'
    BY <1>0, <1>11 DEF Arrive, LateUnseen, TypeOK, Scope, ScopeOfPlace, Noted
  <2>8. Ended'
    BY <1>0, <1>11 DEF Arrive, Ended, OutcomeMatches, TypeOK, Scope
  <2>9. GoneSeen'
    BY <1>0, <1>11 DEF Arrive, GoneSeen, TypeOK, Scope, ScopeOfPlace
  <2>10. QED
    BY <2>1, <2>2, <2>3, <2>4, <2>5, <2>6, <2>7, <2>8, <2>9 DEF IInv
<1>12. ASSUME NEW t \in Thread, AfterLoop(t) PROVE IInv'
  <2>1. CASE form = "prange" /\ at' = [at EXCEPT ![t] = "joining"] /\ UNCHANGED <<scope, exceptions>>
    <3>1. TypeOK'
      BY <1>0, <1>12, <2>1 DEF AfterLoop, TypeOK, Scope, Place
    <3>2. LockHeld'
      BY <1>0, <1>12, <2>1 DEF AfterLoop, LockHeld, TypeOK
    <3>3. ScopeOfPlace'
      BY <1>0, <1>12, <2>1 DEF AfterLoop, ScopeOfPlace, TypeOK, Form
    <3>4. OwnedAlone'
      BY <1>0, <1>12, <2>1 DEF AfterLoop, OwnedAlone, TypeOK, Scope
    <3>5. ExceptionPlaces'
      BY <1>0, <1>12, <2>1 DEF AfterLoop, ExceptionPlaces, OnItsWay, TypeOK, Scope, ScopeOfPlace, LockHeld
    <3>6. Noted'
      BY <1>0, <1>12, <2>1 DEF AfterLoop, Noted, TypeOK, Scope, ScopeOfPlace, ExceptionPlaces
    <3>7. LateUnseen'
      BY <1>0, <1>12, <2>1 DEF AfterLoop, LateUnseen, TypeOK, Scope, ScopeOfPlace, Noted
    <3>8. Ended'
      BY <1>0, <1>12, <2>1 DEF AfterLoop, Ended, OutcomeMatches, TypeOK, Scope
    <3>9. GoneSeen'
      BY <1>0, <1>12, <2>1 DEF AfterLoop, GoneSeen, TypeOK, Scope, ScopeOfPlace
    <3>10. QED
      BY <3>1, <3>2, <3>3, <3>4, <3>5, <3>6, <3>7, <3>8, <3>9 DEF IInv
  <2>2. CASE /\ form # "prange" /\ scope' = [scope EXCEPT ![t] = Region] /\ WayOut(t) # 4
             /\ at' = [at EXCEPT ![t] = "block"] /\ UNCHANGED exceptions
    <3>1. TypeOK'
      BY <1>0, <1>12, <2>2 DEF AfterLoop, TypeOK, Scope, Place
    <3>2. LockHeld'
      BY <1>0, <1>12, <2>2 DEF AfterLoop, LockHeld, TypeOK
    <3>3. ScopeOfPlace'
      BY <1>0, <1>12, <2>2 DEF AfterLoop, ScopeOfPlace, TypeOK, Form
    <3>4. OwnedAlone'
      BY <1>0, <1>12, <2>2 DEF AfterLoop, OwnedAlone, TypeOK, Scope
    <3>5. ExceptionPlaces'
      <4>1. /\ \A u \in Thread \ {t} : at'[u] = at[u] /\ scope'[u] = scope[u]
            /\ at'[t] = "block" /\ at[t] = "left" /\ scope'[t] = Region
            /\ UNCHANGED <<exceptions, why, outcome>>
        BY <1>0, <1>12, <2>2 DEF AfterLoop, TypeOK
      <4>2. kept[t] = Nobody
        BY <2>2 DEF WayOut
      <4>3. QED
        BY <1>0, <4>1, <4>2 DEF ExceptionPlaces, OnItsWay
    <3>6. Noted'
      BY <1>0, <1>12, <2>2 DEF AfterLoop, Noted, TypeOK, Scope, ScopeOfPlace, ExceptionPlaces
    <3>7. LateUnseen'
      BY <1>0, <1>12, <2>2 DEF AfterLoop, LateUnseen, TypeOK, Scope, ScopeOfPlace, Noted
    <3>8. Ended'
      BY <1>0, <1>12, <2>2 DEF AfterLoop, Ended, OutcomeMatches, TypeOK, Scope
    <3>9. GoneSeen'
      BY <1>0, <1>12, <2>2 DEF AfterLoop, GoneSeen, TypeOK, Scope, ScopeOfPlace
    <3>10. QED
      BY <3>1, <3>2, <3>3, <3>4, <3>5, <3>6, <3>7, <3>8, <3>9 DEF IInv
  <2>3. CASE /\ form # "prange" /\ scope' = [scope EXCEPT ![t] = Region] /\ WayOut(t) = 4
             /\ at' = [at EXCEPT ![t] = "raising"] /\ Restore(t, t)
    <3>1. TypeOK'
      <4>1. ExceptionType'
        BY <1>0, <2>3, RestoreOwned DEF TypeOK, ExceptionType, Scope
      <4>2. QED
        BY <1>0, <1>12, <2>3, <4>1 DEF AfterLoop, ExceptionType, TypeOK, Place, Scope
    <3>2. LockHeld'
      BY <1>0, <1>12, <2>3 DEF AfterLoop, LockHeld, TypeOK
    <3>3. ScopeOfPlace'
      BY <1>0, <1>12, <2>3 DEF AfterLoop, ScopeOfPlace, TypeOK, Form
    <3>4. OwnedAlone'
      BY <1>0, <2>3, RestoreOwned DEF TypeOK, ExceptionType, Scope
    <3>5. ExceptionPlaces'
      <4>1. /\ \A u \in Thread \ {t} : at'[u] = at[u] /\ scope'[u] = scope[u] /\ pending'[u] = pending[u]
            /\ at'[t] = "raising" /\ at[t] = "left" /\ scope'[t] = Region /\ pending'[t] = kept[t]
            /\ kept'[t] = Nobody /\ \A s \in Scope \ {t} : kept'[s] = kept[s]
            /\ UNCHANGED <<why, outcome, raised>>
        BY <1>0, <1>12, <2>3 DEF AfterLoop, Restore, TypeOK, Scope
      <4>2. scope[t] = t /\ \A u \in Thread \ {t} : scope[u] # t
        BY <1>0, <1>12, <2>3, <4>1 DEF ScopeOfPlace, TypeOK, Form
      <4>3. kept[t] # Nobody
        BY <1>0, <2>3, <4>2 DEF WayOut, ExceptionPlaces
      <4>4. OnItsWay(t)'
        BY <4>1 DEF OnItsWay
      <4>5. \A u \in Thread \ {t} : kept'[scope[u]] = kept[scope[u]] /\ kept'[u] = kept[u]
        BY <1>0, <4>1, <4>2 DEF TypeOK, Scope
      <4>6. kept'[Region] = kept[Region]
        BY <4>1 DEF Scope
      <4>7. QED
        BY <1>0, <4>1, <4>3, <4>4, <4>5, <4>6 DEF ExceptionPlaces
    <3>6. Noted'
      BY <1>0, <1>12, <2>3 DEF AfterLoop, Noted, TypeOK, Scope, ScopeOfPlace, ExceptionPlaces
    <3>7. LateUnseen'
      BY <1>0, <1>12, <2>3 DEF AfterLoop, LateUnseen, TypeOK, Scope, ScopeOfPlace, Noted
    <3>8. Ended'
      BY <1>0, <1>12, <2>3 DEF AfterLoop, Ended, OutcomeMatches, TypeOK, Scope
    <3>9. GoneSeen'
      BY <1>0, <1>12, <2>3 DEF AfterLoop, GoneSeen, TypeOK, Scope, ScopeOfPlace
    <3>10. QED
      BY <3>1, <3>2, <3>3, <3>4, <3>5, <3>6, <3>7, <3>8, <3>9 DEF IInv
  <2>4. QED
    BY <1>12, <2>1, <2>2, <2>3 DEF AfterLoop
<1>13. ASSUME NEW t \in Thread, Block(t) PROVE IInv'
  <2>1. CASE at' = [at EXCEPT ![t] = "joining"] /\ UNCHANGED <<why, view, noted, exceptions>>
    <3>1. TypeOK'
      BY <1>0, <1>13, <2>1 DEF Block, TypeOK, Scope, Place
    <3>2. LockHeld'
      BY <1>0, <1>13, <2>1 DEF Block, LockHeld, TypeOK
    <3>3. ScopeOfPlace'
      BY <1>0, <1>13, <2>1 DEF Block, ScopeOfPlace, TypeOK, Form
    <3>4. OwnedAlone'
      BY <1>0, <1>13, <2>1 DEF Block, OwnedAlone, TypeOK, Scope
    <3>5. ExceptionPlaces'
      BY <1>0, <1>13, <2>1 DEF Block, ExceptionPlaces, OnItsWay, TypeOK, Scope, ScopeOfPlace, LockHeld
    <3>6. Noted'
      BY <1>0, <1>13, <2>1 DEF Block, Noted, TypeOK, Scope, ScopeOfPlace, ExceptionPlaces
    <3>7. LateUnseen'
      BY <1>0, <1>13, <2>1 DEF Block, LateUnseen, TypeOK, Scope, ScopeOfPlace, Noted
    <3>8. Ended'
      BY <1>0, <1>13, <2>1 DEF Block, Ended, OutcomeMatches, TypeOK, Scope
    <3>9. GoneSeen'
      BY <1>0, <1>13, <2>1 DEF Block, GoneSeen, TypeOK, Scope, ScopeOfPlace
    <3>10. QED
      BY <3>1, <3>2, <3>3, <3>4, <3>5, <3>6, <3>7, <3>8, <3>9 DEF IInv
  <2>2. ASSUME NEW w \in 1..3, Note(t, w), at' = [at EXCEPT ![t] = "joining"],
               UNCHANGED <<view, exceptions>>
        PROVE  IInv'
    <3>1. TypeOK'
      BY <1>0, <1>13, <2>2 DEF Block, Note, TypeOK, Scope, Place
    <3>2. LockHeld'
      BY <1>0, <1>13, <2>2 DEF Block, Note, LockHeld, TypeOK
    <3>3. ScopeOfPlace'
      BY <1>0, <1>13, <2>2 DEF Block, Note, ScopeOfPlace, TypeOK, Form
    <3>4. OwnedAlone'
      BY <1>0, <1>13, <2>2 DEF Block, Note, OwnedAlone, TypeOK, Scope
    <3>5. ExceptionPlaces'
      <4>1. /\ \A u \in Thread \ {t} : at'[u] = at[u] /\ scope'[u] = scope[u]
            /\ at'[t] = "joining" /\ at[t] = "block" /\ UNCHANGED <<scope, exceptions, outcome>>
            /\ why'[scope[t]] = w /\ w # 4 /\ \A s \in Scope \ {scope[t]} : why'[s] = why[s]
        BY <1>0, <1>13, <2>2 DEF Block, Note, TypeOK
      <4>2. \A s \in Scope : why'[s] = 4 => why[s] = 4
        BY <4>1
      <4>3. QED
        BY <1>0, <4>1, <4>2 DEF ExceptionPlaces, OnItsWay, Scope
    <3>6. Noted'
      BY <1>0, <1>13, <2>2 DEF Block, Note, Noted, TypeOK, Scope, ScopeOfPlace, ExceptionPlaces
    <3>7. LateUnseen'
      <4>1. form # "prange" /\ UNCHANGED <<form, late>>
        BY <1>0, <1>13 DEF Block, ScopeOfPlace
      <4>2. QED
        BY <1>0, <4>1 DEF LateUnseen
    <3>8. Ended'
      BY <1>0, <1>13, <2>2 DEF Block, Note, Ended, OutcomeMatches, TypeOK, Scope
    <3>9. GoneSeen'
      BY <1>0, <1>13, <2>2 DEF Block, Note, GoneSeen, TypeOK, Scope, ScopeOfPlace
    <3>10. QED
      BY <3>1, <3>2, <3>3, <3>4, <3>5, <3>6, <3>7, <3>8, <3>9 DEF IInv
  <2>3. CASE Raise(t)
    <3>1. TypeOK'
      <4>1. ExceptionType'
        BY <1>0, <2>3, RaiseOwned DEF Raise, TypeOK, ExceptionType
      <4>2. QED
        BY <1>0, <1>13, <2>3, <4>1 DEF Block, Raise, ExceptionType, TypeOK, Place, Scope
    <3>2. LockHeld'
      BY <1>0, <1>13, <2>3 DEF Block, Raise, LockHeld, TypeOK
    <3>3. ScopeOfPlace'
      BY <1>0, <1>13, <2>3 DEF Block, Raise, ScopeOfPlace, TypeOK, Form
    <3>4. OwnedAlone'
      BY <1>0, <2>3, RaiseOwned DEF Raise, TypeOK, ExceptionType
    <3>5. ExceptionPlaces'
      <4>1. /\ at'[t] = "raising" /\ pending'[t] # Nobody /\ at[t] \in {"body", "block", "before"}
            /\ \A u \in Thread \ {t} : at'[u] = at[u] /\ pending'[u] = pending[u]
            /\ UNCHANGED <<scope, why, kept, outcome>>
        BY <1>0, <1>13, <2>3 DEF Block, Raise, TypeOK
      <4>2. QED
        BY <1>0, <4>1 DEF ExceptionPlaces, OnItsWay
    <3>6. Noted'
      BY <1>0, <1>13, <2>3 DEF Block, Raise, Noted, TypeOK, Scope, ScopeOfPlace, ExceptionPlaces
    <3>7. LateUnseen'
      BY <1>0, <1>13, <2>3 DEF Block, Raise, LateUnseen, TypeOK, Scope, ScopeOfPlace, Noted
    <3>8. Ended'
      BY <1>0, <1>13, <2>3 DEF Block, Raise, Ended, OutcomeMatches, TypeOK, Scope
    <3>9. GoneSeen'
      BY <1>0, <1>13, <2>3 DEF Block, Raise, GoneSeen, TypeOK, Scope, ScopeOfPlace
    <3>10. QED
      BY <3>1, <3>2, <3>3, <3>4, <3>5, <3>6, <3>7, <3>8, <3>9 DEF IInv
  <2>4. QED
    BY <1>13, <2>1, <2>2, <2>3 DEF Block, Raise
<1>17. ASSUME NEW t \in Thread, BlockStart(t) PROVE IInv'
  <2>1. CASE /\ at' = [at EXCEPT ![t] = "loop"] /\ scope' = [scope EXCEPT ![t] = t]
             /\ UNCHANGED <<why, noted, exceptions>>
    <3>1. TypeOK'
      BY <1>0, <1>17, <2>1 DEF BlockStart, TypeOK, Scope, Place
    <3>2. LockHeld'
      BY <1>0, <1>17, <2>1 DEF BlockStart, LockHeld, TypeOK
    <3>3. ScopeOfPlace'
      BY <1>0, <1>17, <2>1 DEF BlockStart, ScopeOfPlace, TypeOK, Form
    <3>4. OwnedAlone'
      BY <1>0, <1>17, <2>1 DEF BlockStart, OwnedAlone, TypeOK, Scope
    <3>5. ExceptionPlaces'
      <4>1. /\ \A u \in Thread \ {t} : at'[u] = at[u] /\ scope'[u] = scope[u]
            /\ at[t] = "before" /\ at'[t] = "loop" /\ scope'[t] = t /\ t # Region
            /\ UNCHANGED <<why, kept, pending, raised, outcome>>
        BY <1>0, <1>17, <2>1 DEF BlockStart, TypeOK
      <4>2. why[t] = 0 
        BY <1>0, <4>1 DEF GoneSeen
      <4>3. \A u \in Thread : OnItsWay(u)' <=> OnItsWay(u)
        BY <4>1 DEF OnItsWay
      <4>4. QED
        BY <1>0, <4>1, <4>2, <4>3 DEF ExceptionPlaces
    <3>6. Noted'
      BY <1>0, <1>17, <2>1 DEF BlockStart, Noted, TypeOK, Scope, ScopeOfPlace, ExceptionPlaces
    <3>7. LateUnseen'
      BY <1>0, <1>17, <2>1 DEF BlockStart, LateUnseen, TypeOK, Scope, ScopeOfPlace, Noted
    <3>8. Ended'
      BY <1>0, <1>17, <2>1 DEF BlockStart, Ended, OutcomeMatches, TypeOK, Scope
    <3>9. GoneSeen'
      BY <1>0, <1>17, <2>1 DEF BlockStart, GoneSeen, TypeOK, Scope, ScopeOfPlace
    <3>10. QED
      BY <3>1, <3>2, <3>3, <3>4, <3>5, <3>6, <3>7, <3>8, <3>9 DEF IInv
  <2>2. ASSUME NEW w \in 1..3, Note(t, w), at' = [at EXCEPT ![t] = "joining"],
               UNCHANGED <<scope, exceptions>>
        PROVE  IInv'
    <3>1. TypeOK'
      BY <1>0, <1>17, <2>2 DEF BlockStart, Note, TypeOK, Scope, Place
    <3>2. LockHeld'
      BY <1>0, <1>17, <2>2 DEF BlockStart, Note, LockHeld, TypeOK
    <3>3. ScopeOfPlace'
      BY <1>0, <1>17, <2>2 DEF BlockStart, Note, ScopeOfPlace, TypeOK, Form
    <3>4. OwnedAlone'
      BY <1>0, <1>17, <2>2 DEF BlockStart, Note, OwnedAlone, TypeOK, Scope
    <3>5. ExceptionPlaces'
      <4>1. /\ \A u \in Thread \ {t} : at'[u] = at[u] /\ scope'[u] = scope[u]
            /\ at'[t] = "joining" /\ at[t] = "before" /\ UNCHANGED <<scope, exceptions, outcome>>
            /\ why'[scope[t]] = w /\ w # 4 /\ \A s \in Scope \ {scope[t]} : why'[s] = why[s]
        BY <1>0, <1>17, <2>2 DEF BlockStart, Note, TypeOK
      <4>2. \A s \in Scope : why'[s] = 4 => why[s] = 4
        BY <4>1
      <4>3. QED
        BY <1>0, <4>1, <4>2 DEF ExceptionPlaces, OnItsWay, Scope
    <3>6. Noted'
      BY <1>0, <1>17, <2>2 DEF BlockStart, Note, Noted, TypeOK, Scope, ScopeOfPlace, ExceptionPlaces
    <3>7. LateUnseen'
      <4>1. form # "prange" /\ UNCHANGED <<form, late>>
        BY <1>0, <1>17 DEF BlockStart, ScopeOfPlace
      <4>2. QED
        BY <1>0, <4>1 DEF LateUnseen
    <3>8. Ended'
      BY <1>0, <1>17, <2>2 DEF BlockStart, Note, Ended, OutcomeMatches, TypeOK, Scope
    <3>9. GoneSeen'
      BY <1>0, <1>17, <2>2 DEF BlockStart, Note, GoneSeen, TypeOK, Scope, ScopeOfPlace
    <3>10. QED
      BY <3>1, <3>2, <3>3, <3>4, <3>5, <3>6, <3>7, <3>8, <3>9 DEF IInv
  <2>3. CASE Raise(t) /\ UNCHANGED scope
    <3>1. TypeOK'
      <4>1. ExceptionType'
        BY <1>0, <2>3, RaiseOwned DEF Raise, TypeOK, ExceptionType
      <4>2. QED
        BY <1>0, <1>17, <2>3, <4>1 DEF BlockStart, Raise, ExceptionType, TypeOK, Place, Scope
    <3>2. LockHeld'
      BY <1>0, <1>17, <2>3 DEF BlockStart, Raise, LockHeld, TypeOK
    <3>3. ScopeOfPlace'
      BY <1>0, <1>17, <2>3 DEF BlockStart, Raise, ScopeOfPlace, TypeOK, Form
    <3>4. OwnedAlone'
      BY <1>0, <2>3, RaiseOwned DEF Raise, TypeOK, ExceptionType
    <3>5. ExceptionPlaces'
      <4>1. /\ at'[t] = "raising" /\ pending'[t] # Nobody /\ at[t] \in {"body", "block", "before"}
            /\ \A u \in Thread \ {t} : at'[u] = at[u] /\ pending'[u] = pending[u]
            /\ UNCHANGED <<scope, why, kept, outcome>>
        BY <1>0, <1>17, <2>3 DEF BlockStart, Raise, TypeOK
      <4>2. QED
        BY <1>0, <4>1 DEF ExceptionPlaces, OnItsWay
    <3>6. Noted'
      BY <1>0, <1>17, <2>3 DEF BlockStart, Raise, Noted, TypeOK, Scope, ScopeOfPlace, ExceptionPlaces
    <3>7. LateUnseen'
      BY <1>0, <1>17, <2>3 DEF BlockStart, Raise, LateUnseen, TypeOK, Scope, ScopeOfPlace, Noted
    <3>8. Ended'
      BY <1>0, <1>17, <2>3 DEF BlockStart, Raise, Ended, OutcomeMatches, TypeOK, Scope
    <3>9. GoneSeen'
      BY <1>0, <1>17, <2>3 DEF BlockStart, Raise, GoneSeen, TypeOK, Scope, ScopeOfPlace
    <3>10. QED
      BY <3>1, <3>2, <3>3, <3>4, <3>5, <3>6, <3>7, <3>8, <3>9 DEF IInv
  <2>4. QED
    BY <1>17, <2>1, <2>2, <2>3 DEF BlockStart, Raise
<1>14. ASSUME NEW t \in Thread, Join(t) PROVE IInv'
  <2>0. ExceptionType' /\ OwnedAlone'
    <3>1. CASE t = Caller
      <4>1. UNCHANGED exceptions
        BY <1>14, <3>1 DEF Join
      <4>2. QED
        BY <1>0, <4>1 DEF ExceptionType, OwnedAlone, TypeOK
    <3>2. CASE t # Caller
      BY <1>0, <1>14, <3>2, DropOwned DEF Join, ExceptionType, TypeOK
    <3>3. QED
      BY <3>1, <3>2
  <2>1. TypeOK'
    BY <1>0, <1>14, <2>0 DEF Join, ExceptionType, TypeOK, Place
  <2>2. LockHeld'
    BY <1>0, <1>14 DEF Join, LockHeld, TypeOK
  <2>3. ScopeOfPlace'
    BY <1>0, <1>14 DEF Join, ScopeOfPlace, TypeOK, Form
  <2>4. OwnedAlone'
    BY <2>0
  <2>5. ExceptionPlaces'
    <3>1. /\ \A u \in Thread \ {t} : at'[u] = at[u] /\ pending'[u] = pending[u]
          /\ at[t] = "joining" /\ at'[t] = "ended" /\ (t # Caller => pending'[t] = Nobody)
          /\ UNCHANGED <<scope, why, kept, raised, outcome>>
      BY <1>0, <1>14 DEF Join, TypeOK
    <3>2. QED
      BY <1>0, <3>1 DEF ExceptionPlaces, OnItsWay
  <2>6. Noted'
    BY <1>0, <1>14 DEF Join, Noted, TypeOK, Scope, ScopeOfPlace, ExceptionPlaces
  <2>7. LateUnseen'
    BY <1>0, <1>14 DEF Join, LateUnseen, TypeOK, Scope, ScopeOfPlace, Noted
  <2>8. Ended'
    BY <1>0, <1>14 DEF Join, Ended, OutcomeMatches, TypeOK, Scope
  <2>9. GoneSeen'
    BY <1>0, <1>14 DEF Join, GoneSeen, TypeOK, Scope, ScopeOfPlace
  <2>10. QED
    BY <2>1, <2>2, <2>3, <2>4, <2>5, <2>6, <2>7, <2>8, <2>9 DEF IInv
<1>15. CASE UNCHANGED vars
  <2>1. TypeOK'
    BY <1>0, <1>15 DEF vars, TypeOK, Scope, Place
  <2>2. LockHeld'
    BY <1>0, <1>15 DEF vars, LockHeld, TypeOK
  <2>3. ScopeOfPlace'
    BY <1>0, <1>15 DEF vars, ScopeOfPlace, TypeOK, Form
  <2>4. OwnedAlone'
    BY <1>0, <1>15 DEF vars, OwnedAlone, TypeOK, Scope
  <2>5. ExceptionPlaces'
    BY <1>0, <1>15 DEF vars, ExceptionPlaces, OnItsWay, TypeOK, Scope, ScopeOfPlace, LockHeld
  <2>6. Noted'
    BY <1>0, <1>15 DEF vars, Noted, TypeOK, Scope, ScopeOfPlace, ExceptionPlaces
  <2>7. LateUnseen'
    BY <1>0, <1>15 DEF vars, LateUnseen, TypeOK, Scope, ScopeOfPlace, Noted
  <2>8. Ended'
    BY <1>0, <1>15 DEF vars, Ended, OutcomeMatches, TypeOK, Scope
  <2>9. GoneSeen'
    BY <1>0, <1>15 DEF vars, GoneSeen, TypeOK, Scope, ScopeOfPlace
  <2>10. QED
    BY <2>1, <2>2, <2>3, <2>4, <2>5, <2>6, <2>7, <2>8, <2>9 DEF IInv
<1>16. QED
  BY <1>1, <1>2, <1>3, <1>4, <1>5, <1>6, <1>7, <1>8, <1>9, <1>10, <1>11, <1>12, <1>13, <1>14,
     <1>15, <1>17 DEF Next, Step

(* The invariant, and with it the types, hold in every state of every team.        *)
THEOREM ParallelInvariant == Spec => [](IInv /\ TypeOK)
<1>1. Init => IInv
  BY InitIInv
<1>2. IInv /\ [Next]_vars => IInv'
  BY NextIInv
<1>3. IInv => TypeOK
  BY DEF IInv
<1> QED
  BY <1>1, <1>2, <1>3, PTL DEF Spec

-----------------------------------------------------------------------------
(* At most one element of a set has a value: how many do.                          *)
LEMMA CountOfOne ==
    ASSUME NEW S, NEW f, NEW e, \A x, y \in S : f[x] = e /\ f[y] = e => x = y
    PROVE  Cardinality({x \in S : f[x] = e}) = IF \E x \in S : f[x] = e THEN 1 ELSE 0
<1>1. CASE \E x \in S : f[x] = e
  <2>1. PICK x \in S : f[x] = e
    BY <1>1
  <2>2. {y \in S : f[y] = e} = {x}
    BY <2>1
  <2>3. QED
    BY <1>1, <2>2, FS_Singleton
<1>2. CASE ~ \E x \in S : f[x] = e
  <2>1. {x \in S : f[x] = e} = {}
    BY <1>2
  <2>2. QED
    BY <1>2, <2>1, FS_EmptySet
<1>3. QED
  BY <1>1, <1>2

(* fetch_parallel_exception(), restore_parallel_exception() and the release of a    *)
(* thread state hand each exception on, none to two owners: how it is counted once.  *)
LEMMA CountedOnce ==
    ASSUME TypeOK, OwnedAlone, NEW e \in 1..raised
    PROVE  Cardinality({t \in Thread : pending[t] = e}) + Cardinality({s \in Scope : kept[s] = e})
              + (IF e \in released THEN 1 ELSE 0) = 1
<1>1. e # Nobody
  BY DEF TypeOK
<1>2. Cardinality({t \in Thread : pending[t] = e}) = IF \E t \in Thread : pending[t] = e THEN 1 ELSE 0
  <2>1. \A t, u \in Thread : pending[t] = e /\ pending[u] = e => t = u
    BY <1>1 DEF OwnedAlone
  <2>2. QED
    BY <2>1, CountOfOne
<1>3. Cardinality({s \in Scope : kept[s] = e}) = IF \E s \in Scope : kept[s] = e THEN 1 ELSE 0
  <2>1. \A s, r \in Scope : kept[s] = e /\ kept[r] = e => s = r
    BY <1>1 DEF OwnedAlone
  <2>2. QED
    BY <2>1, CountOfOne
<1>4. /\ (\E t \in Thread : pending[t] = e) => e \notin released /\ ~ \E s \in Scope : kept[s] = e
      /\ (\E s \in Scope : kept[s] = e) => e \notin released
      /\ e \in released \/ (\E t \in Thread : pending[t] = e) \/ (\E s \in Scope : kept[s] = e)
  BY <1>1 DEF OwnedAlone
<1>5. QED
  BY <1>2, <1>3, <1>4

(* No exception is lost, none has two owners and none is released twice, however     *)
(* many threads raise at once and whatever they see of __pyx_parallel_why.           *)
THEOREM ExceptionsOwnedOnce == Spec => []OwnedOnce
<1>1. IInv => OwnedOnce
  <2>1. SUFFICES ASSUME IInv PROVE OwnedOnce
    OBVIOUS
  <2>2. \A e \in 1..raised :
           Cardinality({t \in Thread : pending[t] = e}) + Cardinality({s \in Scope : kept[s] = e})
              + (IF e \in released THEN 1 ELSE 0) = 1
    BY <2>1, CountedOnce DEF IInv
  <2>3. QED
    BY <2>1, <2>2 DEF IInv, Ended, OwnedOnce
<1> QED
  BY <1>1, ParallelInvariant, PTL

(* The caller raises exactly if a thread raised.  Else, behind a block, it goes on in a *)
(* way that a thread took, and behind a prange after or in front of the else clause,    *)
(* as no thread or some thread noted a break or a return (which does not return).       *)
THEOREM CallerLeavesAsThreadsDid == Spec => []OutcomeMatches
<1>1. IInv => OutcomeMatches
  BY DEF IInv, Ended, OutcomeMatches
<1> QED
  BY <1>1, ParallelInvariant, PTL

(* A thread that has left the loop begins no body any more.  However late it sees the   *)
(* break, the return or the exception of another, in a prange that is not in a block it   *)
(* begins at most one more.                                                      *)
THEOREM OneBodyTooMany == Spec => []OneLateBody
<1>1. IInv => OneLateBody
  BY DEF IInv, LateUnseen, GoneSeen, OneLateBody
<1> QED
  BY <1>1, ParallelInvariant, PTL

=============================================================================
