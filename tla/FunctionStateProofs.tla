------------------------ MODULE FunctionStateProofs ------------------------
(***************************************************************************)
(* The proofs about FunctionState.tla, for programs of any size and depth:   *)
(* whose the temporaries are (TempsInv), which labels are current within     *)
(* each statement and what a jump to them may leave behind (LabelsInv), and  *)
(* where the execution may be (PlaceInv), each using the ones before.        *)
(* What the execution holds at each place (HoldsInv) is defined with them    *)
(* and proved in GeneratedCodeProofs.tla.                                    *)
(***************************************************************************)
EXTENDS FunctionState, FiniteSetTheorems, SequenceTheorems, TLAPS

(* The records of a statement and of the execution.                           *)
Groups == {"is", "no", "function", "loop", "for", "clause", "try", "except", "finally", "clause of finally"}
Names == Ways \cup {"here", "done", "label", "exhausted", "else", "end", "no match", "handled", "catch"}
Label == Nat \X Groups \X Names
Labelling == [Ways -> Label]
Parts == [for |-> {"body", "else"}, except |-> {"body", "else", "handlers", "handled"},
          clause |-> {"body"},
          finally |-> {"body", "normal", "ways", "except", "return", "break", "continue"}]
Stages == {"body", "else", "handlers", "handled", "normal", "ways", "except", "return", "break", "continue"}
Frame == [node : {"for", "except", "clause", "finally"}, stage : Stages,
          temps : SUBSET Nat, clean : SUBSET Nat, ways : SUBSET Ways,
          labels : Labelling, excVars : SUBSET Nat]
Run == [at : Label, holds : SUBSET Nat, gone : SUBSET Nat, fault : BOOLEAN, overridden : BOOLEAN]

-----------------------------------------------------------------------------
(* Temporaries: one owner each; those of for and of except clauses are managed,  *)
(* and no statement has any before it needs them or after it has released them. *)
Part(f) == f.stage \in Parts[f.node]
Empty(f) == \/ f.node = "for" /\ f.stage = "else"
            \/ f.node = "finally" /\ f.stage \notin {"except", "return"}
CleanOk(i) == frames[i].clean \cap Owned(IF frames[i].node = "finally" THEN i - 1 ELSE i) = {}
FrameOk(i) ==
    /\ Part(frames[i]) /\ (Empty(frames[i]) => frames[i].temps = {})
    /\ \A t \in frames[i].temps : t \in Temps /\ (kind[t] \in Managed <=> frames[i].node \in {"for", "clause"})
    /\ frames[i].clean \subseteq Temps /\ CleanOk(i)
TempsInv ==
    /\ kind \in Seq(Kind) /\ free \subseteq Temps /\ frames \in Seq(Frame)
    /\ \A i \in 1..Depth : FrameOk(i)
    /\ TempsHaveOneOwner

-----------------------------------------------------------------------------
(* Labels: what may be jumped to from within the first d of the statements fs.     *)
Loops == {"break", "continue"}
IsCopy(f, stage) == f.node = "finally" /\ f.stage = stage
LoopBody(f) == f.node = "for" /\ f.stage = "body"
Looped(fs, d) == \E i \in 1..d : LoopBody(fs[i])
JumpOf(f, g, w) ==
    \/ f.node = "for" /\ f.stage = "body" /\ g = "loop" /\ w \in Loops
    \/ f.node = "clause" /\ g = "clause" /\ w \in Loops
    \/ f.node = "except" /\ g = "try" /\ w \in Ways /\ (f.stage = "body" \/ w \in Loops)
    \/ f.node = "except" /\ g = "except" /\ f.stage # "body" /\ w \in {"error", "return"}
    \/ f.node = "finally" /\ f.stage = "body" /\ g = "finally" /\ w \in Ways
    \/ f.node = "finally" /\ f.stage = "except" /\ g = "clause of finally" /\ w \in Ways
(* What a jump of this way may leave behind.                                    *)
Crossed(f, w) ==
    \/ IsCopy(f, "return")
    \/ f.temps = {} /\ (w \in Loops => ~LoopBody(f))
    \/ w \in {"error", "return"} /\ f.node \in {"for", "clause"}
LabelOk(fs, l, w, d) ==
    /\ l[3] = w
    /\ \/ l = FunctionLabel(w) /\ w \in {"error", "return"}
       \/ l[1] \in 1..d /\ JumpOf(fs[l[1]], l[2], w)
    /\ \A c \in 1..d : c > l[1] => Crossed(fs[c], w)
LabelsOk(fs, L, d) ==
    /\ \A w \in Ways : L[w] = NoLabel \/ LabelOk(fs, L[w], w, d)
    /\ L["error"] # NoLabel /\ L["return"] # NoLabel
    /\ Looped(fs, d) => L["break"] # NoLabel /\ L["continue"] # NoLabel
(* The labels within a statement.                                             *)
Within(f, i, L) ==
    /\ f.node = "for" => L = IF f.stage = "body"
            THEN [f.labels EXCEPT !["break"] = <<i, "loop", "break">>, !["continue"] = <<i, "loop", "continue">>]
            ELSE f.labels
    /\ f.node = "clause" => L =
            [f.labels EXCEPT !["break"] = <<i, "clause", "break">>, !["continue"] = <<i, "clause", "continue">>]
    /\ f.node = "except" => L = IF f.stage = "body" THEN NewLabels(f.labels, "try", i)
            ELSE [NewLabels(f.labels, "try", i) EXCEPT !["error"] = <<i, "except", "error">>,
                                                       !["return"] = <<i, "except", "return">>]
    /\ f.node = "finally" => L = IF f.stage = "body" THEN NewLabels(f.labels, "finally", i)
            ELSE IF f.stage = "except" THEN NewLabels(f.labels, "clause of finally", i) ELSE f.labels
ExcOk(fs, E, d) ==
    \/ E = {}
    \/ \E i \in 1..d : /\ fs[i].temps = E
                       /\ fs[i].node = "clause" \/ IsCopy(fs[i], "except")
ClauseOk(fs, i) == fs[i].node = "clause" => i > 1 /\ fs[i - 1].node = "except" /\ fs[i - 1].stage = "handled"
WaysOk(fs, i) ==
    \A w \in Loops : fs[i].node = "finally" /\ (w \in fs[i].ways \/ fs[i].stage = w) => Looped(fs, i - 1)
LabelsHold(fs, L, E, n) ==
    /\ LabelsOk(fs, L, n) /\ ExcOk(fs, E, n)
    /\ \A i \in 1..n : /\ LabelsOk(fs, fs[i].labels, i - 1) /\ ExcOk(fs, fs[i].excVars, i - 1)
                       /\ Within(fs[i], i, IF i = n THEN L ELSE fs[i + 1].labels)
                       /\ ClauseOk(fs, i)
LabelsInv == LabelsHold(frames, labels, excVars, Depth)

-----------------------------------------------------------------------------
(* The execution: where it may be.                                            *)
InternalOf(f, g, name) ==
    \/ f.node = "for" /\ g = "for" /\ name = IF f.stage = "body" THEN "exhausted" ELSE "end"
    \/ f.node = "clause" /\ g = "clause" /\ name = "no match"
    \/ f.node = "except" /\ f.stage \in {"handlers", "handled"} /\ g = "try" /\ name = "end"
    \/ f.node = "except" /\ f.stage = "handled" /\ g = "try" /\ name = "handled"
    \/ f.node = "finally" /\ f.stage \notin {"body", "normal"} /\ g = "finally" /\ name = "catch"
EarlierOf(f, g, w) ==
    \/ f.node = "except" /\ f.stage # "body" /\ g = "try" /\ w = "return"
    \/ f.node = "except" /\ f.stage = "else" /\ g = "try" /\ w = "error"
    \/ f.node = "finally" /\ f.stage # "body" /\ g = "finally" /\ w \in f.ways
Put(f, g, w) == JumpOf(f, g, w) \/ EarlierOf(f, g, w)
UsedLabel(fs, u, n) ==
    /\ u[1] <= n
    /\ u[1] = 0 => u \in {FunctionLabel("error"), FunctionLabel("return")}
    /\ u[1] > 0 /\ u[3] \in Loops /\ fs[u[1]].node # "for" => Looped(fs, u[1])
UsedOk(fs, U, n) == U \subseteq Label /\ \A u \in U : UsedLabel(fs, u, n)
WaitsAt(fs, l, U, n) ==
    \/ l \in {FunctionLabel("error"), FunctionLabel("return")} /\ l \in U
    \/ /\ l[1] \in 1..n
       /\ InternalOf(fs[l[1]], l[2], l[3]) \/ (Put(fs[l[1]], l[2], l[3]) /\ l \in U)
PlaceOk(r) == IF finished THEN r.at = Done
            ELSE \/ r.at = Here /\ ~In("finally", "ways")
                 \/ WaitsAt(frames, r.at, used, Depth)
PlaceInv ==
    /\ run \in Run /\ finished \in BOOLEAN
    /\ UsedOk(frames, used, Depth) /\ (\A i \in 1..Depth : WaysOk(frames, i))
    /\ \A i \in 1..(Depth - 1) : ~IsCopy(frames[i], "ways")
    /\ PlaceOk(run)

-----------------------------------------------------------------------------
(* The execution: what it holds.                                              *)
Own(fs, d) == {t \in Nat : \E i \in 1..d : t \in fs[i].temps}
Man(fs, d) == {t \in Nat : \E i \in 1..d : t \in fs[i].temps /\ fs[i].node \in {"for", "clause"}}
Ref(fs, d) == {t \in Nat : \E i \in 1..d : /\ t \in fs[i].temps
                                           /\ fs[i].node \in {"for", "clause"} \/ IsCopy(fs[i], "except")}
GoneUnder(fs, gone, d) ==
    \A t \in gone : \E c \in 1..d : /\ IsCopy(fs[c], "return") \/ IsCopy(fs[c], "except")
                                    /\ t \in Own(fs, c - 1)
CopiesStripped(fs, gone, d) == \A c \in 1..d : IsCopy(fs[c], "return") => Man(fs, c - 1) \subseteq gone
Bare(l) == l[2] = "finally" \/ (l[2] = "try" /\ l[3] = "end") \/ l[3] = "no match"
Level(l) == IF l[1] > 0 /\ Bare(l) THEN l[1] - 1 ELSE l[1]
Exact(r, S) == ~r.fault /\ S \ r.gone \subseteq r.holds /\ r.holds \cap S \cap r.gone = {}
(* Before a jump of this way out of the first d statements.                       *)
HeldTo(r, fs, w, d, M) ==
    /\ Exact(r, Own(fs, d)) /\ \A t \in r.holds : t \in Own(fs, d) \/ (w = "error" /\ t \in M)
    /\ CopiesStripped(fs, r.gone, d)
    /\ (w \in Loops => GoneUnder(fs, r.gone, d))
    /\ (w = "return" => Man(fs, d) \subseteq r.gone)
HeldHere(r, fs, n, m) ==
    /\ Exact(r, m \cup Own(fs, n)) /\ r.holds \subseteq m \cup Own(fs, n)
    /\ (~(n > 0 /\ fs[n].node = "except" /\ fs[n].stage \in {"handlers", "handled"}) => GoneUnder(fs, r.gone, n))
    /\ CopiesStripped(fs, r.gone, n)
HeldAt(r, fs, l, M) ==
    /\ Exact(r, Own(fs, Level(l))) /\ \A t \in r.holds : t \in Own(fs, Level(l)) \/ (l[3] = "error" /\ t \in M)
    /\ (l[3] \notin {"error", "return", "no match"} => GoneUnder(fs, r.gone, l[1] - 1))
    /\ (l[3] = "return" => Man(fs, l[1]) \subseteq r.gone)
    /\ CopiesStripped(fs, r.gone, l[1] - 1)
    /\ (l[1] > 0 /\ l[2] \in {"try", "finally"} /\ l[3] = "error" /\ fs[l[1]].stage # "body" =>
         r.holds \subseteq Own(fs, Level(l)) \cup fs[l[1]].clean)
HoldsInv ==
    /\ run.holds \subseteq Temps /\ run.gone \subseteq Ref(frames, Depth)
    /\ ~run.overridden =>
         IF run.at = Here THEN HeldHere(run, frames, Depth, Counted(scratch))
         ELSE IF run.at = Done THEN ~run.fault /\ run.holds = {}
         ELSE HeldAt(run, frames, run.at, Counted(Temps))
USE KindAssumption

-----------------------------------------------------------------------------
(* allocate_temp() and release_temp().                                        *)
Grows(T) ==
    /\ kind' \in Seq(Kind) /\ Temps \subseteq Temps' /\ \A u \in Temps : kind'[u] = kind[u]
    /\ free' \subseteq Temps' /\ T \subseteq Temps'

LEMMA Allocated ==
    ASSUME TempsInv, NEW k \in Kind, NEW t, AllocateTemp(t, k)
    PROVE  /\ Grows({t}) /\ t \in Nat /\ kind'[t] = k
           /\ t \notin InUse /\ InUse' = InUse \cup {t}
<1>1. kind \in Seq(Kind) /\ free \subseteq 1..Len(kind) /\ Len(kind) \in Nat
  BY DEF TempsInv, Temps
<1>2. CASE t \in free /\ kind[t] = k /\ free' = free \ {t} /\ UNCHANGED kind
  BY <1>1, <1>2 DEF Grows, Temps, InUse
<1>3. CASE t = Len(kind) + 1 /\ kind' = Append(kind, k) /\ UNCHANGED free
  <2>1. /\ kind' \in Seq(Kind) /\ Len(kind') = Len(kind) + 1 /\ kind'[t] = k
        /\ \A u \in 1..Len(kind) : kind'[u] = kind[u]
    BY <1>1, <1>3
  <2>2. Temps' = Temps \cup {t} /\ t \notin Temps /\ t \in Nat
    BY <1>1, <1>3, <2>1 DEF Temps
  <2>3. QED
    BY <1>1, <1>3, <2>1, <2>2 DEF Grows, Temps, InUse
<1>4. QED
  BY <1>2, <1>3 DEF AllocateTemp

LEMMA Released ==
    ASSUME TempsInv, NEW T, T \subseteq InUse, ReleaseTemps(T)
    PROVE  Grows({}) /\ InUse' = InUse \ T /\ kind' = kind
BY DEF TempsInv, ReleaseTemps, Grows, InUse, Temps

LEMMA Unchanged ==
    ASSUME TempsInv, UNCHANGED temps
    PROVE  Grows({}) /\ InUse' = InUse /\ kind' = kind
BY DEF TempsInv, temps, Grows, InUse, Temps

-----------------------------------------------------------------------------
(* The frames when a statement begins, goes on or ends.                       *)
LEMMA Frames ==
    ASSUME TempsInv
    PROVE  /\ Depth \in Nat /\ frames \in Seq(Frame)
           /\ \A i \in 1..Depth : frames[i] \in Frame /\ FrameOk(i)
           /\ frames # <<>> <=> Depth > 0
           /\ Depth > 0 => Top \in Frame /\ Depth \in 1..Depth /\ Top = frames[Depth]
BY DEF TempsInv, Depth, Top

LEMMA Restaged ==
    ASSUME TempsInv, Depth > 0, NEW f \in Frame, Goes(f)
    PROVE  /\ frames' \in Seq(Frame) /\ Depth' = Depth
           /\ \A i \in 1..(Depth - 1) : frames'[i] = frames[i]
           /\ frames'[Depth] = f
BY Frames DEF Goes, Depth

LEMMA Pushed ==
    ASSUME TempsInv, NEW fs, fs \in Seq(Frame), Len(fs) = Depth, NEW g, g \in Frame, frames' = Append(fs, g)
    PROVE  /\ frames' \in Seq(Frame) /\ Depth' = Depth + 1
           /\ \A i \in 1..Depth : frames'[i] = fs[i]
           /\ frames'[Depth + 1] = g
BY Frames DEF Depth

NewFrame(node, T) == [node |-> node, stage |-> "body", temps |-> T, clean |-> {}, ways |-> {},
                      labels |-> labels, excVars |-> excVars]

LEMMA NewFrameType ==
    ASSUME NEW node, NEW T, labels \in Labelling, excVars \subseteq Nat, T \subseteq Nat,
           node \in {"for", "except", "clause", "finally"}
    PROVE  /\ NewFrame(node, T) \in Frame /\ NewFrame(node, T).node = node
           /\ NewFrame(node, T).stage = "body" /\ NewFrame(node, T).temps = T
           /\ NewFrame(node, T).clean = {} /\ NewFrame(node, T).ways = {}
           /\ NewFrame(node, T).labels = labels /\ NewFrame(node, T).excVars = excVars
BY DEF NewFrame, Frame, Stages

LEMMA Popped ==
    ASSUME TempsInv, Depth > 0, Pop
    PROVE  /\ frames' \in Seq(Frame) /\ Depth' = Depth - 1
           /\ \A i \in 1..(Depth - 1) : frames'[i] = frames[i]
<1>1. Depth \in Nat /\ frames \in Seq(Frame) /\ frames' = SubSeq(frames, 1, Depth - 1)
  BY Frames DEF Pop
<1>2. \A i \in 1..(Depth - 1) : frames[i] \in Frame
  BY Frames
<1>3. SubSeq(frames, 1, Depth - 1) \in Seq(Frame)
  BY <1>1, <1>2, SubSeqProperties
<1>4. Len(SubSeq(frames, 1, Depth - 1)) = Depth - 1
  BY <1>1
<1>5. \A i \in 1..(Depth - 1) : SubSeq(frames, 1, Depth - 1)[i] = frames[i]
  BY <1>1 DEF Depth
<1>6. QED
  BY <1>1, <1>3, <1>4, <1>5 DEF Depth

-----------------------------------------------------------------------------
(* What the top frame owns, and what the others do.                             *)
LEMMA OwnedTop ==
    ASSUME TempsInv, Depth > 0
    PROVE  /\ Owned(Depth) = Owned(Depth - 1) \cup Top.temps
           /\ Owned(Depth - 1) \cap Top.temps = {}
           /\ InUse = scratch \cup Owned(Depth) /\ scratch \cap Owned(Depth) = {}
           /\ Owned(Depth) \subseteq Temps /\ Top.temps \subseteq Temps
<1>1. /\ Depth \in Nat /\ Top = frames[Depth]
      /\ \A i \in 1..Depth : \A t \in frames[i].temps : t \in Temps
      /\ \A i \in 1..Depth : /\ frames[i].temps \cap scratch = {}
                            /\ \A j \in 1..(i - 1) : frames[i].temps \cap frames[j].temps = {}
      /\ InUse = scratch \cup Owned(Depth)
  BY Frames DEF FrameOk, TempsInv, TempsHaveOneOwner
<1>2. Owned(Depth) = Owned(Depth - 1) \cup Top.temps
  BY <1>1 DEF Owned
<1>3. Owned(Depth - 1) \cap Top.temps = {}
  BY <1>1 DEF Owned
<1>4. scratch \cap Owned(Depth) = {}
  BY <1>1 DEF Owned
<1>5. QED
  BY <1>1, <1>2, <1>3, <1>4 DEF Owned

(* One owner each, when what the top frame owns changes ...                      *)
LEMMA OwnersRestage ==
    ASSUME TempsInv, Depth > 0, scratch = {}, scratch' = {},
           NEW f \in Frame, Goes(f), Grows(f.temps),
           Part(f), f.node = Top.node, Empty(f) => f.temps = {},
           InUse' = (InUse \ Top.temps) \cup f.temps,
           f.temps \cap (InUse \ Top.temps) = {},
           \A t \in f.temps : kind'[t] \in Managed <=> f.node \in {"for", "clause"},
           f.clean \subseteq Temps,
           f.clean \cap Owned(Depth - 1) = {},
           f.node # "finally" => f.clean \cap f.temps = {}
    PROVE  TempsInv'
<1>f. /\ Depth \in Nat /\ \A i \in 1..Depth : frames[i] \in Frame /\ FrameOk(i)
      /\ Top \in Frame /\ Top = frames[Depth]
  BY Frames
<1>r. /\ frames' \in Seq(Frame) /\ Depth' = Depth
      /\ \A i \in 1..(Depth - 1) : frames'[i] = frames[i]
      /\ frames'[Depth] = f
  BY Restaged
<1> USE <1>f, <1>r
<1>1. \A d \in 0..(Depth - 1) : Owned(d)' = Owned(d)
  BY DEF Grows, Owned, FrameOk
<1>2. Owned(Depth)' = Owned(Depth - 1) \cup f.temps
  BY DEF Grows, Owned, FrameOk
<1>3. /\ Owned(Depth) = Owned(Depth - 1) \cup Top.temps
      /\ Owned(Depth - 1) \cap Top.temps = {} /\ InUse = Owned(Depth)
  BY OwnedTop
<1>4. InUse' = Owned(Depth)'
  BY <1>2, <1>3
<1>5. \A i \in 1..(Depth - 1) : FrameOk(i)'
  BY <1>1 DEF FrameOk, CleanOk, Grows
<1>6. FrameOk(Depth)'
  BY <1>1, <1>2 DEF FrameOk, CleanOk, Grows
<1>7. ASSUME NEW i \in 1..Depth, NEW j \in 1..(i - 1)
      PROVE  frames'[i].temps \cap frames'[j].temps = {}
  <2>1. CASE i < Depth
    <3>1. frames'[i] = frames[i] /\ frames'[j] = frames[j]
      BY <2>1
    <3>2. frames[i].temps \cap frames[j].temps = {}
      BY DEF TempsInv, TempsHaveOneOwner
    <3>3. QED
      BY <3>1, <3>2
  <2>2. CASE i = Depth
    <3>1. frames[j].temps \subseteq Owned(Depth - 1)
      BY <2>2 DEF Owned, FrameOk
    <3>2. QED
      BY <2>2, <3>1, <1>3
  <2>3. QED
    BY <2>1, <2>2
<1>8. QED
  BY <1>4, <1>5, <1>6, <1>7 DEF TempsInv, TempsHaveOneOwner, Grows

(* ... when a statement begins ...                                             *)
LEMMA OwnersPush ==
    ASSUME TempsInv, scratch = {}, scratch' = {},
           NEW fs, fs \in Seq(Frame), Len(fs) = Depth, NEW d, d = Depth,
           NEW g, g \in Frame, frames' = Append(fs, g), Grows(g.temps),
           \A i \in 1..Depth : /\ fs[i].temps = frames[i].temps /\ fs[i].node = frames[i].node
                               /\ fs[i].clean = frames[i].clean /\ Part(fs[i])
                               /\ Empty(fs[i]) => Empty(frames[i]),
           g.stage = "body", g.clean = {}, g.node = "finally" => g.temps = {},
           InUse' = InUse \cup g.temps, g.temps \cap InUse = {},
           \A t \in g.temps : kind'[t] \in Managed <=> g.node \in {"for", "clause"}
    PROVE  TempsInv'
<1>f. Depth \in Nat /\ \A i \in 1..Depth : frames[i] \in Frame /\ FrameOk(i)
  BY Frames
<1>d. d \in Nat
  BY <1>f
<1>r. /\ frames' \in Seq(Frame) /\ Depth' = Depth + 1
      /\ \A i \in 1..Depth : frames'[i] = fs[i]
      /\ frames'[Depth + 1] = g
  BY Pushed
<1> USE <1>f, <1>r, <1>d
<1>1. \A e \in 0..d : Owned(e)' = Owned(e)
  BY DEF Grows, Owned, FrameOk
<1>2. Owned(d + 1)' = Owned(d) \cup g.temps
  BY DEF Grows, Owned, FrameOk
<1>3. InUse = Owned(Depth)
  BY DEF TempsInv, TempsHaveOneOwner
<1>4. InUse' = Owned(Depth)' /\ InUse' = Owned(d + 1)'
  BY <1>2, <1>3
<1>5. ASSUME NEW i \in 1..d
      PROVE  FrameOk(i)'
  <2>1. /\ frames'[i].temps = frames[i].temps /\ frames'[i].node = frames[i].node
        /\ frames'[i].clean = frames[i].clean /\ FrameOk(i)
        /\ Part(frames'[i]) /\ (Empty(frames'[i]) => Empty(frames[i]))
    OBVIOUS
  <2>2. CleanOk(i)'
    BY <1>1, <2>1 DEF CleanOk, FrameOk
  <2>3. QED
    BY <2>1, <2>2 DEF FrameOk, Grows
<1>6. FrameOk(d + 1)'
  <2>1. Part(g) /\ (Empty(g) => g.temps = {}) /\ CleanOk(d + 1)'
    BY <1>1 DEF Part, Parts, Empty, CleanOk, Frame
  <2>2. QED
    BY <2>1 DEF FrameOk, Grows
<1>7. ASSUME NEW i \in 1..(d + 1), NEW j \in 1..(i - 1)
      PROVE  frames'[i].temps \cap frames'[j].temps = {}
  <2>1. CASE i \in 1..Depth
    <3>1. frames'[i].temps = frames[i].temps /\ frames'[j].temps = frames[j].temps
      BY <2>1
    <3>2. QED
      BY <2>1, <3>1 DEF TempsInv, TempsHaveOneOwner
  <2>2. CASE i = Depth + 1
    <3>1. frames[j].temps \subseteq Owned(Depth)
      BY <2>2 DEF Owned, FrameOk
    <3>2. QED
      BY <2>2, <3>1, <1>3
  <2>3. QED
    BY <2>1, <2>2
<1>8. QED
  BY <1>4, <1>5, <1>6, <1>7 DEF TempsInv, TempsHaveOneOwner, Grows

(* ... when one ends.                                                         *)
LEMMA OwnersPop ==
    ASSUME TempsInv, Depth > 0, NEW d, d = Depth, scratch = {}, scratch' = {}, Pop, Grows({}),
           InUse' = InUse \ Top.temps
    PROVE  TempsInv'
<1>f. /\ Depth \in Nat /\ \A i \in 1..Depth : frames[i] \in Frame /\ FrameOk(i)
      /\ Top \in Frame /\ Top = frames[Depth]
  BY Frames
<1>r. /\ frames' \in Seq(Frame) /\ Depth' = Depth - 1
      /\ \A i \in 1..(Depth - 1) : frames'[i] = frames[i]
  BY Popped
<1> USE <1>f, <1>r
<1>1. \A e \in 0..(d - 1) : Owned(e)' = Owned(e)
  <2>1. \A i \in 1..(d - 1) : frames'[i] = frames[i] /\ \A t \in frames[i].temps : t \in Temps /\ t \in Temps'
    BY DEF Grows, FrameOk
  <2>2. ASSUME NEW e \in 0..(d - 1) PROVE \A i \in 1..e : i \in 1..(d - 1)
    OBVIOUS
  <2>3. QED
    BY <2>1, <2>2 DEF Owned
<1>3. /\ Owned(Depth) = Owned(Depth - 1) \cup Top.temps
      /\ Owned(Depth - 1) \cap Top.temps = {} /\ InUse = Owned(Depth)
  BY OwnedTop
<1>4. InUse' = Owned(Depth)' /\ Owned(Depth)' = Owned(d - 1)'
  BY <1>1, <1>3
<1>5. \A i \in 1..(d - 1) : FrameOk(i)'
  BY <1>1 DEF FrameOk, CleanOk, Grows
<1>7. ASSUME NEW i \in 1..(d - 1), NEW j \in 1..(i - 1)
      PROVE  frames'[i].temps \cap frames'[j].temps = {}
  <2>1. /\ i \in 1..Depth /\ d \in Nat /\ j \in 1..(d - 1)
        /\ frames'[i] = frames[i] /\ frames'[j] = frames[j]
    OBVIOUS
  <2>2. QED
    BY <2>1 DEF TempsInv, TempsHaveOneOwner
<1>8. QED
  BY <1>4, <1>5, <1>7 DEF TempsInv, TempsHaveOneOwner, Grows

-----------------------------------------------------------------------------
(* The types of labels.                                                       *)
LabelType == labels \in Labelling /\ excVars \subseteq Nat

LEMMA LabelTypes ==
    /\ NoLabel \in Label /\ Here \in Label /\ Done \in Label
    /\ \A w \in Ways : FunctionLabel(w) \in Label
    /\ \A d \in Nat, g \in Groups, n \in Names : <<d, g, n>> \in Label
BY DEF NoLabel, Here, Done, FunctionLabel, Label, Groups, Names, Ways

LEMMA NewLabelsType ==
    ASSUME NEW L \in Labelling, NEW g \in Groups, NEW d \in Nat
    PROVE  NewLabels(L, g, d) \in Labelling
BY DEF NewLabels, Labelling, Label, Names

LEMMA LoopLabelsType ==
    ASSUME labels \in Labelling, NEW g \in Groups, Depth \in Nat
    PROVE  LoopLabels(g) \in Labelling
<1>0. "break" \in Names /\ "continue" \in Names /\ Depth + 1 \in Nat
  BY DEF Names, Ways
<1>1. <<Depth + 1, g, "break">> \in Label /\ <<Depth + 1, g, "continue">> \in Label
  BY <1>0 DEF Label
<1>2. QED
  BY <1>1 DEF LoopLabels, Labelling

(* What can happen next, action by action.                                     *)
LEMMA Actions ==
    ASSUME CodeNext
    PROVE  \/ \E t \in 1..MaxTemps, k \in Kind : Evaluate(t, k)
           \/ \E t \in 1..MaxTemps : Dispose(t)
           \/ \E way \in {"break", "continue"} : BreakOrContinue(way) \/ JumpNowhere(way)
           \/ Return \/ Reraise
           \/ \E t \in 1..MaxTemps, k \in Kind : ForBegin(t, k)
           \/ ForElse \/ ForEnd
           \/ \E t \in 1..MaxTemps : TryBegin(t)
           \/ \E t \in 1..MaxTemps, k \in Kind : ClauseBegin(t, k)
           \/ TryElse \/ TryHandlers \/ ClauseEnd \/ TryEnd
           \/ \E t \in 1..MaxTemps : FinallyExcept(t)
           \/ \E way \in {"return", "break", "continue"} : \E T : FinallyWay(way, T)
           \/ \E way \in {"return", "break", "continue"} : FinallyWayEnd(way)
           \/ FinallyBegin \/ FinallyNormal \/ FinallyNormalEnd \/ FinallyExceptEnd \/ FinallyEnd
           \/ FunctionEnd
<1>1. Ways \ {"error"} = {"return", "break", "continue"}
  BY DEF Ways
<1>2. CASE Expression
  BY <1>2 DEF Expression
<1>3. CASE Jump
  BY <1>3 DEF Jump
<1>4. CASE Loop
  BY <1>4 DEF Loop
<1>5. CASE TryExcept
  BY <1>5 DEF TryExcept
<1>6. CASE TryFinally
  BY <1>1, <1>6 DEF TryFinally
<1>7. QED
  BY <1>2, <1>3, <1>4, <1>5, <1>6 DEF CodeNext

LEMMA LabelTypeStep ==
    ASSUME TempsInv, LabelType, [CodeNext]_codeVars
    PROVE  LabelType'
<1>f. /\ Depth \in Nat
      /\ Depth > 0 => Top \in Frame
      /\ \A n, s : In(n, s) => Depth > 0
  BY Frames DEF In
<1>t. Depth > 0 => Top.labels \in Labelling /\ Top.excVars \subseteq Nat
  BY <1>f DEF Frame
<1> USE <1>f, <1>t DEF LabelType
<1>0. Ways \subseteq Names /\ {"loop", "clause", "try", "finally", "clause of finally"} \subseteq Groups
  BY DEF Groups, Names
<1>n. Depth + 1 \in Nat /\ \A g \in Groups, d \in Nat : NewLabels(labels, g, d) \in Labelling
  BY NewLabelsType
<1>1. CASE UNCHANGED <<labels, excVars>>
  BY <1>1
<1>2. ASSUME NEW t \in 1..MaxTemps, NEW k \in Kind, ForBegin(t, k) PROVE LabelType'
  BY <1>0, <1>2, LoopLabelsType DEF ForBegin
<1>3. ASSUME NEW t \in 1..MaxTemps, NEW k \in Kind, ClauseBegin(t, k) PROVE LabelType'
  BY <1>0, <1>3, LoopLabelsType, Allocated DEF ClauseBegin
<1>4. ASSUME NEW t \in 1..MaxTemps, TryBegin(t) PROVE LabelType'
  BY <1>0, <1>n, <1>4 DEF TryBegin
<1>5. CASE FinallyBegin
  BY <1>0, <1>n, <1>5 DEF FinallyBegin
<1>6. ASSUME NEW t \in 1..MaxTemps, FinallyExcept(t) PROVE LabelType'
  <2>1. /\ labels' = NewLabels(labels, "clause of finally", Depth) /\ excVars' = {t}
        /\ AllocateTemp(t, Plain)
    BY <1>6 DEF FinallyExcept
  <2>2. t \in Nat
    BY <2>1, Allocated
  <2>3. QED
    BY <1>0, <1>n, <2>1, <2>2
<1>7. CASE TryElse
  <2>1. <<Depth, "except", "error">> \in Label /\ <<Depth, "except", "return">> \in Label
    BY DEF Label, Groups, Names, Ways
  <2>2. QED
    BY <1>7, <2>1 DEF TryElse, Labelling
<1>8. CASE ForElse \/ FinallyNormal \/ FinallyExceptEnd
  BY <1>8 DEF ForElse, FinallyNormal, FinallyExceptEnd
<1>9. CASE ForEnd \/ ClauseEnd \/ TryEnd \/ FinallyEnd
  BY <1>9 DEF ForEnd, ClauseEnd, TryEnd, FinallyEnd, Pop
<1>10. CASE CodeNext
  <2>1. ASSUME NEW t \in 1..MaxTemps, NEW k \in Kind, Evaluate(t, k) PROVE LabelType'
    BY <2>1, <1>1 DEF Evaluate
  <2>2. ASSUME NEW t \in 1..MaxTemps, Dispose(t) PROVE LabelType'
    BY <2>2, <1>1 DEF Dispose
  <2>3. ASSUME NEW way, BreakOrContinue(way) \/ JumpNowhere(way) \/ FinallyWayEnd(way) PROVE LabelType'
    BY <2>3, <1>1 DEF BreakOrContinue, JumpNowhere, FinallyWayEnd
  <2>4. ASSUME NEW way, NEW T, FinallyWay(way, T) PROVE LabelType'
    BY <2>4, <1>1 DEF FinallyWay
  <2>5. CASE Return \/ Reraise \/ TryHandlers \/ FinallyNormalEnd \/ FunctionEnd
    BY <2>5, <1>1 DEF Return, Reraise, TryHandlers, FinallyNormalEnd, FunctionEnd
  <2>6. QED
    BY <1>2, <1>3, <1>4, <1>5, <1>6, <1>7, <1>8, <1>9, <1>10, <2>1, <2>2, <2>3, <2>4, <2>5, Actions
<1>11. CASE UNCHANGED codeVars
  BY <1>1, <1>11 DEF codeVars
<1>12. QED
  BY <1>10, <1>11

-----------------------------------------------------------------------------
(* Temporaries: what each action does to who owns them.                        *)
LEMMA TempsForBegin ==
    ASSUME TempsInv, LabelType, NEW t, NEW k \in Kind, ForBegin(t, k)
    PROVE  TempsInv'
<1>1. /\ Grows({t}) /\ t \in Nat /\ kind'[t] = k /\ t \notin InUse /\ InUse' = InUse \cup {t}
      /\ k \in Managed /\ scratch = {} /\ scratch' = {}
      /\ frames' = Append(frames, NewFrame("for", {t}))
  BY Allocated DEF ForBegin, Statement, Push, Begun, NewFrame
<1>2. /\ NewFrame("for", {t}) \in Frame /\ NewFrame("for", {t}).temps = {t}
      /\ NewFrame("for", {t}).stage = "body" /\ NewFrame("for", {t}).clean = {}
      /\ NewFrame("for", {t}).node = "for"
  BY <1>1, NewFrameType DEF LabelType
<1>3. frames \in Seq(Frame) /\ Len(frames) = Depth /\ \A i \in 1..Depth : Part(frames[i])
  BY Frames DEF FrameOk, Depth
<1>4. QED
  BY <1>1, <1>2, <1>3, OwnersPush

LEMMA TempsTryBegin ==
    ASSUME TempsInv, LabelType, NEW t, TryBegin(t)
    PROVE  TempsInv'
<1>1. /\ Grows({t}) /\ t \in Nat /\ kind'[t] = Plain /\ t \notin InUse /\ InUse' = InUse \cup {t}
      /\ Plain \notin Managed /\ scratch = {} /\ scratch' = {}
      /\ frames' = Append(frames, NewFrame("except", {t}))
  BY Allocated DEF TryBegin, Statement, Push, Begun, NewFrame
<1>2. /\ NewFrame("except", {t}) \in Frame /\ NewFrame("except", {t}).temps = {t}
      /\ NewFrame("except", {t}).stage = "body" /\ NewFrame("except", {t}).clean = {}
      /\ NewFrame("except", {t}).node = "except"
  BY <1>1, NewFrameType DEF LabelType
<1>3. frames \in Seq(Frame) /\ Len(frames) = Depth /\ \A i \in 1..Depth : Part(frames[i])
  BY Frames DEF FrameOk, Depth
<1>4. QED
  BY <1>1, <1>2, <1>3, OwnersPush

LEMMA TempsFinallyBegin ==
    ASSUME TempsInv, LabelType, FinallyBegin
    PROVE  TempsInv'
<1>1. /\ Grows({}) /\ InUse' = InUse /\ scratch = {} /\ scratch' = {}
      /\ frames' = Append(frames, NewFrame("finally", {}))
  BY Unchanged DEF FinallyBegin, Statement, Push, Begun, NewFrame
<1>2. /\ NewFrame("finally", {}) \in Frame /\ NewFrame("finally", {}).temps = {}
      /\ NewFrame("finally", {}).stage = "body" /\ NewFrame("finally", {}).clean = {}
      /\ NewFrame("finally", {}).node = "finally"
  BY <1>1, NewFrameType DEF LabelType
<1>3. frames \in Seq(Frame) /\ Len(frames) = Depth /\ \A i \in 1..Depth : Part(frames[i])
  BY Frames DEF FrameOk, Depth
<1>4. QED
  BY <1>1, <1>2, <1>3, OwnersPush

(* The frames with the next clause of a try-except.                            *)
Handled == [frames EXCEPT ![Depth].stage = "handled"]

LEMMA HandledFrames ==
    ASSUME TempsInv, In("except", "handlers") \/ In("except", "handled")
    PROVE  /\ Handled \in Seq(Frame) /\ Len(Handled) = Depth /\ Depth > 0
           /\ Handled[Depth] = [Top EXCEPT !.stage = "handled"] /\ Handled[Depth].stage = "handled"
           /\ \A i \in 1..(Depth - 1) : Handled[i] = frames[i]
           /\ \A i \in 1..Depth : /\ Handled[i].temps = frames[i].temps /\ Handled[i].node = frames[i].node
                                  /\ Handled[i].clean = frames[i].clean /\ Handled[i].ways = frames[i].ways
                                  /\ Handled[i].labels = frames[i].labels
                                  /\ Handled[i].excVars = frames[i].excVars
                                  /\ Part(Handled[i]) /\ (Empty(Handled[i]) => Empty(frames[i]))
<1>1. /\ Depth \in Nat /\ Depth > 0 /\ Top \in Frame /\ Top.node = "except" /\ Top = frames[Depth]
      /\ frames \in Seq(Frame)
      /\ \A i \in 1..Depth : frames[i] \in Frame /\ Part(frames[i])
  BY Frames DEF In, FrameOk
<1>2. [Top EXCEPT !.stage = "handled"] \in Frame
  BY <1>1 DEF Frame, Stages
<1>3. /\ Handled \in Seq(Frame) /\ Len(Handled) = Depth
      /\ Handled[Depth] = [Top EXCEPT !.stage = "handled"]
      /\ \A i \in 1..(Depth - 1) : Handled[i] = frames[i]
  BY <1>1, <1>2 DEF Handled, Depth
<1>4. /\ Handled[Depth].temps = Top.temps /\ Handled[Depth].node = Top.node
      /\ Handled[Depth].clean = Top.clean /\ Handled[Depth].ways = Top.ways
      /\ Handled[Depth].labels = Top.labels /\ Handled[Depth].excVars = Top.excVars
      /\ Handled[Depth].stage = "handled" /\ Part(Handled[Depth]) /\ ~Empty(Handled[Depth])
  BY <1>1, <1>3 DEF Frame, Part, Parts, Empty
<1>5. ASSUME NEW i \in 1..Depth
      PROVE  /\ Handled[i].temps = frames[i].temps /\ Handled[i].node = frames[i].node
             /\ Handled[i].clean = frames[i].clean /\ Handled[i].ways = frames[i].ways
             /\ Handled[i].labels = frames[i].labels
             /\ Handled[i].excVars = frames[i].excVars
             /\ Part(Handled[i]) /\ (Empty(Handled[i]) => Empty(frames[i]))
  <2>1. CASE i = Depth
    BY <1>1, <1>4, <2>1
  <2>2. CASE i \in 1..(Depth - 1)
    BY <1>1, <1>3, <2>2
  <2>3. QED
    BY <1>1, <2>1, <2>2
<1>6. QED
  BY <1>1, <1>3, <1>4, <1>5

LEMMA TempsClauseBegin ==
    ASSUME TempsInv, LabelType, NEW t, NEW k \in Kind, ClauseBegin(t, k)
    PROVE  TempsInv'
<1>1. /\ Grows({t}) /\ t \in Nat /\ kind'[t] = k /\ t \notin InUse /\ InUse' = InUse \cup {t}
      /\ k \in Managed /\ scratch = {} /\ scratch' = {}
      /\ frames' = Append(Handled, NewFrame("clause", {t}))
      /\ In("except", "handlers") \/ In("except", "handled")
  BY Allocated DEF ClauseBegin, Begun, NewFrame, Handled
<1>2. /\ NewFrame("clause", {t}) \in Frame /\ NewFrame("clause", {t}).temps = {t}
      /\ NewFrame("clause", {t}).stage = "body" /\ NewFrame("clause", {t}).clean = {}
      /\ NewFrame("clause", {t}).node = "clause"
  BY <1>1, NewFrameType DEF LabelType
<1>3. /\ Handled \in Seq(Frame) /\ Len(Handled) = Depth
      /\ \A i \in 1..Depth : /\ Handled[i].temps = frames[i].temps /\ Handled[i].node = frames[i].node
                             /\ Handled[i].clean = frames[i].clean /\ Part(Handled[i])
                             /\ Empty(Handled[i]) => Empty(frames[i])
  BY <1>1, HandledFrames
<1> DEFINE g == NewFrame("clause", {t})
<1> HIDE DEF g
<1>4. /\ g \in Frame /\ g.temps = {t} /\ g.stage = "body" /\ g.clean = {} /\ g.node = "clause"
      /\ frames' = Append(Handled, g)
  BY <1>1, <1>2 DEF g
<1>5. \A u \in g.temps : kind'[u] \in Managed <=> g.node \in {"for", "clause"}
  BY <1>1, <1>4
<1>6. Grows(g.temps) /\ InUse' = InUse \cup g.temps /\ g.temps \cap InUse = {}
  BY <1>1, <1>4
<1>7. QED
  BY <1>1, <1>3, <1>4, <1>5, <1>6, OwnersPush

(* A statement that goes on.                                                   *)
LEMMA TopFacts ==
    ASSUME TempsInv, Depth > 0
    PROVE  /\ Top \in Frame /\ Part(Top) /\ (Empty(Top) => Top.temps = {})
           /\ Top.temps \subseteq InUse /\ Top.clean \subseteq Temps
           /\ Top.clean \cap Owned(Depth - 1) = {}
           /\ Top.node # "finally" => Top.clean \cap Top.temps = {}
           /\ \A t \in Top.temps : kind[t] \in Managed <=> Top.node \in {"for", "clause"}
           /\ FreeManaged \cap InUse = {} /\ FreeManaged \subseteq Temps
           /\ InUse \subseteq Temps
<1>1. Depth \in Nat /\ Top \in Frame /\ Top = frames[Depth] /\ FrameOk(Depth) /\ free \subseteq Temps
  BY Frames DEF TempsInv
<1>2. /\ Owned(Depth) = Owned(Depth - 1) \cup Top.temps
      /\ Owned(Depth) \subseteq InUse
  BY OwnedTop
<1>3. Top.clean \cap Owned(Depth - 1) = {} /\ (Top.node # "finally" => Top.clean \cap Top.temps = {})
  BY <1>1, <1>2 DEF FrameOk, CleanOk
<1>4. QED
  BY <1>1, <1>2, <1>3 DEF FrameOk, FreeManaged, Counted, InUse

LEMMA TempsSameFrame ==
    ASSUME TempsInv, Depth > 0, scratch = {}, scratch' = {}, UNCHANGED temps,
           NEW f \in Frame, Goes(f), Part(f), f.node = Top.node, f.temps = Top.temps,
           Empty(f) => Empty(Top), f.clean \in {Top.clean, FreeManaged}
    PROVE  TempsInv'
<1>1. Grows({}) /\ InUse' = InUse /\ kind' = kind
  BY Unchanged
<1>2. /\ Empty(f) => f.temps = {}
      /\ f.temps \subseteq InUse /\ InUse \subseteq Temps
      /\ InUse' = (InUse \ Top.temps) \cup f.temps
      /\ f.temps \cap (InUse \ Top.temps) = {}
      /\ \A t \in f.temps : kind'[t] \in Managed <=> f.node \in {"for", "clause"}
  BY <1>1, TopFacts
<1>3. Grows(f.temps)
  BY <1>1, <1>2 DEF Grows
<1>4. Owned(Depth - 1) \subseteq InUse /\ Top.temps \subseteq InUse
  BY OwnedTop
<1>5. /\ f.clean \subseteq Temps /\ f.clean \cap Owned(Depth - 1) = {}
      /\ f.node # "finally" => f.clean \cap f.temps = {}
  BY <1>4, TopFacts
<1>6. QED
  BY <1>2, <1>3, <1>5, OwnersRestage

(* The frames they leave behind.                                              *)
LEMMA SameFrames ==
    ASSUME TempsInv, Depth > 0, NEW s \in Stages, NEW T \in SUBSET Nat, NEW W \in SUBSET Ways
    PROVE  LET f == [Top EXCEPT !.stage = s]
               g == [Top EXCEPT !.stage = s, !.clean = FreeManaged]
               h == [Top EXCEPT !.stage = s, !.clean = FreeManaged, !.ways = W]
               i == [Top EXCEPT !.stage = s, !.temps = T]
               j == [Top EXCEPT !.stage = s, !.temps = T, !.ways = W]
           IN /\ f \in Frame /\ f.node = Top.node /\ f.stage = s /\ f.temps = Top.temps /\ f.clean = Top.clean
              /\ f.ways = Top.ways /\ f.labels = Top.labels /\ f.excVars = Top.excVars
              /\ g \in Frame /\ g.node = Top.node /\ g.stage = s /\ g.temps = Top.temps /\ g.clean = FreeManaged
              /\ g.ways = Top.ways /\ g.labels = Top.labels /\ g.excVars = Top.excVars
              /\ h \in Frame /\ h.node = Top.node /\ h.stage = s /\ h.temps = Top.temps /\ h.clean = FreeManaged
              /\ h.ways = W /\ h.labels = Top.labels /\ h.excVars = Top.excVars
              /\ i \in Frame /\ i.node = Top.node /\ i.stage = s /\ i.temps = T /\ i.clean = Top.clean
              /\ i.ways = Top.ways /\ i.labels = Top.labels /\ i.excVars = Top.excVars
              /\ j \in Frame /\ j.node = Top.node /\ j.stage = s /\ j.temps = T /\ j.clean = Top.clean
              /\ j.ways = W /\ j.labels = Top.labels /\ j.excVars = Top.excVars
<1>1. Top \in Frame /\ FreeManaged \subseteq Nat
  BY TopFacts DEF Temps
<1>2. QED
  BY <1>1 DEF Frame

LEMMA TempsSame ==
    ASSUME TempsInv, TryElse \/ TryHandlers \/ FinallyNormal \/ FinallyNormalEnd
    PROVE  TempsInv'
<1>0. \A n, s : In(n, s) => Depth > 0 /\ Top.node = n /\ Top.stage = s
  BY Frames DEF In
<1>s. {"else", "handlers", "normal", "ways"} \subseteq Stages
  BY DEF Stages
<1>1. CASE TryElse
  <2>1. /\ scratch = {} /\ scratch' = {} /\ UNCHANGED temps /\ Depth > 0 /\ Top.node = "except"
        /\ Goes([Top EXCEPT !.stage = "else", !.clean = FreeManaged])
    BY <1>0, <1>1 DEF TryElse, Statement
  <2> DEFINE f == [Top EXCEPT !.stage = "else", !.clean = FreeManaged]
  <2>2. /\ f \in Frame /\ f.node = "except" /\ f.stage = "else" /\ f.temps = Top.temps
        /\ f.clean = FreeManaged /\ Goes(f)
    BY <1>s, <2>1, SameFrames
  <2> HIDE DEF f
  <2>3. QED
    BY <2>1, <2>2, TempsSameFrame DEF Part, Parts, Empty
<1>2. CASE TryHandlers
  <2>1. /\ scratch = {} /\ scratch' = {} /\ UNCHANGED temps /\ Depth > 0 /\ Top.node = "except"
        /\ Goes([Top EXCEPT !.stage = "handlers"])
    BY <1>0, <1>2 DEF TryHandlers, Statement
  <2> DEFINE f == [Top EXCEPT !.stage = "handlers"]
  <2>2. /\ f \in Frame /\ f.node = "except" /\ f.stage = "handlers" /\ f.temps = Top.temps
        /\ f.clean = Top.clean /\ Goes(f)
    BY <1>s, <2>1, SameFrames
  <2> HIDE DEF f
  <2>3. QED
    BY <2>1, <2>2, TempsSameFrame DEF Part, Parts, Empty
<1>3. CASE FinallyNormal
  <2> DEFINE W == {w \in Ways : labels[w] \in used}
  <2>1. /\ scratch = {} /\ scratch' = {} /\ UNCHANGED temps /\ Depth > 0 /\ Top.node = "finally"
        /\ Top.stage = "body"
        /\ Goes([Top EXCEPT !.stage = "normal", !.clean = FreeManaged, !.ways = W])
    BY <1>0, <1>3 DEF FinallyNormal, Statement
  <2>w. W \in SUBSET Ways
    OBVIOUS
  <2> HIDE DEF W
  <2> DEFINE f == [Top EXCEPT !.stage = "normal", !.clean = FreeManaged, !.ways = W]
  <2>2. /\ f \in Frame /\ f.node = "finally" /\ f.stage = "normal" /\ f.temps = Top.temps
        /\ f.clean = FreeManaged /\ Goes(f)
    <3>1. Top \in Frame /\ FreeManaged \subseteq Nat /\ "normal" \in Stages
      BY <1>s, <2>1, TopFacts DEF Temps
    <3>2. QED
      BY <2>1, <2>w, <3>1 DEF Frame
  <2> HIDE DEF f
  <2>3. QED
    BY <2>1, <2>2, TempsSameFrame DEF Part, Parts, Empty
<1>4. CASE FinallyNormalEnd
  <2>1. /\ scratch = {} /\ scratch' = {} /\ UNCHANGED temps /\ Depth > 0 /\ Top.node = "finally"
        /\ Top.stage = "normal"
        /\ Goes([Top EXCEPT !.stage = "ways"])
    BY <1>0, <1>4 DEF FinallyNormalEnd, Statement
  <2> DEFINE f == [Top EXCEPT !.stage = "ways"]
  <2>2. /\ f \in Frame /\ f.node = "finally" /\ f.stage = "ways" /\ f.temps = Top.temps
        /\ f.clean = Top.clean /\ Goes(f)
    BY <1>s, <2>1, SameFrames
  <2> HIDE DEF f
  <2>3. QED
    BY <2>1, <2>2, TempsSameFrame DEF Part, Parts, Empty
<1>5. QED
  BY <1>1, <1>2, <1>3, <1>4

(* Temporaries that a statement allocates or releases as it goes on.             *)
LEMMA TempsOtherFrame ==
    ASSUME TempsInv, Depth > 0, scratch = {}, scratch' = {},
           NEW f \in Frame, Goes(f), Part(f), f.node = Top.node, f.clean = Top.clean,
           \/ ReleaseTemps(Top.temps) /\ f.temps = {}
           \/ \E t : /\ AllocateTemp(t, Plain) /\ f.temps = {t} /\ Empty(Top) /\ ~Empty(f)
                     /\ f.node = "finally"
    PROVE  TempsInv'
<1>c. /\ Top.clean \subseteq Temps /\ Top.clean \cap Owned(Depth - 1) = {}
      /\ Top.node # "finally" => Top.clean \cap Top.temps = {}
      /\ Empty(Top) => Top.temps = {}
      /\ Top.temps \subseteq InUse
  BY TopFacts
<1>1. CASE ReleaseTemps(Top.temps) /\ f.temps = {}
  <2>1. Grows({}) /\ InUse' = InUse \ Top.temps
    BY <1>c, <1>1, Released
  <2>2. Grows(f.temps) /\ InUse' = (InUse \ Top.temps) \cup f.temps
    BY <1>1, <2>1
  <2>3. QED
    BY <1>c, <1>1, <2>2, OwnersRestage
<1>2. ASSUME NEW t, AllocateTemp(t, Plain), f.temps = {t}, Empty(Top), ~Empty(f), f.node = "finally"
      PROVE  TempsInv'
  <2>1. /\ Grows({t}) /\ kind'[t] = Plain /\ t \notin InUse /\ InUse' = InUse \cup {t}
        /\ Top.temps = {} /\ Plain \notin Managed
    BY <1>c, <1>2, Allocated
  <2>2. /\ Grows(f.temps) /\ InUse' = (InUse \ Top.temps) \cup f.temps
        /\ f.temps \cap (InUse \ Top.temps) = {}
        /\ \A u \in f.temps : kind'[u] \in Managed <=> f.node \in {"for", "clause"}
    BY <1>2, <2>1
  <2>3. QED
    BY <1>c, <1>2, <2>2, OwnersRestage
<1>3. QED
  BY <1>1, <1>2

LEMMA TempsOther ==
    ASSUME TempsInv,
           \/ ForElse \/ FinallyExceptEnd \/ \E t \in 1..MaxTemps : FinallyExcept(t)
           \/ \E way \in {"return", "break", "continue"} :
                 FinallyWayEnd(way) \/ \E T : FinallyWay(way, T)
    PROVE  TempsInv'
<1>0. /\ \A n, s : In(n, s) => Depth > 0 /\ Top.node = n /\ Top.stage = s
      /\ Depth > 0 => Top \in Frame /\ Top.ways \subseteq Ways
  BY Frames DEF In, Frame
<1>s. {"else", "except", "ways", "return", "break", "continue"} \subseteq Stages
  BY DEF Stages
<1>1. CASE ForElse
  <2> DEFINE f == [Top EXCEPT !.stage = "else", !.temps = {}]
  <2>1. /\ scratch = {} /\ scratch' = {} /\ Depth > 0 /\ Top.node = "for" /\ Goes(f)
        /\ ReleaseTemps(Top.temps)
    BY <1>0, <1>1 DEF ForElse, Statement
  <2>2. /\ f \in Frame /\ f.node = "for" /\ f.stage = "else" /\ f.temps = {}
        /\ f.clean = Top.clean /\ Goes(f)
    BY <1>0, <1>s, <2>1 DEF Frame
  <2> HIDE DEF f
  <2>3. QED
    BY <2>1, <2>2, TempsOtherFrame DEF Part, Parts
<1>2. CASE FinallyExceptEnd
  <2> DEFINE f == [Top EXCEPT !.stage = "ways", !.temps = {}]
  <2>1. /\ scratch = {} /\ scratch' = {} /\ Depth > 0 /\ Top.node = "finally" /\ Goes(f)
        /\ ReleaseTemps(Top.temps)
    BY <1>0, <1>2 DEF FinallyExceptEnd, Statement
  <2>2. /\ f \in Frame /\ f.node = "finally" /\ f.stage = "ways" /\ f.temps = {}
        /\ f.clean = Top.clean /\ Goes(f)
    BY <1>0, <1>s, <2>1 DEF Frame
  <2> HIDE DEF f
  <2>3. QED
    BY <2>1, <2>2, TempsOtherFrame DEF Part, Parts
<1>3. ASSUME NEW t \in 1..MaxTemps, FinallyExcept(t) PROVE TempsInv'
  <2> DEFINE f == [Top EXCEPT !.stage = "except", !.temps = {t}, !.ways = Top.ways \ {"error"}]
  <2>1. /\ scratch = {} /\ scratch' = {} /\ Depth > 0 /\ Top.node = "finally" /\ Top.stage = "ways"
        /\ Goes(f) /\ AllocateTemp(t, Plain)
    BY <1>0, <1>3 DEF FinallyExcept
  <2>2. t \in Nat
    BY <2>1, Allocated
  <2>3. /\ f \in Frame /\ f.node = "finally" /\ f.stage = "except" /\ f.temps = {t}
        /\ f.clean = Top.clean /\ Goes(f)
    BY <1>0, <1>s, <2>1, <2>2 DEF Frame
  <2> HIDE DEF f
  <2>4. QED
    BY <2>1, <2>3, TempsOtherFrame DEF Part, Parts, Empty
<1>4. ASSUME NEW way \in {"return", "break", "continue"}, FinallyWayEnd(way) PROVE TempsInv'
  <2> DEFINE f == [Top EXCEPT !.stage = "ways", !.temps = {}]
  <2>1. /\ scratch = {} /\ scratch' = {} /\ Depth > 0 /\ Top.node = "finally" /\ Goes(f)
        /\ ReleaseTemps(Top.temps)
    BY <1>0, <1>4 DEF FinallyWayEnd, Statement
  <2>2. /\ f \in Frame /\ f.node = "finally" /\ f.stage = "ways" /\ f.temps = {}
        /\ f.clean = Top.clean /\ Goes(f)
    BY <1>0, <1>s, <2>1 DEF Frame
  <2> HIDE DEF f
  <2>3. QED
    BY <2>1, <2>2, TempsOtherFrame DEF Part, Parts
<1>5. ASSUME NEW way \in {"return", "break", "continue"}, NEW T, FinallyWay(way, T) PROVE TempsInv'
  <2> DEFINE f == [Top EXCEPT !.stage = way, !.temps = T, !.ways = Top.ways \ {way}]
  <2>1. /\ scratch = {} /\ scratch' = {} /\ Depth > 0 /\ Top.node = "finally" /\ Top.stage = "ways"
        /\ Goes(f)
        /\ \/ way = "return" /\ \E t : AllocateTemp(t, Plain) /\ T = {t}
           \/ way # "return" /\ T = {} /\ UNCHANGED temps
    BY <1>0, <1>5 DEF FinallyWay
  <2>2. T \subseteq Nat
    <3>1. ASSUME NEW t, AllocateTemp(t, Plain), T = {t} PROVE T \subseteq Nat
      BY <3>1, Allocated
    <3>2. QED
      BY <2>1, <3>1
  <2>3. /\ f \in Frame /\ f.node = "finally" /\ f.stage = way /\ f.temps = T
        /\ f.clean = Top.clean /\ Goes(f)
    BY <1>0, <1>s, <2>1, <2>2 DEF Frame
  <2> HIDE DEF f
  <2>4. Part(f) /\ Empty(Top) /\ (way # "return" => Empty(f)) /\ (way = "return" => ~Empty(f))
    BY <2>1, <2>3 DEF Part, Parts, Empty
  <2>5. CASE way = "return"
    BY <2>1, <2>3, <2>4, <2>5, TempsOtherFrame
  <2>6. CASE way # "return"
    <3>1. Top.temps = {}
      BY <2>1, <2>4, TopFacts
    <3>2. QED
      BY <2>1, <2>3, <2>4, <2>6, <3>1, TempsSameFrame
  <2>7. QED
    BY <2>5, <2>6
<1>6. QED
  BY <1>1, <1>2, <1>3, <1>4, <1>5

(* A statement that ends.                                                     *)
LEMMA TempsEnd ==
    ASSUME TempsInv, ForEnd \/ ClauseEnd \/ TryEnd \/ FinallyEnd
    PROVE  TempsInv'
<1>0. \A n, s : In(n, s) => Depth > 0 /\ Top.node = n /\ Top.stage = s
  BY Frames DEF In
<1>1. CASE ForEnd \/ FinallyEnd
  <2>1. /\ scratch = {} /\ scratch' = {} /\ Depth > 0 /\ Pop /\ UNCHANGED temps
        /\ (Top.node = "for" /\ Top.stage = "else") \/ (Top.node = "finally" /\ Top.stage = "ways")
    <3>1. CASE ForEnd
      BY <1>0, <3>1 DEF ForEnd, Statement
    <3>2. CASE FinallyEnd
      BY <1>0, <3>2 DEF FinallyEnd
    <3>3. QED
      BY <1>1, <3>1, <3>2
  <2>2. Top.temps = {}
    BY <2>1, TopFacts DEF Empty
  <2>3. Grows({}) /\ InUse' = InUse \ Top.temps
    BY <2>1, <2>2, Unchanged
  <2>4. QED
    BY <2>1, <2>3, OwnersPop
<1>2. CASE ClauseEnd \/ TryEnd
  <2>1. scratch = {} /\ scratch' = {} /\ Depth > 0 /\ Pop /\ ReleaseTemps(Top.temps)
    BY <1>0, <1>2 DEF ClauseEnd, TryEnd, Statement
  <2>2. Grows({}) /\ InUse' = InUse \ Top.temps
    BY <2>1, TopFacts, Released
  <2>3. QED
    BY <2>1, <2>2, OwnersPop
<1>3. QED
  BY <1>1, <1>2

(* Expressions.                                                               *)
LEMMA OwnersScratch ==
    ASSUME TempsInv, UNCHANGED frames, Grows({}), scratch' \cap Owned(Depth) = {},
           InUse' = scratch' \cup Owned(Depth)
    PROVE  TempsInv'
<1>1. /\ Depth \in Nat /\ Depth' = Depth /\ \A i \in 1..Depth : frames'[i] = frames[i]
      /\ \A i \in 1..Depth : FrameOk(i) /\ frames[i] \in Frame
  BY Frames DEF Depth
<1>2. \A d \in 0..Depth : Owned(d)' = Owned(d)
  BY <1>1 DEF Grows, Owned, FrameOk
<1>3. \A i \in 1..Depth : FrameOk(i)'
  BY <1>1, <1>2 DEF FrameOk, CleanOk, Grows
<1>4. \A i \in 1..Depth : frames[i].temps \cap scratch' = {}
  BY <1>1 DEF Owned, FrameOk
<1>5. QED
  BY <1>1, <1>2, <1>3, <1>4 DEF TempsInv, TempsHaveOneOwner, Grows

LEMMA TempsExpression ==
    ASSUME TempsInv, (\E t : \E k \in Kind : Evaluate(t, k)) \/ \E t : Dispose(t)
    PROVE  TempsInv'
<1>0. InUse = scratch \cup Owned(Depth) /\ scratch \cap Owned(Depth) = {} /\ Owned(Depth) \subseteq InUse
  <2>1. CASE Depth > 0
    BY <2>1, OwnedTop
  <2>2. CASE Depth = 0
    BY <2>2 DEF TempsInv, TempsHaveOneOwner, Owned
  <2>3. QED
    BY <2>1, <2>2, Frames
<1>1. ASSUME NEW t, NEW k \in Kind, Evaluate(t, k) PROVE TempsInv'
  <2>1. /\ Grows({t}) /\ t \notin InUse /\ InUse' = InUse \cup {t}
        /\ scratch' = scratch \cup {t} /\ UNCHANGED frames
    BY <1>1, Allocated DEF Evaluate
  <2>2. Grows({})
    BY <2>1 DEF Grows
  <2>3. QED
    BY <1>0, <2>1, <2>2, OwnersScratch
<1>2. ASSUME NEW t, Dispose(t) PROVE TempsInv'
  <2>1. t \in scratch /\ ReleaseTemps({t}) /\ scratch' = scratch \ {t} /\ UNCHANGED frames
    BY <1>2 DEF Dispose
  <2>2. Grows({}) /\ InUse' = InUse \ {t}
    BY <1>0, <2>1, Released
  <2>3. QED
    BY <1>0, <2>1, <2>2, OwnersScratch
<1>3. QED
  BY <1>1, <1>2

LEMMA TempsUnchanged ==
    ASSUME TempsInv, UNCHANGED <<kind, free, scratch, frames>>
    PROVE  TempsInv'
BY DEF TempsInv, TempsHaveOneOwner, FrameOk, CleanOk, InUse, Temps, Owned, Depth

LEMMA TempsStep ==
    ASSUME TempsInv, LabelType, [CodeNext]_codeVars
    PROVE  TempsInv'
<1>1. CASE UNCHANGED codeVars
  BY <1>1, TempsUnchanged DEF codeVars
<1>2. ASSUME \/ BreakOrContinue("break") \/ BreakOrContinue("continue") \/ JumpNowhere("break") \/ JumpNowhere("continue")
             \/ Return \/ Reraise \/ FunctionEnd
      PROVE  TempsInv'
  BY <1>2, TempsUnchanged DEF BreakOrContinue, JumpNowhere, Return, Reraise, FunctionEnd, temps
<1>3. CASE CodeNext
  <2>1. ASSUME NEW t \in 1..MaxTemps, NEW k \in Kind,
               Evaluate(t, k) \/ Dispose(t) \/ ForBegin(t, k) \/ TryBegin(t) \/ ClauseBegin(t, k)
        PROVE  TempsInv'
    <3>1. CASE Evaluate(t, k)
      BY <3>1, TempsExpression
    <3>2. CASE Dispose(t)
      BY <3>2, TempsExpression
    <3>3. CASE ForBegin(t, k)
      BY <3>3, TempsForBegin
    <3>4. CASE TryBegin(t)
      BY <3>4, TempsTryBegin
    <3>5. CASE ClauseBegin(t, k)
      BY <3>5, TempsClauseBegin
    <3>6. QED
      BY <2>1, <3>1, <3>2, <3>3, <3>4, <3>5
  <2>2. ASSUME NEW t \in 1..MaxTemps, Dispose(t) \/ TryBegin(t) \/ FinallyExcept(t) PROVE TempsInv'
    BY <2>2, TempsExpression, TempsTryBegin, TempsOther
  <2>3. ASSUME NEW way \in {"return", "break", "continue"}, NEW T, FinallyWay(way, T) \/ FinallyWayEnd(way)
        PROVE  TempsInv'
    BY <2>3, TempsOther
  <2>4. CASE ForElse \/ FinallyExceptEnd
    BY <2>4, TempsOther
  <2>5. CASE TryElse \/ TryHandlers \/ FinallyNormal \/ FinallyNormalEnd
    BY <2>5, TempsSame
  <2>6. CASE ForEnd \/ ClauseEnd \/ TryEnd \/ FinallyEnd
    BY <2>6, TempsEnd
  <2>7. QED
    BY <1>2, <1>3, <2>1, <2>2, <2>3, <2>4, <2>5, <2>6, Actions, TempsFinallyBegin
<1>4. QED
  BY <1>1, <1>3

LEMMA TempsFirst == CodeInit => TempsInv /\ LabelType
<1>1. ASSUME CodeInit PROVE labels \in Labelling
  <2>1. labels = [w \in Ways |-> IF w \in {"error", "return"} THEN FunctionLabel(w) ELSE NoLabel]
    BY <1>1 DEF CodeInit
  <2>2. QED
    BY <2>1, LabelTypes DEF Labelling
<1>2. ASSUME CodeInit PROVE Depth = 0 /\ Temps = {} /\ kind \in Seq(Kind) /\ frames \in Seq(Frame)
  BY <1>2 DEF CodeInit, Depth, Temps
<1>3. ASSUME CodeInit PROVE TempsInv
  <2>1. Depth = 0 /\ InUse = {} /\ scratch = {} /\ free = {} /\ Owned(Depth) = {}
    BY <1>2, <1>3 DEF CodeInit, InUse, Owned
  <2>2. 1..Depth = {}
    BY <2>1
  <2>3. InUse = scratch \cup Owned(Depth) /\ free \subseteq Temps
    BY <2>1
  <2>4. QED
    BY <1>2, <1>3, <2>2, <2>3 DEF TempsInv, TempsHaveOneOwner
<1>4. QED
  BY <1>1, <1>3 DEF CodeInit, LabelType

(* The types, and whose the temporaries are: those that statements hold are of the   *)
(* kind they ask for, and what an exception clears is nothing that statements hold. *)
THEOREM TempsInvariant == CodeSpec => [](TempsInv /\ LabelType)
<1>1. CodeInit => TempsInv /\ LabelType
  BY TempsFirst
<1>2. TempsInv /\ LabelType /\ [CodeNext]_codeVars => (TempsInv /\ LabelType)'
  BY TempsStep, LabelTypeStep
<1>3. QED
  BY <1>1, <1>2, PTL DEF CodeSpec

(* For any program and any number of temporaries: every temporary in use belongs to   *)
(* one statement or to the expression, so none is handed out twice or left over      *)
(* (Code.py FunctionState.allocate_temp, release_temp, validate_exit).          *)
THEOREM TempsAreOwnedOnce == CodeSpec => []TempsHaveOneOwner
<1>1. TempsInv => TempsHaveOneOwner
  BY DEF TempsInv
<1>2. QED
  BY <1>1, TempsInvariant, PTL

-----------------------------------------------------------------------------
(* Labels.  Frames that differ at most in the stage of a try-except whose body is   *)
(* behind are alike for labels.                                               *)
Alike(f, g) ==
    /\ f.node = g.node /\ f.temps = g.temps /\ f.labels = g.labels /\ f.excVars = g.excVars
    /\ f.stage = g.stage \/ (f.node = "except" /\ f.stage # "body" /\ g.stage # "body")
AllAlike(fs, gs, n) == \A i \in 1..n : Alike(fs[i], gs[i])

LEMMA AlikeLabel ==
    ASSUME NEW fs, NEW gs, NEW n \in Nat, AllAlike(fs, gs, n), NEW l, NEW w, LabelOk(fs, l, w, n)
    PROVE  LabelOk(gs, l, w, n)
<1>1. ASSUME NEW i \in 1..n, NEW g, NEW v, JumpOf(fs[i], g, v) PROVE JumpOf(gs[i], g, v)
  <2>1. Alike(fs[i], gs[i])
    BY DEF AllAlike
  <2>2. CASE fs[i].stage = gs[i].stage
    BY <1>1, <2>1, <2>2 DEF Alike, JumpOf
  <2>3. CASE fs[i].node = "except" /\ fs[i].stage # "body" /\ gs[i].stage # "body"
    BY <1>1, <2>1, <2>3 DEF Alike, JumpOf
  <2>4. QED
    BY <2>1, <2>2, <2>3 DEF Alike
<1>2. \A i \in 1..n : \A v : Crossed(fs[i], v) => Crossed(gs[i], v)
  BY DEF AllAlike, Alike, Crossed, IsCopy, LoopBody
<1>3. QED
  BY <1>1, <1>2 DEF LabelOk

LEMMA AlikeLooped ==
    ASSUME NEW fs, NEW gs, NEW n \in Nat, AllAlike(fs, gs, n), NEW d \in 0..n
    PROVE  Looped(gs, d) <=> Looped(fs, d)
BY DEF AllAlike, Alike, Looped, LoopBody

LEMMA AlikeLabels ==
    ASSUME NEW fs, NEW gs, NEW n \in Nat, AllAlike(fs, gs, n), NEW L, NEW d \in 0..n, LabelsOk(fs, L, d)
    PROVE  LabelsOk(gs, L, d)
<1>1. AllAlike(fs, gs, d)
  BY DEF AllAlike
<1>2. QED
  BY <1>1, AlikeLabel, AlikeLooped DEF LabelsOk

LEMMA AlikeExc ==
    ASSUME NEW fs, NEW gs, NEW n \in Nat, AllAlike(fs, gs, n), NEW E, NEW d \in 0..n, ExcOk(fs, E, d)
    PROVE  ExcOk(gs, E, d)
BY DEF AllAlike, Alike, ExcOk, IsCopy

LEMMA SameAlike ==
    ASSUME NEW fs, NEW gs, NEW n \in Nat, \A i \in 1..n : gs[i] = fs[i]
    PROVE  AllAlike(fs, gs, n) /\ \A d \in 0..n : AllAlike(fs, gs, d)
BY DEF AllAlike, Alike

(* A statement begins within the first n ones ...                                *)
LEMMA LabelsPush ==
    ASSUME NEW fs, NEW gs, NEW n \in Nat, NEW L, NEW E, LabelsHold(fs, L, E, n), AllAlike(fs, gs, n),
           gs[n + 1].labels = L, gs[n + 1].excVars = E,
           \A i \in 1..n : ClauseOk(gs, i),
           \A i \in 1..n : \A K : Within(fs[i], i, K) => Within(gs[i], i, K),
           NEW M, NEW F, LabelsOk(gs, M, n + 1), ExcOk(gs, F, n + 1),
           Within(gs[n + 1], n + 1, M), ClauseOk(gs, n + 1)
    PROVE  LabelsHold(gs, M, F, n + 1)
<1>1. ASSUME NEW i \in 1..n
      PROVE  /\ LabelsOk(gs, gs[i].labels, i - 1) /\ ExcOk(gs, gs[i].excVars, i - 1)
             /\ Within(gs[i], i, gs[i + 1].labels)
  <2>1. /\ LabelsOk(fs, fs[i].labels, i - 1) /\ ExcOk(fs, fs[i].excVars, i - 1)
        /\ Within(fs[i], i, IF i = n THEN L ELSE fs[i + 1].labels)
    BY DEF LabelsHold
  <2>2. gs[i].labels = fs[i].labels /\ gs[i].excVars = fs[i].excVars
    BY DEF AllAlike, Alike
  <2>3. (IF i = n THEN L ELSE fs[i + 1].labels) = gs[i + 1].labels
    BY DEF AllAlike, Alike
  <2>4. QED
    BY <2>1, <2>2, <2>3, AlikeLabels, AlikeExc
<1>2. /\ LabelsOk(gs, gs[n + 1].labels, n) /\ ExcOk(gs, gs[n + 1].excVars, n)
  BY AlikeLabels, AlikeExc DEF LabelsHold
<1>3. ASSUME NEW i \in 1..(n + 1)
      PROVE  /\ LabelsOk(gs, gs[i].labels, i - 1) /\ ExcOk(gs, gs[i].excVars, i - 1)
             /\ Within(gs[i], i, IF i = n + 1 THEN M ELSE gs[i + 1].labels)
             /\ ClauseOk(gs, i)
  <2>1. CASE i = n + 1
    BY <1>2, <2>1
  <2>2. CASE i \in 1..n
    <3>1. i # n + 1
      BY <2>2
    <3>2. QED
      BY <1>1, <2>2, <3>1
  <2>3. QED
    BY <2>1, <2>2
<1>4. QED
  BY <1>3 DEF LabelsHold

(* ... the innermost one goes on ...                                            *)
LEMMA LabelsRestage ==
    ASSUME NEW fs, NEW gs, NEW n \in Nat \ {0}, NEW L, NEW E, LabelsHold(fs, L, E, n),
           \A i \in 1..(n - 1) : gs[i] = fs[i],
           gs[n].labels = fs[n].labels, gs[n].excVars = fs[n].excVars,
           NEW M, NEW F, LabelsOk(gs, M, n), ExcOk(gs, F, n),
           Within(gs[n], n, M), ClauseOk(gs, n)
    PROVE  LabelsHold(gs, M, F, n)
<1>1. \A d \in 0..(n - 1) : AllAlike(fs, gs, d)
  BY SameAlike
<1>2. ASSUME NEW i \in 1..n
      PROVE  /\ LabelsOk(gs, gs[i].labels, i - 1) /\ ExcOk(gs, gs[i].excVars, i - 1)
             /\ Within(gs[i], i, IF i = n THEN M ELSE gs[i + 1].labels)
             /\ ClauseOk(gs, i)
  <2>1. LabelsOk(fs, fs[i].labels, i - 1) /\ ExcOk(fs, fs[i].excVars, i - 1) /\ ClauseOk(fs, i)
    BY DEF LabelsHold
  <2>2. gs[i].labels = fs[i].labels /\ gs[i].excVars = fs[i].excVars
    BY DEF AllAlike, Alike
  <2>3. LabelsOk(gs, gs[i].labels, i - 1) /\ ExcOk(gs, gs[i].excVars, i - 1)
    BY <1>1, <2>1, <2>2, AlikeLabels, AlikeExc
  <2>4. CASE i = n
    BY <2>3, <2>4
  <2>5. CASE i < n
    <3>1. /\ Within(fs[i], i, fs[i + 1].labels) /\ gs[i] = fs[i] /\ gs[i + 1].labels = fs[i + 1].labels
      BY <2>5 DEF LabelsHold
    <3>2. ClauseOk(gs, i)
      BY <2>1, <2>5 DEF ClauseOk
    <3>3. QED
      BY <2>3, <2>5, <3>1, <3>2
  <2>6. QED
    BY <2>4, <2>5
<1>3. QED
  BY <1>2 DEF LabelsHold

(* ... or ends.                                                               *)
LEMMA LabelsPop ==
    ASSUME NEW fs, NEW gs, NEW n \in Nat \ {0}, NEW L, NEW E, LabelsHold(fs, L, E, n),
           \A i \in 1..(n - 1) : gs[i] = fs[i]
    PROVE  LabelsHold(gs, fs[n].labels, fs[n].excVars, n - 1)
<1>1. \A d \in 0..(n - 1) : AllAlike(fs, gs, d)
  BY SameAlike
<1>2. ASSUME NEW i \in 1..n
      PROVE  LabelsOk(gs, fs[i].labels, i - 1) /\ ExcOk(gs, fs[i].excVars, i - 1)
  BY <1>1, AlikeLabels, AlikeExc DEF LabelsHold
<1>3. ASSUME NEW i \in 1..(n - 1)
      PROVE  /\ Within(gs[i], i, IF i = n - 1 THEN fs[n].labels ELSE gs[i + 1].labels)
             /\ ClauseOk(gs, i)
  <2>1. Within(fs[i], i, fs[i + 1].labels) /\ ClauseOk(fs, i)
    BY DEF LabelsHold
  <2>2. (IF i = n - 1 THEN fs[n].labels ELSE gs[i + 1].labels) = fs[i + 1].labels
    OBVIOUS
  <2>3. ClauseOk(gs, i)
    BY <2>1 DEF ClauseOk
  <2>4. QED
    BY <2>1, <2>2, <2>3
<1>4. QED
  BY <1>2, <1>3 DEF LabelsHold

-----------------------------------------------------------------------------
(* The frames after each action.                                              *)
TopGoes(s, T, C, W) ==
    /\ Depth > 0 /\ Depth' = Depth /\ frames' \in Seq(Frame)
    /\ \A i \in 1..(Depth - 1) : frames'[i] = frames[i]
    /\ frames'[Depth] \in Frame
    /\ frames'[Depth].node = Top.node /\ frames'[Depth].stage = s /\ frames'[Depth].temps = T
    /\ frames'[Depth].clean = C /\ frames'[Depth].ways = W
    /\ frames'[Depth].labels = Top.labels /\ frames'[Depth].excVars = Top.excVars

LEMMA MovesOn ==
    ASSUME TempsInv
    PROVE  /\ ForElse => TopGoes("else", {}, Top.clean, Top.ways)
           /\ TryElse => TopGoes("else", Top.temps, FreeManaged, Top.ways)
           /\ TryHandlers => TopGoes("handlers", Top.temps, Top.clean, Top.ways)
           /\ FinallyNormal => TopGoes("normal", Top.temps, FreeManaged, {w \in Ways : labels[w] \in used})
           /\ FinallyNormalEnd => TopGoes("ways", Top.temps, Top.clean, Top.ways)
           /\ \A t : FinallyExcept(t) => TopGoes("except", {t}, Top.clean, Top.ways \ {"error"})
           /\ FinallyExceptEnd => TopGoes("ways", {}, Top.clean, Top.ways)
           /\ \A way \in {"return", "break", "continue"} :
                 /\ FinallyWayEnd(way) => TopGoes("ways", {}, Top.clean, Top.ways)
                 /\ \A T : FinallyWay(way, T) => TopGoes(way, T, Top.clean, Top.ways \ {way})
<1>0. \A n, s : In(n, s) => Depth > 0
  BY Frames DEF In
<1>s. {"else", "handlers", "normal", "ways", "except", "return", "break", "continue"} \subseteq Stages
  BY DEF Stages
<1>t. Depth > 0 => Top \in Frame
  BY Frames
<1>f. ASSUME NEW f \in Frame, NEW s, NEW T, NEW C, NEW W, Depth > 0, Goes(f),
             f.node = Top.node, f.stage = s, f.temps = T, f.clean = C, f.ways = W,
             f.labels = Top.labels, f.excVars = Top.excVars
      PROVE  TopGoes(s, T, C, W)
  BY <1>f, Restaged DEF TopGoes
<1>1. ASSUME ForElse PROVE TopGoes("else", {}, Top.clean, Top.ways)
  <2> DEFINE f == [Top EXCEPT !.stage = "else", !.temps = {}]
  <2>1. Depth > 0 /\ Goes(f)
    BY <1>0, <1>1 DEF ForElse
  <2>2. /\ f \in Frame /\ f.node = Top.node /\ f.stage = "else" /\ f.temps = {} /\ f.clean = Top.clean
        /\ f.ways = Top.ways /\ f.labels = Top.labels /\ f.excVars = Top.excVars
    BY <1>s, <1>t, <2>1 DEF Frame
  <2> HIDE DEF f
  <2>3. QED
    BY <1>f, <2>1, <2>2
<1>2. ASSUME TryElse PROVE TopGoes("else", Top.temps, FreeManaged, Top.ways)
  <2> DEFINE f == [Top EXCEPT !.stage = "else", !.clean = FreeManaged]
  <2>1. Depth > 0 /\ Goes(f)
    BY <1>0, <1>2 DEF TryElse
  <2>2. /\ f \in Frame /\ f.node = Top.node /\ f.stage = "else" /\ f.temps = Top.temps /\ f.clean = FreeManaged
        /\ f.ways = Top.ways /\ f.labels = Top.labels /\ f.excVars = Top.excVars
    BY <1>s, <2>1, SameFrames
  <2> HIDE DEF f
  <2>3. QED
    BY <1>f, <2>1, <2>2
<1>3. ASSUME TryHandlers PROVE TopGoes("handlers", Top.temps, Top.clean, Top.ways)
  <2> DEFINE f == [Top EXCEPT !.stage = "handlers"]
  <2>1. Depth > 0 /\ Goes(f)
    BY <1>0, <1>3 DEF TryHandlers
  <2>2. /\ f \in Frame /\ f.node = Top.node /\ f.stage = "handlers" /\ f.temps = Top.temps /\ f.clean = Top.clean
        /\ f.ways = Top.ways /\ f.labels = Top.labels /\ f.excVars = Top.excVars
    BY <1>s, <2>1, SameFrames
  <2> HIDE DEF f
  <2>3. QED
    BY <1>f, <2>1, <2>2
<1>4. ASSUME FinallyNormal PROVE TopGoes("normal", Top.temps, FreeManaged, {w \in Ways : labels[w] \in used})
  <2> DEFINE W == {w \in Ways : labels[w] \in used}
             f == [Top EXCEPT !.stage = "normal", !.clean = FreeManaged, !.ways = W]
  <2>1. Depth > 0 /\ Goes(f) /\ W \in SUBSET Ways
    BY <1>0, <1>4 DEF FinallyNormal
  <2> HIDE DEF W
  <2>2. /\ f \in Frame /\ f.node = Top.node /\ f.stage = "normal" /\ f.temps = Top.temps /\ f.clean = FreeManaged
        /\ f.ways = W /\ f.labels = Top.labels /\ f.excVars = Top.excVars
    <3>1. Top \in Frame /\ FreeManaged \subseteq Nat /\ "normal" \in Stages
      BY <1>s, <2>1, TopFacts DEF Temps
    <3>2. QED
      BY <2>1, <3>1 DEF Frame
  <2> HIDE DEF f
  <2>3. TopGoes("normal", Top.temps, FreeManaged, W)
    BY <1>f, <2>1, <2>2
  <2>4. QED
    BY <2>3 DEF W
<1>5. ASSUME FinallyNormalEnd PROVE TopGoes("ways", Top.temps, Top.clean, Top.ways)
  <2> DEFINE f == [Top EXCEPT !.stage = "ways"]
  <2>1. Depth > 0 /\ Goes(f)
    BY <1>0, <1>5 DEF FinallyNormalEnd
  <2>2. /\ f \in Frame /\ f.node = Top.node /\ f.stage = "ways" /\ f.temps = Top.temps /\ f.clean = Top.clean
        /\ f.ways = Top.ways /\ f.labels = Top.labels /\ f.excVars = Top.excVars
    BY <1>s, <2>1, SameFrames
  <2> HIDE DEF f
  <2>3. QED
    BY <1>f, <2>1, <2>2
<1>6. ASSUME NEW t, FinallyExcept(t) PROVE TopGoes("except", {t}, Top.clean, Top.ways \ {"error"})
  <2> DEFINE f == [Top EXCEPT !.stage = "except", !.temps = {t}, !.ways = Top.ways \ {"error"}]
  <2>1. Depth > 0 /\ Goes(f) /\ AllocateTemp(t, Plain)
    BY <1>0, <1>6 DEF FinallyExcept
  <2>2. t \in Nat /\ Top \in Frame /\ Top.ways \subseteq Ways
    BY <2>1, Allocated, Frames DEF Frame
  <2>3. /\ f \in Frame /\ f.node = Top.node /\ f.stage = "except" /\ f.temps = {t} /\ f.clean = Top.clean
        /\ f.ways = Top.ways \ {"error"} /\ f.labels = Top.labels /\ f.excVars = Top.excVars
    BY <1>s, <2>1, <2>2 DEF Frame
  <2> HIDE DEF f
  <2>4. QED
    BY <1>f, <2>1, <2>3
<1>7. ASSUME FinallyExceptEnd PROVE TopGoes("ways", {}, Top.clean, Top.ways)
  <2> DEFINE f == [Top EXCEPT !.stage = "ways", !.temps = {}]
  <2>1. Depth > 0 /\ Goes(f)
    BY <1>0, <1>7 DEF FinallyExceptEnd
  <2>2. /\ f \in Frame /\ f.node = Top.node /\ f.stage = "ways" /\ f.temps = {} /\ f.clean = Top.clean
        /\ f.ways = Top.ways /\ f.labels = Top.labels /\ f.excVars = Top.excVars
    BY <1>s, <1>t, <2>1 DEF Frame
  <2> HIDE DEF f
  <2>3. QED
    BY <1>f, <2>1, <2>2
<1>8. ASSUME NEW way, FinallyWayEnd(way) PROVE TopGoes("ways", {}, Top.clean, Top.ways)
  <2> DEFINE f == [Top EXCEPT !.stage = "ways", !.temps = {}]
  <2>1. Depth > 0 /\ Goes(f)
    BY <1>0, <1>8 DEF FinallyWayEnd
  <2>2. /\ f \in Frame /\ f.node = Top.node /\ f.stage = "ways" /\ f.temps = {} /\ f.clean = Top.clean
        /\ f.ways = Top.ways /\ f.labels = Top.labels /\ f.excVars = Top.excVars
    BY <1>s, <1>t, <2>1 DEF Frame
  <2> HIDE DEF f
  <2>3. QED
    BY <1>f, <2>1, <2>2
<1>9. ASSUME NEW way \in {"return", "break", "continue"}, NEW T, FinallyWay(way, T)
      PROVE  TopGoes(way, T, Top.clean, Top.ways \ {way})
  <2> DEFINE f == [Top EXCEPT !.stage = way, !.temps = T, !.ways = Top.ways \ {way}]
  <2>1. /\ Depth > 0 /\ Goes(f)
        /\ (\E t : AllocateTemp(t, Plain) /\ T = {t}) \/ T = {}
    BY <1>0, <1>9 DEF FinallyWay
  <2>2. T \subseteq Nat /\ Top \in Frame /\ Top.ways \subseteq Ways
    <3>1. ASSUME NEW t, AllocateTemp(t, Plain) PROVE t \in Nat
      BY <3>1, Allocated
    <3>2. QED
      BY <2>1, <3>1, Frames DEF Frame
  <2>3. /\ f \in Frame /\ f.node = Top.node /\ f.stage = way /\ f.temps = T /\ f.clean = Top.clean
        /\ f.ways = Top.ways \ {way} /\ f.labels = Top.labels /\ f.excVars = Top.excVars
    BY <1>s, <2>1, <2>2 DEF Frame
  <2> HIDE DEF f
  <2>4. QED
    BY <1>f, <2>1, <2>3
<1>10. QED
  BY <1>1, <1>2, <1>3, <1>4, <1>5, <1>6, <1>7, <1>8, <1>9

(* A frame above those of fs.                                                  *)
Opens(fs, n, T) ==
    /\ Depth' = Depth + 1 /\ frames' \in Seq(Frame)
    /\ \A i \in 1..Depth : frames'[i] = fs[i]
    /\ frames'[Depth + 1] \in Frame
    /\ frames'[Depth + 1].node = n /\ frames'[Depth + 1].stage = "body" /\ frames'[Depth + 1].temps = T
    /\ frames'[Depth + 1].clean = {} /\ frames'[Depth + 1].ways = {}
    /\ frames'[Depth + 1].labels = labels /\ frames'[Depth + 1].excVars = excVars

LEMMA Begins ==
    ASSUME TempsInv, LabelType
    PROVE  /\ \A t : \A k \in Kind : ForBegin(t, k) => Opens(frames, "for", {t})
           /\ \A t : TryBegin(t) => Opens(frames, "except", {t})
           /\ FinallyBegin => Opens(frames, "finally", {})
           /\ \A t : \A k \in Kind : ClauseBegin(t, k) => Opens(Handled, "clause", {t})
<1>f. ASSUME NEW fs \in Seq(Frame), Len(fs) = Depth, NEW n \in {"for", "except", "clause", "finally"},
             NEW T \in SUBSET Nat, frames' = Append(fs, NewFrame(n, T))
      PROVE  Opens(fs, n, T)
  <2>0. /\ NewFrame(n, T) \in Frame /\ NewFrame(n, T).node = n /\ NewFrame(n, T).stage = "body"
        /\ NewFrame(n, T).temps = T /\ NewFrame(n, T).clean = {} /\ NewFrame(n, T).ways = {}
        /\ NewFrame(n, T).labels = labels /\ NewFrame(n, T).excVars = excVars
    BY <1>f DEF LabelType, NewFrame, Frame, Stages
  <2> DEFINE g == NewFrame(n, T)
  <2>1. /\ g \in Frame /\ g.node = n /\ g.stage = "body" /\ g.temps = T /\ g.clean = {} /\ g.ways = {}
        /\ g.labels = labels /\ g.excVars = excVars
    BY <2>0
  <2>2. frames' = Append(fs, g)
    BY <1>f
  <2> HIDE DEF g
  <2>3. /\ frames' \in Seq(Frame) /\ Depth' = Depth + 1
        /\ \A i \in 1..Depth : frames'[i] = fs[i]
        /\ frames'[Depth + 1] = g
    BY <1>f, <2>1, <2>2, Pushed
  <2>4. QED
    BY <2>1, <2>3 DEF Opens
<1>1. frames \in Seq(Frame) /\ Len(frames) = Depth
  BY Frames DEF Depth
<1>2. ASSUME NEW t, NEW k \in Kind, ForBegin(t, k) PROVE Opens(frames, "for", {t})
  <2>1. t \in Nat /\ frames' = Append(frames, NewFrame("for", {t}))
    BY <1>2, Allocated DEF ForBegin, Push, Begun, NewFrame
  <2>2. QED
    BY <1>1, <1>f, <2>1
<1>3. ASSUME NEW t, TryBegin(t) PROVE Opens(frames, "except", {t})
  <2>1. t \in Nat /\ frames' = Append(frames, NewFrame("except", {t}))
    BY <1>3, Allocated DEF TryBegin, Push, Begun, NewFrame
  <2>2. QED
    BY <1>1, <1>f, <2>1
<1>4. ASSUME FinallyBegin PROVE Opens(frames, "finally", {})
  <2>1. frames' = Append(frames, NewFrame("finally", {}))
    BY <1>4 DEF FinallyBegin, Push, Begun, NewFrame
  <2>2. QED
    BY <1>1, <1>f, <2>1
<1>5. ASSUME NEW t, NEW k \in Kind, ClauseBegin(t, k) PROVE Opens(Handled, "clause", {t})
  <2>1. t \in Nat /\ frames' = Append(Handled, NewFrame("clause", {t}))
        /\ (In("except", "handlers") \/ In("except", "handled"))
    BY <1>5, Allocated DEF ClauseBegin, Begun, NewFrame, Handled
  <2>2. Handled \in Seq(Frame) /\ Len(Handled) = Depth
    BY <2>1, HandledFrames
  <2>3. QED
    BY <1>f, <2>1, <2>2
<1>6. QED
  BY <1>2, <1>3, <1>4, <1>5

(* The frames under the one that ends.                                         *)
TopEnds ==
    /\ Depth > 0 /\ Depth' = Depth - 1 /\ frames' \in Seq(Frame)
    /\ \A i \in 1..(Depth - 1) : frames'[i] = frames[i]
    /\ labels' = Top.labels /\ excVars' = Top.excVars

LEMMA Ends ==
    ASSUME TempsInv, ForEnd \/ ClauseEnd \/ TryEnd \/ FinallyEnd
    PROVE  TopEnds
<1>1. Pop /\ Depth > 0
  BY Frames DEF ForEnd, ClauseEnd, TryEnd, FinallyEnd, In
<1>2. QED
  BY <1>1, Popped DEF TopEnds, Pop

-----------------------------------------------------------------------------
(* The labels within a statement are right if those around it are.                *)
LEMMA LabelsLooped ==
    ASSUME NEW fs, NEW gs, NEW n \in Nat, AllAlike(fs, gs, n), ~LoopBody(gs[n + 1])
    PROVE  Looped(gs, n + 1) => Looped(fs, n)
<1>1. ASSUME Looped(gs, n + 1) PROVE Looped(fs, n)
  <2>1. PICK i \in 1..(n + 1) : LoopBody(gs[i])
    BY <1>1 DEF Looped
  <2>2. i \in 1..n
    BY <2>1
  <2>3. Looped(gs, n)
    BY <2>1, <2>2 DEF Looped
  <2>4. QED
    BY <2>3, AlikeLooped
<1>2. QED
  BY <1>1

LEMMA CrossedLabel ==
    ASSUME NEW fs, NEW gs, NEW n \in Nat, AllAlike(fs, gs, n), NEW l, NEW w, LabelOk(fs, l, w, n),
           Crossed(gs[n + 1], w)
    PROVE  LabelOk(gs, l, w, n + 1)
<1>1. LabelOk(gs, l, w, n)
  BY AlikeLabel
<1>2. ASSUME NEW c \in 1..(n + 1), c > l[1] PROVE Crossed(gs[c], w)
  <2>1. CASE c \in 1..n
    BY <1>1, <1>2, <2>1 DEF LabelOk
  <2>2. CASE c = n + 1
    BY <2>2
  <2>3. QED
    BY <2>1, <2>2
<1>3. l[1] \in 1..n => l[1] \in 1..(n + 1)
  OBVIOUS
<1>4. QED
  BY <1>1, <1>2, <1>3 DEF LabelOk

LEMMA CrossedLabels ==
    ASSUME NEW fs, NEW gs, NEW n \in Nat, AllAlike(fs, gs, n), NEW L, LabelsOk(fs, L, n),
           ~LoopBody(gs[n + 1]), \A w \in Ways : Crossed(gs[n + 1], w)
    PROVE  LabelsOk(gs, L, n + 1)
BY CrossedLabel, LabelsLooped DEF LabelsOk

LEMMA OwnLabel ==
    ASSUME NEW gs, NEW n \in Nat, NEW g, NEW w, JumpOf(gs[n + 1], g, w)
    PROVE  LabelOk(gs, <<n + 1, g, w>>, w, n + 1) /\ <<n + 1, g, w>> # NoLabel
BY DEF LabelOk, NoLabel

LEMMA NewLabelsOk ==
    ASSUME NEW fs, NEW gs, NEW n \in Nat, AllAlike(fs, gs, n), NEW L, LabelsOk(fs, L, n),
           ~LoopBody(gs[n + 1]), NEW g, \A w \in Ways : JumpOf(gs[n + 1], g, w)
    PROVE  LabelsOk(gs, NewLabels(L, g, n + 1), n + 1)
<1> DEFINE M == NewLabels(L, g, n + 1)
<1>1. \A w \in Ways : M[w] = IF L[w] = NoLabel THEN NoLabel ELSE <<n + 1, g, w>>
  BY DEF NewLabels
<1>2. \A w \in Ways : LabelOk(gs, <<n + 1, g, w>>, w, n + 1) /\ <<n + 1, g, w>> # NoLabel
  BY OwnLabel
<1>3. "error" \in Ways /\ "return" \in Ways /\ "break" \in Ways /\ "continue" \in Ways
  BY DEF Ways
<1> HIDE DEF M
<1>4. LabelsOk(gs, M, n + 1)
  BY <1>1, <1>2, <1>3, LabelsLooped DEF LabelsOk
<1>5. QED
  BY <1>4 DEF M

LEMMA LoopLabelsOk ==
    ASSUME NEW fs, NEW gs, NEW n \in Nat, AllAlike(fs, gs, n), NEW L \in Labelling, LabelsOk(fs, L, n),
           NEW g, g \in {"loop", "clause"},
           gs[n + 1].node = (IF g = "loop" THEN "for" ELSE "clause"), gs[n + 1].stage = "body"
    PROVE  LabelsOk(gs, [L EXCEPT !["break"] = <<n + 1, g, "break">>, !["continue"] = <<n + 1, g, "continue">>], n + 1)
<1> DEFINE M == [L EXCEPT !["break"] = <<n + 1, g, "break">>, !["continue"] = <<n + 1, g, "continue">>]
<1>1. /\ M["break"] = <<n + 1, g, "break">> /\ M["continue"] = <<n + 1, g, "continue">>
      /\ M["error"] = L["error"] /\ M["return"] = L["return"]
  BY DEF Labelling, Ways
<1>2. \A w \in Loops : LabelOk(gs, <<n + 1, g, w>>, w, n + 1) /\ <<n + 1, g, w>> # NoLabel
  BY OwnLabel DEF JumpOf
<1>3. \A w \in {"error", "return"} : L[w] # NoLabel /\ LabelOk(fs, L[w], w, n)
  BY DEF LabelsOk, Ways
<1>4. \A w \in {"error", "return"} : Crossed(gs[n + 1], w)
  BY DEF Crossed
<1>5. \A w \in {"error", "return"} : LabelOk(gs, L[w], w, n + 1)
  BY <1>3, <1>4, CrossedLabel
<1> HIDE DEF M
<1>6. LabelsOk(gs, M, n + 1)
  BY <1>1, <1>2, <1>3, <1>5 DEF LabelsOk, Loops, Ways
<1>7. QED
  BY <1>6 DEF M

LEMMA ElseLabelsOk ==
    ASSUME NEW fs, NEW gs, NEW n \in Nat, AllAlike(fs, gs, n), NEW L, LabelsOk(fs, L, n),
           gs[n + 1].node = "except", gs[n + 1].stage # "body"
    PROVE  LabelsOk(gs, [NewLabels(L, "try", n + 1) EXCEPT !["error"] = <<n + 1, "except", "error">>,
                                                            !["return"] = <<n + 1, "except", "return">>], n + 1)
<1> DEFINE K == NewLabels(L, "try", n + 1)
           M == [K EXCEPT !["error"] = <<n + 1, "except", "error">>, !["return"] = <<n + 1, "except", "return">>]
<1>1. \A w \in Ways : K[w] = IF L[w] = NoLabel THEN NoLabel ELSE <<n + 1, "try", w>>
  BY DEF NewLabels
<1>k. DOMAIN K = Ways /\ K = [w \in Ways |-> K[w]]
  BY DEF NewLabels
<1> HIDE DEF K
<1>2. /\ M["error"] = <<n + 1, "except", "error">> /\ M["return"] = <<n + 1, "except", "return">>
      /\ M["break"] = K["break"] /\ M["continue"] = K["continue"]
  BY <1>k DEF Ways
<1>3. \A w \in Loops : LabelOk(gs, <<n + 1, "try", w>>, w, n + 1) /\ <<n + 1, "try", w>> # NoLabel
  BY OwnLabel DEF JumpOf, Loops, Ways
<1>4. \A w \in {"error", "return"} : LabelOk(gs, <<n + 1, "except", w>>, w, n + 1) /\ <<n + 1, "except", w>> # NoLabel
  BY OwnLabel DEF JumpOf
<1>5. ~LoopBody(gs[n + 1])
  BY DEF LoopBody
<1>6. Looped(gs, n + 1) => L["break"] # NoLabel /\ L["continue"] # NoLabel
  BY <1>5, LabelsLooped DEF LabelsOk
<1> HIDE DEF M
<1>7. LabelsOk(gs, M, n + 1)
  BY <1>1, <1>2, <1>3, <1>4, <1>6 DEF LabelsOk, Loops, Ways
<1>8. QED
  BY <1>7 DEF M, K

LEMMA ExcRestage ==
    ASSUME NEW fs, NEW gs, NEW n \in Nat \ {0}, \A i \in 1..(n - 1) : gs[i] = fs[i],
           NEW E, ExcOk(fs, E, n), fs[n].node # "clause", ~IsCopy(fs[n], "except")
    PROVE  ExcOk(gs, E, n) /\ ExcOk(gs, E, n - 1)
BY DEF ExcOk

LEMMA ExcPush ==
    ASSUME NEW fs, NEW gs, NEW n \in Nat, AllAlike(fs, gs, n), NEW E, ExcOk(fs, E, n)
    PROVE  ExcOk(gs, E, n + 1)
<1>1. ExcOk(gs, E, n)
  BY AlikeExc
<1>2. QED
  BY <1>1 DEF ExcOk

-----------------------------------------------------------------------------
(* The labels after each action.                                              *)
LEMMA LabelsTop ==
    ASSUME TempsInv, LabelsInv, Depth > 0
    PROVE  /\ LabelsOk(frames, Top.labels, Depth - 1) /\ Within(Top, Depth, labels)
           /\ LabelsOk(frames, labels, Depth) /\ ExcOk(frames, excVars, Depth)
           /\ ClauseOk(frames, Depth) /\ Top = frames[Depth] /\ Depth - 1 \in Nat /\ Depth = (Depth - 1) + 1
<1>1. Depth \in 1..Depth /\ Depth \in Nat
  BY Frames
<1>2. QED
  BY <1>1, Frames DEF LabelsInv, LabelsHold

LEMMA LabelsBegin ==
    ASSUME TempsInv, LabelType, LabelsInv,
           \/ \E t : (\E k \in Kind : ForBegin(t, k) \/ ClauseBegin(t, k)) \/ TryBegin(t)
           \/ FinallyBegin
    PROVE  LabelsInv'
<1>1. Depth \in Nat /\ labels \in Labelling /\ LabelsHold(frames, labels, excVars, Depth)
      /\ LabelsOk(frames, labels, Depth) /\ ExcOk(frames, excVars, Depth)
  BY Frames DEF LabelType, LabelsInv, LabelsHold
<1> DEFINE n == Depth
           gs == frames'
<1>2. ASSUME NEW node, NEW T, Opens(frames, node, T),
             LabelsOk(gs, labels', n + 1), Within(gs[n + 1], n + 1, labels'),
             node # "clause", excVars' = excVars
      PROVE  LabelsInv'
  <2>1. /\ AllAlike(frames, gs, n) /\ gs[n + 1].labels = labels /\ gs[n + 1].excVars = excVars
        /\ gs[n + 1].node = node /\ \A i \in 1..n : gs[i] = frames[i]
    BY <1>1, <1>2, SameAlike DEF Opens
  <2>2. ExcOk(gs, excVars', n + 1)
    BY <1>1, <1>2, <2>1, ExcPush
  <2>3. ClauseOk(gs, n + 1)
    BY <1>2, <2>1 DEF ClauseOk
  <2>4. \A i \in 1..n : ClauseOk(gs, i)
    BY <1>1, <2>1 DEF ClauseOk, LabelsHold
  <2>5. \A i \in 1..n : \A K : Within(frames[i], i, K) => Within(gs[i], i, K)
    BY <2>1
  <2> HIDE DEF gs, n
  <2>6. LabelsHold(gs, labels', excVars', n + 1)
    <3>1. n \in Nat /\ LabelsHold(frames, labels, excVars, n)
      BY <1>1 DEF n
    <3>2. QED
      BY <3>1, <1>2, <2>1, <2>2, <2>3, <2>4, <2>5, LabelsPush
  <2>7. QED
    BY <1>2, <2>6 DEF LabelsInv, Opens, gs, n
<1>3. ASSUME NEW t, NEW k \in Kind, ForBegin(t, k) PROVE LabelsInv'
  <2>1. /\ Opens(frames, "for", {t}) /\ excVars' = excVars
        /\ labels' = [labels EXCEPT !["break"] = <<n + 1, "loop", "break">>,
                                    !["continue"] = <<n + 1, "loop", "continue">>]
    BY <1>3, Begins DEF ForBegin, LoopLabels
  <2>2. /\ AllAlike(frames, gs, n) /\ gs[n + 1].node = "for" /\ gs[n + 1].stage = "body"
        /\ gs[n + 1].labels = labels
    BY <1>1, <2>1, SameAlike DEF Opens
  <2>3. LabelsOk(gs, labels', n + 1)
    BY <1>1, <2>1, <2>2, LoopLabelsOk
  <2>4. Within(gs[n + 1], n + 1, labels')
    BY <2>1, <2>2 DEF Within
  <2>5. QED
    BY <1>2, <2>1, <2>3, <2>4
<1>4. ASSUME NEW t, TryBegin(t) PROVE LabelsInv'
  <2>1. Opens(frames, "except", {t}) /\ excVars' = excVars /\ labels' = NewLabels(labels, "try", n + 1)
    BY <1>4, Begins DEF TryBegin
  <2>2. /\ AllAlike(frames, gs, n) /\ gs[n + 1].node = "except" /\ gs[n + 1].stage = "body"
        /\ gs[n + 1].labels = labels
    BY <1>1, <2>1, SameAlike DEF Opens
  <2>3. LabelsOk(gs, labels', n + 1)
    <3>1. ~LoopBody(gs[n + 1]) /\ \A w \in Ways : JumpOf(gs[n + 1], "try", w)
      BY <2>2 DEF LoopBody, JumpOf
    <3>2. QED
      BY <1>1, <2>1, <2>2, <3>1, NewLabelsOk
  <2>4. Within(gs[n + 1], n + 1, labels')
    BY <2>1, <2>2 DEF Within
  <2>5. QED
    BY <1>2, <2>1, <2>3, <2>4
<1>5. CASE FinallyBegin
  <2>1. Opens(frames, "finally", {}) /\ excVars' = excVars /\ labels' = NewLabels(labels, "finally", n + 1)
    BY <1>5, Begins DEF FinallyBegin
  <2>2. /\ AllAlike(frames, gs, n) /\ gs[n + 1].node = "finally" /\ gs[n + 1].stage = "body"
        /\ gs[n + 1].labels = labels
    BY <1>1, <2>1, SameAlike DEF Opens
  <2>3. LabelsOk(gs, labels', n + 1)
    <3>1. ~LoopBody(gs[n + 1]) /\ \A w \in Ways : JumpOf(gs[n + 1], "finally", w)
      BY <2>2 DEF LoopBody, JumpOf
    <3>2. QED
      BY <1>1, <2>1, <2>2, <3>1, NewLabelsOk
  <2>4. Within(gs[n + 1], n + 1, labels')
    BY <2>1, <2>2 DEF Within
  <2>5. QED
    BY <1>2, <2>1, <2>3, <2>4
<1>6. ASSUME NEW t, NEW k \in Kind, ClauseBegin(t, k) PROVE LabelsInv'
  <2>1. /\ Opens(Handled, "clause", {t}) /\ excVars' = {t}
        /\ labels' = [labels EXCEPT !["break"] = <<n + 1, "clause", "break">>,
                                    !["continue"] = <<n + 1, "clause", "continue">>]
        /\ In("except", "handlers") \/ In("except", "handled")
    BY <1>6, Begins DEF ClauseBegin, LoopLabels
  <2>2. /\ Depth > 0 /\ Top.node = "except" /\ Top.stage \in {"handlers", "handled"} /\ Top = frames[n]
        /\ \A i \in 1..(n - 1) : Handled[i] = frames[i]
        /\ Handled[n].stage = "handled"
        /\ Handled[n].temps = Top.temps /\ Handled[n].node = "except" /\ Handled[n].labels = Top.labels
        /\ Handled[n].excVars = Top.excVars
    BY <2>1, Frames, HandledFrames DEF In
  <2>3. /\ \A i \in 1..(n - 1) : gs[i] = frames[i]
        /\ gs[n].stage = "handled"
        /\ gs[n].temps = Top.temps /\ gs[n].node = "except" /\ gs[n].labels = Top.labels
        /\ gs[n].excVars = Top.excVars
        /\ gs[n + 1].node = "clause" /\ gs[n + 1].stage = "body" /\ gs[n + 1].labels = labels
        /\ gs[n + 1].excVars = excVars /\ gs[n + 1].temps = {t}
    <3>1. \A i \in 1..n : gs[i] = Handled[i]
      BY <2>1 DEF Opens
    <3>2. QED
      BY <1>1, <2>1, <2>2, <3>1 DEF Opens
  <2>4. AllAlike(frames, gs, n)
    BY <1>1, <2>2, <2>3 DEF AllAlike, Alike
  <2>5. LabelsOk(gs, labels', n + 1)
    BY <1>1, <2>1, <2>3, <2>4, LoopLabelsOk
  <2>6. Within(gs[n + 1], n + 1, labels')
    BY <2>1, <2>3 DEF Within
  <2>7. ExcOk(gs, excVars', n + 1) /\ ClauseOk(gs, n + 1)
    BY <1>1, <2>1, <2>2, <2>3 DEF ExcOk, ClauseOk
  <2>8. \A i \in 1..n : ClauseOk(gs, i)
    <3>1. ASSUME NEW i \in 1..n PROVE ClauseOk(gs, i)
      <4>1. CASE i = n
        BY <2>3, <4>1 DEF ClauseOk
      <4>2. CASE i < n
        <5>1. ClauseOk(frames, i) /\ gs[i] = frames[i] /\ (i > 1 => gs[i - 1] = frames[i - 1])
          BY <1>1, <2>3, <4>2 DEF LabelsHold
        <5>2. QED
          BY <5>1 DEF ClauseOk
      <4>3. QED
        BY <1>1, <4>1, <4>2
    <3>2. QED
      BY <3>1
  <2>9. ASSUME NEW i \in 1..n, NEW K, Within(frames[i], i, K) PROVE Within(gs[i], i, K)
    <3>1. CASE i < n
      BY <1>1, <2>3, <2>9, <3>1
    <3>2. CASE i = n
      <4> DEFINE M(L) == [NewLabels(L, "try", i) EXCEPT !["error"] = <<i, "except", "error">>,
                                                        !["return"] = <<i, "except", "return">>]
      <4>1. frames[i].node = "except" /\ frames[i].stage # "body" /\ gs[i].node = "except"
            /\ gs[i].stage # "body" /\ gs[i].labels = frames[i].labels
        BY <2>2, <2>3, <3>2
      <4>2. K = M(frames[i].labels)
        BY <2>9, <4>1 DEF Within
      <4>3. K = M(gs[i].labels)
        BY <4>1, <4>2
      <4>4. QED
        BY <4>1, <4>3 DEF Within
    <3>3. QED
      BY <1>1, <3>1, <3>2
  <2> HIDE DEF gs, n
  <2>10. LabelsHold(gs, labels', excVars', n + 1)
    <3>1. n \in Nat /\ LabelsHold(frames, labels, excVars, n)
      BY <1>1 DEF n
    <3>2. QED
      BY <3>1, <2>3, <2>4, <2>5, <2>6, <2>7, <2>8, <2>9, LabelsPush
  <2>11. QED
    BY <2>1, <2>10 DEF LabelsInv, Opens, gs, n
<1>7. QED
  BY <1>3, <1>4, <1>5, <1>6

LEMMA LabelsGoOn ==
    ASSUME TempsInv, LabelType, LabelsInv, NEW s, NEW T, NEW C, NEW W, TopGoes(s, T, C, W),
           LabelsOk(frames', labels', Depth), ExcOk(frames', excVars', Depth),
           Within(frames'[Depth], Depth, labels'), Top.node # "clause"
    PROVE  LabelsInv'
<1> DEFINE n == Depth
           gs == frames'
<1>1. /\ n \in Nat \ {0} /\ LabelsHold(frames, labels, excVars, n) /\ Top = frames[n]
      /\ \A i \in 1..(n - 1) : gs[i] = frames[i]
      /\ gs[n].labels = frames[n].labels /\ gs[n].excVars = frames[n].excVars
      /\ gs[n].node # "clause"
  BY Frames DEF TopGoes, LabelsInv
<1>2. ClauseOk(gs, n)
  BY <1>1 DEF ClauseOk
<1>3. LabelsOk(gs, labels', n) /\ ExcOk(gs, excVars', n) /\ Within(gs[n], n, labels')
  OBVIOUS
<1>d. Depth' = n
  BY DEF TopGoes
<1> HIDE DEF gs, n
<1>4. LabelsHold(gs, labels', excVars', n)
  BY <1>1, <1>2, <1>3, LabelsRestage
<1>5. QED
  BY <1>4, <1>d DEF LabelsInv, gs, n

(* Where the labels are those around the statement again.                         *)
LEMMA LabelsBack ==
    ASSUME TempsInv, LabelType, LabelsInv, NEW s, NEW T, NEW C, NEW W, TopGoes(s, T, C, W),
           labels' = Top.labels, ExcOk(frames', excVars', Depth),
           \/ Top.node = "for" /\ s = "else" /\ T = {}
           \/ Top.node = "finally" /\ s \notin {"body", "except"} /\ (T = {} \/ s = "return")
    PROVE  LabelsInv'
<1>0. Depth \in Nat /\ Depth > 0 /\ Depth \in 1..Depth
  BY Frames DEF TopGoes
<1> DEFINE m == Depth - 1
           gs == frames'
<1>1. /\ m \in Nat /\ LabelsOk(frames, Top.labels, m) /\ Depth = m + 1
      /\ \A i \in 1..m : gs[i] = frames[i]
      /\ gs[Depth].labels = Top.labels /\ gs[Depth].node = Top.node /\ gs[Depth].stage = s /\ gs[Depth].temps = T
  BY <1>0, LabelsTop DEF TopGoes
<1>2. ~LoopBody(gs[Depth]) /\ \A w \in Ways : Crossed(gs[Depth], w)
  BY <1>1 DEF LoopBody, Crossed, IsCopy
<1>3. AllAlike(frames, gs, m)
  BY <1>1, SameAlike
<1>w. Within(gs[Depth], Depth, labels')
  BY <1>1 DEF Within
<1>n. Top.node # "clause"
  OBVIOUS
<1> HIDE DEF gs, m
<1>4. LabelsOk(gs, labels', Depth)
  BY <1>1, <1>2, <1>3, CrossedLabels
<1>5. QED
  BY <1>4, <1>w, <1>n, LabelsGoOn DEF gs

(* Where all labels are new.                                                   *)
LEMMA LabelsRenewed ==
    ASSUME TempsInv, LabelType, LabelsInv, NEW T, NEW C, NEW W, TopGoes("except", T, C, W),
           labels' = NewLabels(Top.labels, "clause of finally", Depth), excVars' = T,
           Top.node = "finally"
    PROVE  LabelsInv'
<1>0. Depth \in Nat /\ Depth > 0 /\ Depth \in 1..Depth
  BY Frames DEF TopGoes
<1> DEFINE m == Depth - 1
           gs == frames'
<1>1. /\ m \in Nat /\ LabelsOk(frames, Top.labels, m) /\ Depth = m + 1
      /\ \A i \in 1..m : gs[i] = frames[i]
      /\ gs[Depth].labels = Top.labels /\ gs[Depth].node = Top.node /\ gs[Depth].stage = "except"
      /\ gs[Depth].temps = T
  <2>1. Depth - 1 \in Nat /\ LabelsOk(frames, Top.labels, Depth - 1)
    BY <1>0, LabelsTop
  <2>2. /\ \A i \in 1..(Depth - 1) : frames'[i] = frames[i]
        /\ frames'[Depth].labels = Top.labels /\ frames'[Depth].node = Top.node
        /\ frames'[Depth].stage = "except" /\ frames'[Depth].temps = T
    BY DEF TopGoes
  <2>3. Depth = m + 1
    BY <1>0, LabelsTop
  <2>4. QED
    BY <2>1, <2>2, <2>3
<1>2. ~LoopBody(gs[Depth]) /\ \A w \in Ways : JumpOf(gs[Depth], "clause of finally", w)
  BY <1>1 DEF LoopBody, JumpOf
<1>3. AllAlike(frames, gs, m)
  BY <1>1, SameAlike
<1>w. Within(gs[Depth], Depth, labels') /\ ExcOk(gs, excVars', Depth)
  BY <1>0, <1>1 DEF Within, ExcOk, IsCopy
<1>n. Top.node # "clause"
  OBVIOUS
<1> HIDE DEF gs, m
<1>4. LabelsOk(gs, labels', Depth)
  BY <1>1, <1>2, <1>3, NewLabelsOk
<1>5. QED
  BY <1>4, <1>w, <1>n, LabelsGoOn DEF gs

LEMMA LabelsMove ==
    ASSUME TempsInv, LabelType, LabelsInv,
           \/ ForElse \/ TryElse \/ TryHandlers \/ FinallyNormal \/ FinallyNormalEnd \/ FinallyExceptEnd
           \/ \E t : FinallyExcept(t)
           \/ \E way \in {"return", "break", "continue"} : FinallyWayEnd(way) \/ \E T : FinallyWay(way, T)
    PROVE  LabelsInv'
<1>i. \A n, s : In(n, s) => Depth > 0 /\ Top.node = n /\ Top.stage = s
  BY Frames DEF In
<1>e. Depth > 0 => /\ LabelsOk(frames, Top.labels, Depth - 1) /\ Within(Top, Depth, labels)
                   /\ ExcOk(frames, excVars, Depth) /\ ExcOk(frames, Top.excVars, Depth - 1)
                   /\ Top = frames[Depth] /\ Depth \in Nat \ {0} /\ Depth - 1 \in Nat
                   /\ (Empty(Top) => Top.temps = {})
  BY LabelsTop, TopFacts, Frames DEF LabelsInv, LabelsHold
<1>x. ASSUME NEW s, NEW T, NEW C, NEW W, TopGoes(s, T, C, W), Top.node # "clause", ~IsCopy(Top, "except")
      PROVE  ExcOk(frames', excVars, Depth)
  BY <1>e, <1>x, ExcRestage DEF TopGoes
<1>1. CASE ForElse
  <2>1. /\ TopGoes("else", {}, Top.clean, Top.ways) /\ labels' = Top.labels /\ excVars' = excVars
        /\ Top.node = "for"
    BY <1>1, <1>i, MovesOn DEF ForElse
  <2>2. QED
    BY <1>x, <2>1, LabelsBack DEF IsCopy
<1>2. CASE TryElse \/ TryHandlers
  <2> DEFINE m == Depth - 1
             gs == frames'
  <2>1. /\ (TryElse /\ Top.stage = "body" /\ TopGoes("else", Top.temps, FreeManaged, Top.ways))
           \/ (TryHandlers /\ Top.stage = "else" /\ TopGoes("handlers", Top.temps, Top.clean, Top.ways))
        /\ Top.node = "except" /\ excVars' = excVars
    BY <1>2, <1>i, MovesOn DEF TryElse, TryHandlers
  <2>2. PICK s, C : TopGoes(s, Top.temps, C, Top.ways) /\ s # "body"
    BY <2>1
  <2>3. labels' = [NewLabels(Top.labels, "try", Depth) EXCEPT !["error"] = <<Depth, "except", "error">>,
                                                            !["return"] = <<Depth, "except", "return">>]
    <3>1. CASE TryElse /\ Top.stage = "body" /\ Depth > 0
      BY <1>e, <2>1, <3>1 DEF TryElse, Within
    <3>2. CASE TryHandlers /\ Top.stage = "else" /\ Depth > 0
      BY <1>e, <2>1, <3>2 DEF TryHandlers, Within
    <3>3. QED
      BY <2>1, <2>2, <3>1, <3>2 DEF TopGoes
  <2>4. /\ m \in Nat /\ LabelsOk(frames, Top.labels, m) /\ Depth = m + 1
        /\ \A i \in 1..m : gs[i] = frames[i]
        /\ gs[Depth].labels = Top.labels /\ gs[Depth].node = "except" /\ gs[Depth].stage # "body"
    BY <1>e, <2>1, <2>2 DEF TopGoes
  <2>5. AllAlike(frames, gs, m)
    BY <2>4, SameAlike
  <2>6. ExcOk(gs, excVars', Depth)
    BY <1>x, <2>1, <2>2 DEF IsCopy
  <2>7. Within(gs[Depth], Depth, labels')
    BY <2>3, <2>4 DEF Within
  <2> HIDE DEF gs, m
  <2>8. LabelsOk(gs, labels', Depth)
    BY <2>3, <2>4, <2>5, ElseLabelsOk
  <2>9. QED
    BY <2>1, <2>2, <2>6, <2>7, <2>8, LabelsGoOn DEF gs
<1>3. CASE FinallyNormal
  <2>1. /\ TopGoes("normal", Top.temps, FreeManaged, {w \in Ways : labels[w] \in used})
        /\ labels' = Top.labels /\ excVars' = excVars
        /\ Top.node = "finally" /\ Top.stage = "body" /\ Depth > 0
    BY <1>3, <1>i, MovesOn DEF FinallyNormal
  <2>2. Top.temps = {}
    BY <1>e, <2>1 DEF Empty
  <2>3. QED
    BY <1>x, <2>1, <2>2, LabelsBack DEF IsCopy
<1>4. CASE FinallyNormalEnd
  <2>1. /\ TopGoes("ways", Top.temps, Top.clean, Top.ways)
        /\ labels' = labels /\ excVars' = excVars
        /\ Top.node = "finally" /\ Top.stage = "normal" /\ Depth > 0
    BY <1>4, <1>i, MovesOn DEF FinallyNormalEnd
  <2>2. Top.temps = {} /\ labels = Top.labels
    BY <1>e, <2>1 DEF Empty, Within
  <2>3. QED
    BY <1>x, <2>1, <2>2, LabelsBack DEF IsCopy
<1>5. ASSUME NEW t, FinallyExcept(t) PROVE LabelsInv'
  <2>1. /\ TopGoes("except", {t}, Top.clean, Top.ways \ {"error"})
        /\ labels' = NewLabels(labels, "clause of finally", Depth) /\ excVars' = {t}
        /\ Top.node = "finally" /\ Top.stage = "ways" /\ Depth > 0
    BY <1>5, <1>i, MovesOn DEF FinallyExcept
  <2>2. labels = Top.labels
    BY <1>e, <2>1 DEF Within
  <2>3. QED
    BY <2>1, <2>2, LabelsRenewed
<1>6. CASE FinallyExceptEnd
  <2>1. /\ TopGoes("ways", {}, Top.clean, Top.ways)
        /\ labels' = Top.labels /\ excVars' = Top.excVars
        /\ Top.node = "finally" /\ Depth > 0
    BY <1>6, <1>i, MovesOn DEF FinallyExceptEnd
  <2>2. ExcOk(frames', excVars', Depth)
    <3>1. AllAlike(frames, frames', Depth - 1) /\ Depth - 1 \in Nat /\ ExcOk(frames, excVars', Depth - 1)
      BY <1>e, <2>1, SameAlike DEF TopGoes
    <3>2. ExcOk(frames', excVars', Depth - 1)
      BY <3>1, AlikeExc
    <3>3. QED
      <4>1. Depth \in Nat /\ \A i \in 1..(Depth - 1) : i \in 1..Depth
        BY <1>e, <2>1
      <4>2. QED
        BY <3>2, <4>1 DEF ExcOk
  <2>3. QED
    BY <2>1, <2>2, LabelsBack
<1>7. ASSUME NEW way \in {"return", "break", "continue"}, FinallyWayEnd(way) PROVE LabelsInv'
  <2>1. /\ TopGoes("ways", {}, Top.clean, Top.ways)
        /\ labels' = labels /\ excVars' = excVars
        /\ Top.node = "finally" /\ Top.stage = way /\ Depth > 0
    BY <1>7, <1>i, MovesOn DEF FinallyWayEnd
  <2>2. labels = Top.labels
    BY <1>e, <2>1 DEF Within
  <2>3. QED
    BY <1>x, <2>1, <2>2, LabelsBack DEF IsCopy
<1>8. ASSUME NEW way \in {"return", "break", "continue"}, NEW T, FinallyWay(way, T) PROVE LabelsInv'
  <2>1. /\ TopGoes(way, T, Top.clean, Top.ways \ {way})
        /\ labels' = labels /\ excVars' = excVars
        /\ Top.node = "finally" /\ Top.stage = "ways" /\ Depth > 0
        /\ way = "return" \/ T = {}
    BY <1>8, <1>i, MovesOn DEF FinallyWay
  <2>2. labels = Top.labels
    BY <1>e, <2>1 DEF Within
  <2>3. QED
    BY <1>x, <2>1, <2>2, LabelsBack DEF IsCopy
<1>9. QED
  BY <1>1, <1>2, <1>3, <1>4, <1>5, <1>6, <1>7, <1>8

LEMMA LabelsEnd ==
    ASSUME TempsInv, LabelsInv, ForEnd \/ ClauseEnd \/ TryEnd \/ FinallyEnd
    PROVE  LabelsInv'
<1>1. TopEnds /\ Depth \in Nat \ {0} /\ Top = frames[Depth] /\ LabelsHold(frames, labels, excVars, Depth)
  BY Ends, Frames DEF TopEnds, LabelsInv
<1>2. LabelsHold(frames', Top.labels, Top.excVars, Depth - 1)
  BY <1>1, LabelsPop DEF TopEnds
<1>3. QED
  BY <1>1, <1>2 DEF LabelsInv, TopEnds

LEMMA LabelsUnchanged ==
    ASSUME LabelsInv, UNCHANGED <<frames, labels, excVars>>
    PROVE  LabelsInv'
BY DEF LabelsInv, Depth

LEMMA LabelsStep ==
    ASSUME TempsInv, LabelType, LabelsInv, [CodeNext]_codeVars
    PROVE  LabelsInv'
<1>1. CASE UNCHANGED codeVars
  BY <1>1, LabelsUnchanged DEF codeVars
<1>2. CASE CodeNext
  <2>1. ASSUME NEW t, NEW k \in Kind, ForBegin(t, k) \/ TryBegin(t) \/ ClauseBegin(t, k) PROVE LabelsInv'
    BY <2>1, LabelsBegin
  <2>2. ASSUME NEW t, TryBegin(t) PROVE LabelsInv'
    BY <2>2, LabelsBegin
  <2>3. CASE FinallyBegin
    BY <2>3, LabelsBegin
  <2>4. ASSUME NEW t, NEW k, Evaluate(t, k) PROVE LabelsInv'
    BY <2>4, LabelsUnchanged DEF Evaluate
  <2>5. ASSUME NEW t, Dispose(t) PROVE LabelsInv'
    BY <2>5, LabelsUnchanged DEF Dispose
  <2>6. ASSUME NEW way, BreakOrContinue(way) \/ JumpNowhere(way) PROVE LabelsInv'
    BY <2>6, LabelsUnchanged DEF BreakOrContinue, JumpNowhere
  <2>7. CASE Return \/ Reraise \/ FunctionEnd
    BY <2>7, LabelsUnchanged DEF Return, Reraise, FunctionEnd
  <2>8. QED
    BY <1>2, <2>1, <2>2, <2>3, <2>4, <2>5, <2>6, <2>7, Actions, LabelsMove, LabelsEnd
<1>3. QED
  BY <1>1, <1>2

LEMMA LabelsFirst == CodeInit => LabelsInv
<1> SUFFICES ASSUME CodeInit PROVE LabelsInv
  OBVIOUS
<1>1. Depth = 0 /\ excVars = {} /\ 1..Depth = {}
  BY DEF CodeInit, Depth
<1>2. \A w \in Ways : labels[w] = IF w \in {"error", "return"} THEN FunctionLabel(w) ELSE NoLabel
  BY DEF CodeInit
<1>3. /\ \A w \in {"error", "return"} : FunctionLabel(w)[3] = w /\ FunctionLabel(w) # NoLabel
      /\ "error" \in Ways /\ "return" \in Ways
  BY DEF FunctionLabel, NoLabel, Ways
<1>4. LabelsOk(frames, labels, Depth)
  BY <1>1, <1>2, <1>3 DEF LabelsOk, LabelOk, Looped
<1>5. QED
  BY <1>1, <1>4 DEF LabelsInv, LabelsHold, ExcOk

-----------------------------------------------------------------------------
(* What each operator does to the execution.                                   *)
Is(s, l, H, F, G) == s.at = l /\ s.holds = H /\ (s.fault <=> F) /\ s.gone = G
Before(r, s) == ~s.overridden => ~r.overridden
Freed(r, s, T) == s.holds = r.holds \ T /\ (s.fault <=> (r.fault \/ ~ T \subseteq r.holds))
XFreed(r, s, T) == s.holds = r.holds \ T /\ s.fault = r.fault
Left(r, s, l, d) == ~s.overridden => ~r.overridden /\ ~Overrides(r, l, d)

LEMMA OverridesGone ==
    ASSUME NEW r, NEW s, r.gone = s.gone, NEW l, NEW d
    PROVE  Overrides(r, l, d) <=> Overrides(s, l, d)
BY DEF Overrides

LEMMA RunTake ==
    ASSUME NEW r \in Run, NEW T \in SUBSET Nat
    PROVE  /\ Take(r, T) \in Run /\ Take(r, T).at = r.at /\ Take(r, T).gone = r.gone
           /\ Take(r, T).overridden = r.overridden
           /\ r.at # Here => Take(r, T) = r
           /\ r.at = Here => /\ Take(r, T).holds = r.holds \cup T
                             /\ Take(r, T).fault <=> (r.fault \/ T \cap r.holds # {})
BY DEF Run, Take

LEMMA RunClear ==
    ASSUME NEW r \in Run, NEW T \in SUBSET Nat
    PROVE  /\ Clear(r, T) \in Run /\ Clear(r, T).at = r.at /\ Clear(r, T).gone = r.gone
           /\ Clear(r, T).overridden = r.overridden
           /\ r.at # Here => Clear(r, T) = r
           /\ r.at = Here => /\ Clear(r, T).holds = r.holds \ T
                             /\ Clear(r, T).fault <=> (r.fault \/ ~ T \subseteq r.holds)
BY DEF Run, Clear

LEMMA RunXClear ==
    ASSUME NEW r \in Run, NEW T \in SUBSET Nat
    PROVE  /\ XClear(r, T) \in Run /\ XClear(r, T).at = r.at /\ XClear(r, T).gone = r.gone
           /\ XClear(r, T).overridden = r.overridden
           /\ r.at # Here => XClear(r, T) = r
           /\ r.at = Here => XClear(r, T).holds = r.holds \ T /\ XClear(r, T).fault = r.fault
BY DEF Run, XClear

LEMMA RunStrip ==
    ASSUME NEW r \in Run, NEW T \in SUBSET Nat
    PROVE  /\ Strip(r, T) \in Run /\ Strip(r, T).at = r.at /\ Strip(r, T).overridden = r.overridden
           /\ r.at # Here => Strip(r, T) = r
           /\ r.at = Here => /\ Strip(r, T).holds = r.holds \ T /\ Strip(r, T).gone = r.gone \cup T
                             /\ Strip(r, T).fault <=> (r.fault \/ ~ T \subseteq r.holds)
BY DEF Run, Strip, Clear

LEMMA RunForget ==
    ASSUME NEW r \in Run, NEW T
    PROVE  /\ Forget(r, T) \in Run /\ Forget(r, T).at = r.at /\ Forget(r, T).overridden = r.overridden
           /\ Forget(r, T).holds = r.holds /\ Forget(r, T).fault = r.fault /\ Forget(r, T).gone = r.gone \ T
BY DEF Run, Forget

LEMMA RunReach ==
    ASSUME NEW r \in Run, NEW l
    PROVE  /\ Reach(r, l) \in Run /\ Reach(r, l).at = (IF r.at = l THEN Here ELSE r.at)
           /\ Reach(r, l).overridden = r.overridden
           /\ Reach(r, l).holds = r.holds /\ Reach(r, l).fault = r.fault /\ Reach(r, l).gone = r.gone
           /\ r.at # l => Reach(r, l) = r
<1>1. Here \in Label
  BY LabelTypes
<1>2. QED
  BY <1>1 DEF Run, Reach

LEMMA RunOverride ==
    ASSUME NEW r \in Run, NEW b \in BOOLEAN
    PROVE  /\ Override(r, b) \in Run /\ Override(r, b).at = r.at /\ Override(r, b).gone = r.gone
           /\ Override(r, b).holds = r.holds /\ Override(r, b).fault = r.fault
           /\ r.at # Here => Override(r, b) = r
           /\ ~Override(r, b).overridden => ~r.overridden /\ (r.at = Here => ~b)
BY DEF Run, Override

LEMMA RunLeave ==
    ASSUME NEW r \in Run, NEW l \in Label, NEW d
    PROVE  /\ Leave(r, l, d) \in Run /\ Leave(r, l, d).at = (IF r.at = Here THEN l ELSE r.at)
           /\ Leave(r, l, d).holds = r.holds /\ Leave(r, l, d).fault = r.fault /\ Leave(r, l, d).gone = r.gone
           /\ r.at # Here => Leave(r, l, d) = r
           /\ Before(r, Leave(r, l, d)) /\ (r.at = Here => Left(r, Leave(r, l, d), l, d))
<1>1. Overrides(r, l, d) \in BOOLEAN
  BY DEF Overrides
<1>2. QED
  BY <1>1 DEF Run, Leave, Before, Left

LEMMA RunJump ==
    ASSUME NEW r \in Run, NEW l \in Label
    PROVE  /\ JumpTo(r, l) \in Run /\ JumpTo(r, l).at = (IF r.at = Here THEN l ELSE r.at)
           /\ JumpTo(r, l).holds = r.holds /\ JumpTo(r, l).fault = r.fault /\ JumpTo(r, l).gone = r.gone
           /\ r.at # Here => JumpTo(r, l) = r
           /\ Before(r, JumpTo(r, l)) /\ (r.at = Here => Left(r, JumpTo(r, l), l, Depth))
BY RunLeave DEF JumpTo

LEMMA RunPass ==
    ASSUME NEW r \in Run, NEW l \in Label, NEW T \in SUBSET Nat, NEW m \in Label
    PROVE  /\ Pass(r, l, T, m) \in Run /\ Pass(r, l, T, m).at = (IF r.at = l THEN m ELSE r.at)
           /\ Before(r, Pass(r, l, T, m)) /\ Pass(r, l, T, m).gone = r.gone
           /\ r.at # l => Pass(r, l, T, m) = r
           /\ r.at = l => /\ Freed(r, Pass(r, l, T, m), T)
                          /\ Left(r, Pass(r, l, T, m), m, Depth)
<1>1. CASE r.at = l
  <2> DEFINE c == Clear(Reach(r, l), T)
  <2>1. /\ c \in Run /\ c.at = Here /\ c.gone = r.gone /\ c.overridden = r.overridden /\ c.holds = r.holds \ T
        /\ c.fault <=> (r.fault \/ ~ T \subseteq r.holds)
    BY <1>1, RunReach, RunClear
  <2>2. Pass(r, l, T, m) = JumpTo(c, m)
    BY <1>1 DEF Pass
  <2> HIDE DEF c
  <2>3. /\ JumpTo(c, m) \in Run /\ JumpTo(c, m).at = m
        /\ JumpTo(c, m).holds = c.holds /\ JumpTo(c, m).fault = c.fault /\ JumpTo(c, m).gone = c.gone
        /\ Left(c, JumpTo(c, m), m, Depth)
    BY <2>1, RunJump
  <2>4. Left(r, JumpTo(c, m), m, Depth)
    BY <2>1, <2>3, OverridesGone DEF Left
  <2>5. QED
    BY <1>1, <2>1, <2>2, <2>3, <2>4 DEF Left, Before, Freed, XFreed
<1>2. CASE r.at # l
  BY <1>2 DEF Pass, Before
<1>3. QED
  BY <1>1, <1>2

LEMMA RunXIntercept ==
    ASSUME NEW r \in Run, NEW l \in Label, NEW T \in SUBSET Nat, NEW m \in Label
    PROVE  /\ XIntercept(r, l, T, m) \in Run
           /\ XIntercept(r, l, T, m).at = (IF r.at = l /\ l \in used THEN m ELSE r.at)
           /\ Before(r, XIntercept(r, l, T, m)) /\ XIntercept(r, l, T, m).gone = r.gone
           /\ ~(r.at = l /\ l \in used) => XIntercept(r, l, T, m) = r
           /\ r.at = l /\ l \in used =>
                          /\ XFreed(r, XIntercept(r, l, T, m), T)
                          /\ Left(r, XIntercept(r, l, T, m), m, Depth)
<1>1. CASE r.at = l /\ l \in used
  <2> DEFINE c == XClear(Reach(r, l), T)
  <2>1. /\ c \in Run /\ c.at = Here /\ c.gone = r.gone /\ c.overridden = r.overridden /\ c.holds = r.holds \ T
        /\ c.fault = r.fault
    BY <1>1, RunReach, RunXClear
  <2>2. XIntercept(r, l, T, m) = JumpTo(c, m)
    BY <1>1 DEF XIntercept
  <2> HIDE DEF c
  <2>3. /\ JumpTo(c, m) \in Run /\ JumpTo(c, m).at = m
        /\ JumpTo(c, m).holds = c.holds /\ JumpTo(c, m).fault = c.fault /\ JumpTo(c, m).gone = c.gone
        /\ Left(c, JumpTo(c, m), m, Depth)
    BY <2>1, RunJump
  <2>4. Left(r, JumpTo(c, m), m, Depth)
    BY <2>1, <2>3, OverridesGone DEF Left
  <2>5. QED
    BY <1>1, <2>1, <2>2, <2>3, <2>4 DEF Left, Before, Freed, XFreed
<1>2. CASE ~(r.at = l /\ l \in used)
  BY <1>2 DEF XIntercept, Before
<1>3. QED
  BY <1>1, <1>2

LEMMA RunIntercept ==
    ASSUME NEW r, NEW l, NEW T, NEW m
    PROVE  /\ l \in used => Intercept(r, l, T, m) = Pass(r, l, T, m)
           /\ l \notin used => Intercept(r, l, T, m) = r
BY DEF Intercept

-----------------------------------------------------------------------------
(* Where the execution may wait.                                              *)
LEMMA Triple ==
    ASSUME NEW l \in Label
    PROVE  /\ l = <<l[1], l[2], l[3]>> /\ l[1] \in Nat
           /\ \A m \in Label : l[1] = m[1] /\ l[2] = m[2] /\ l[3] = m[3] => l = m
BY DEF Label

LEMMA FunctionLabels ==
    /\ \A w : FunctionLabel(w)[1] = 0 /\ FunctionLabel(w)[2] = "function" /\ FunctionLabel(w)[3] = w
    /\ NoLabel[1] = 0 /\ \A w : NoLabel # FunctionLabel(w)
    /\ Here[1] = 0 /\ \A w : Here # FunctionLabel(w)
    /\ Done[1] = 0 /\ \A w : Done # FunctionLabel(w) /\ Done # Here
BY DEF FunctionLabel, NoLabel, Here, Done

LEMMA WaitsAway ==
    ASSUME NEW fs, NEW n \in Nat, NEW U, NEW l, WaitsAt(fs, l, U, n)
    PROVE  l # Here /\ l # Done /\ l[1] \in 0..n
<1>1. ASSUME l \in {FunctionLabel("error"), FunctionLabel("return")} PROVE l # Here /\ l # Done /\ l[1] = 0
  BY <1>1, FunctionLabels
<1>2. ASSUME l[1] \in 1..n PROVE l # Here /\ l # Done /\ l[1] \in 0..n
  BY <1>2, FunctionLabels
<1>3. QED
  BY <1>1, <1>2 DEF WaitsAt

(* A label that may be jumped to has been or will be put.                         *)
LEMMA WaitsJump ==
    ASSUME NEW fs, NEW n \in Nat, NEW l, NEW w, LabelOk(fs, l, w, n), NEW U, l \in U
    PROVE  WaitsAt(fs, l, U, n)
<1>1. CASE l = FunctionLabel(w) /\ w \in {"error", "return"}
  BY <1>1 DEF WaitsAt
<1>2. CASE l[1] \in 1..n /\ JumpOf(fs[l[1]], l[2], w)
  BY <1>2 DEF WaitsAt, Put, LabelOk
<1>3. QED
  BY <1>1, <1>2 DEF LabelOk

(* Frames below that keep what they put.                                        *)
Keeps(fs, gs, n) ==
    \A i \in 1..n : \A g, w : /\ InternalOf(fs[i], g, w) => InternalOf(gs[i], g, w)
                              /\ Put(fs[i], g, w) => Put(gs[i], g, w)

LEMMA SameKeeps ==
    ASSUME NEW fs, NEW gs, NEW n \in Nat, \A i \in 1..n : gs[i] = fs[i]
    PROVE  Keeps(fs, gs, n)
BY DEF Keeps

LEMMA WaitsKeep ==
    ASSUME NEW fs, NEW gs, NEW m \in Nat, NEW n \in Nat, NEW d \in 0..n, Keeps(fs, gs, d),
           NEW l, NEW U, WaitsAt(fs, l, U, m), l[1] <= d, NEW V, l \in U => l \in V
    PROVE  WaitsAt(gs, l, V, n)
<1>1. CASE l \in {FunctionLabel("error"), FunctionLabel("return")} /\ l \in U
  BY <1>1 DEF WaitsAt
<1>2. CASE /\ l[1] \in 1..m
           /\ InternalOf(fs[l[1]], l[2], l[3]) \/ (Put(fs[l[1]], l[2], l[3]) /\ l \in U)
  <2>1. l[1] \in 1..d
    BY <1>2
  <2>2. InternalOf(gs[l[1]], l[2], l[3]) \/ (Put(gs[l[1]], l[2], l[3]) /\ l \in V)
    BY <1>2, <2>1 DEF Keeps
  <2>3. QED
    BY <2>1, <2>2 DEF WaitsAt
<1>3. QED
  BY <1>1, <1>2 DEF WaitsAt

(* Labels in use, when frames change or a label is marked.                         *)
LEMMA LoopLabel ==
    ASSUME NEW fs, NEW n \in Nat, NEW l, NEW w \in Loops, LabelOk(fs, l, w, n), Looped(fs, n)
    PROVE  l[1] \in 1..n /\ Looped(fs, l[1])
<1>1. l[1] \in 1..n
  BY DEF LabelOk, Loops
<1>2. PICK i \in 1..n : LoopBody(fs[i])
  BY DEF Looped
<1>3. CASE i > l[1]
  <2>1. Crossed(fs[i], w)
    BY <1>3 DEF LabelOk
  <2>2. QED
    BY <1>2, <2>1 DEF Crossed, LoopBody, IsCopy, Loops
<1>4. CASE i <= l[1]
  BY <1>1, <1>2, <1>4 DEF Looped
<1>5. QED
  BY <1>1, <1>2, <1>3, <1>4

LEMMA UsedJump ==
    ASSUME NEW fs, NEW n \in Nat, NEW l, NEW w \in Ways, LabelOk(fs, l, w, n), w \in Loops => Looped(fs, n)
    PROVE  UsedLabel(fs, l, n)
<1>1. CASE w \in {"error", "return"}
  <2>1. l[3] \notin Loops /\ (l = FunctionLabel(w) \/ l[1] \in 1..n)
    BY <1>1 DEF LabelOk, Loops
  <2>2. l = FunctionLabel(w) => l[1] = 0
    BY FunctionLabels
  <2>3. QED
    BY <1>1, <2>1, <2>2 DEF UsedLabel
<1>2. CASE w \in Loops
  BY <1>2, LoopLabel DEF UsedLabel
<1>3. QED
  BY <1>1, <1>2 DEF Ways, Loops

LEMMA LoopedSame ==
    ASSUME NEW fs, NEW gs, NEW d \in Nat, \A i \in 1..d : LoopBody(fs[i]) => LoopBody(gs[i]), Looped(fs, d)
    PROVE  Looped(gs, d)
BY DEF Looped

LEMMA UsedKeep ==
    ASSUME NEW fs, NEW gs, NEW n \in Nat, NEW d \in 0..n,
           \A i \in 1..d : fs[i].node = gs[i].node
                           /\ (LoopBody(fs[i]) => LoopBody(gs[i]) \/ (i = d /\ gs[i].node = "for")),
           NEW u \in Label, NEW m, UsedLabel(fs, u, m), u[1] <= d
    PROVE  UsedLabel(gs, u, n)
<1>1. u[1] \in Nat
  BY Triple
<1>2. u[1] <= n
  BY <1>1
<1>3. ASSUME u[1] > 0, u[3] \in Loops, gs[u[1]].node # "for" PROVE Looped(gs, u[1])
  <2>1. u[1] \in 1..d /\ Looped(fs, u[1])
    BY <1>1, <1>3 DEF UsedLabel
  <2>2. ASSUME NEW i \in 1..u[1], LoopBody(fs[i]) PROVE LoopBody(gs[i])
    <3>1. i \in 1..d /\ (LoopBody(gs[i]) \/ (i = d /\ gs[i].node = "for"))
      BY <2>1, <2>2
    <3>2. i = d => i = u[1]
      BY <2>1, <3>1
    <3>3. QED
      BY <1>3, <3>1, <3>2
  <2>3. QED
    BY <1>1, <2>1, <2>2, LoopedSame
<1>4. QED
  BY <1>2, <1>3 DEF UsedLabel

LEMMA WaysKeep ==
    ASSUME NEW fs, NEW gs, NEW n \in Nat, \A i \in 1..n : gs[i] = fs[i], NEW i \in 1..(n + 1),
           NEW f, fs[i].node = f.node, f.ways \subseteq fs[i].ways, gs[i] = f,
           f.stage = fs[i].stage \/ f.stage \notin Loops \/ f.stage \in fs[i].ways,
           WaysOk(fs, i)
    PROVE  WaysOk(gs, i)
<1>1. ASSUME NEW w \in Loops, gs[i].node = "finally", w \in gs[i].ways \/ gs[i].stage = w
      PROVE  Looped(gs, i - 1)
  <2>1. fs[i].node = "finally" /\ (w \in fs[i].ways \/ fs[i].stage = w)
    BY <1>1
  <2>2. Looped(fs, i - 1)
    BY <1>1, <2>1 DEF WaysOk
  <2>3. QED
    BY <2>2 DEF Looped
<1>2. QED
  BY <1>1 DEF WaysOk

-----------------------------------------------------------------------------
(* The place of the execution when a statement goes on, begins or ends.              *)
PlaceIs(n, stage) ==
    \/ run'.at = Here /\ ~(n = "finally" /\ stage = "ways")
    \/ WaitsAt(frames', run'.at, used', Depth')

LEMMA PlaceNext ==
    ASSUME finished' = FALSE, frames' \in Seq(Frame), NEW d \in Nat, Depth' = d,
           run' \in Run, UsedOk(frames', used', d), \A i \in 1..d : WaysOk(frames', i),
           \A i \in 1..(d - 1) : ~IsCopy(frames'[i], "ways"),
           \/ run'.at = Here /\ ~(d > 0 /\ IsCopy(frames'[d], "ways"))
           \/ WaitsAt(frames', run'.at, used', d)
    PROVE  PlaceInv'
<1>1. In("finally", "ways")' => d > 0 /\ IsCopy(frames'[d], "ways")
  BY DEF In, Top, Depth, IsCopy
<1>2. PlaceOk(run)'
  BY <1>1 DEF PlaceOk
<1>3. QED
  BY <1>2 DEF PlaceInv

LEMMA PlaceFacts ==
    ASSUME TempsInv, LabelType, PlaceInv
    PROVE  /\ run \in Run /\ used \subseteq Label /\ Depth \in Nat
           /\ \A u \in used : UsedLabel(frames, u, Depth)
           /\ \A i \in 1..Depth : WaysOk(frames, i)
           /\ \A i \in 1..(Depth - 1) : ~IsCopy(frames[i], "ways")
           /\ \A w \in Ways : labels[w] \in Label
           /\ ~finished /\ run.at # Here => WaitsAt(frames, run.at, used, Depth)
           /\ ~finished /\ WaitsAt(frames, run.at, used, Depth) => run.at # Here
           /\ ~finished /\ In("finally", "ways") => run.at # Here
           /\ Depth > 0 => /\ Top \in Frame /\ Top = frames[Depth] /\ Top.temps \subseteq Nat /\ Top.clean \subseteq Nat
                           /\ \A w \in Ways : Top.labels[w] \in Label
           /\ Counted(Temps) \subseteq Nat /\ Counted(InUse) \subseteq Nat /\ excVars \subseteq Nat
<1>1. /\ Depth \in Nat /\ (Depth > 0 => Top \in Frame /\ Top = frames[Depth])
  BY Frames
<1>2. \A w \in Ways : labels[w] \in Label
  BY DEF LabelType, Labelling
<1>3. Depth > 0 => /\ Top.temps \subseteq Nat /\ Top.clean \subseteq Nat
                   /\ \A w \in Ways : Top.labels[w] \in Label
  BY <1>1 DEF Frame, Labelling
<1>4. Counted(Temps) \subseteq Nat /\ Counted(InUse) \subseteq Nat
  BY DEF Counted, Temps, InUse
<1>5. /\ ~finished /\ run.at # Here => WaitsAt(frames, run.at, used, Depth)
      /\ ~finished /\ WaitsAt(frames, run.at, used, Depth) => run.at # Here
      /\ ~finished /\ In("finally", "ways") => run.at # Here
  BY <1>1, WaitsAway DEF PlaceInv, PlaceOk
<1>6. QED
  BY <1>1, <1>2, <1>3, <1>4, <1>5 DEF PlaceInv, UsedOk, LabelType

LEMMA PlaceTop ==
    ASSUME TempsInv, LabelType, PlaceInv, NEW s, NEW T, NEW C, NEW W, TopGoes(s, T, C, W), s # "body",
           ~finished, finished' = finished,
           \A u \in used' : u \in used \/ (u \in Label /\ UsedLabel(frames, u, Depth - 1)),
           WaysOk(frames', Depth), run' \in Run,
           \/ run'.at = Here /\ ~(Top.node = "finally" /\ s = "ways")
           \/ WaitsAt(frames', run'.at, used', Depth)
    PROVE  PlaceInv'
<1> DEFINE n == Depth
           gs == frames'
<1>1. /\ n \in Nat \ {0} /\ Top = frames[n] /\ Depth' = n
      /\ \A i \in 1..(n - 1) : gs[i] = frames[i]
      /\ gs[n].node = frames[n].node /\ gs[n].stage = s
      /\ frames # <<>> /\ gs \in Seq(Frame)
  BY Frames DEF TopGoes
<1>2. ~finished /\ used \subseteq Label
  BY <1>1, PlaceFacts
<1>3. \A u \in used' : u \in Label /\ (UsedLabel(frames, u, n) \/ UsedLabel(frames, u, n - 1))
  BY <1>2, PlaceFacts
<1>4. WaysOk(gs, n) /\ ((run'.at = Here /\ ~(gs[n].node = "finally" /\ s = "ways"))
                        \/ WaitsAt(gs, run'.at, used', n))
  BY <1>1
<1>5. \A i \in 1..n : WaysOk(frames, i)
  BY PlaceFacts
<1>6. \A i \in 1..(n - 1) : ~IsCopy(frames[i], "ways")
  BY PlaceFacts
<1> HIDE DEF gs, n
<1>7. \A i \in 1..n : frames[i].node = gs[i].node
                      /\ (LoopBody(frames[i]) => LoopBody(gs[i]) \/ (i = n /\ gs[i].node = "for"))
  BY <1>1 DEF LoopBody
<1>8. UsedOk(gs, used', n)
  <2>1. ASSUME NEW u \in used' PROVE UsedLabel(gs, u, n)
    <3>1. u \in Label /\ u[1] \in Nat
      BY <1>3, <2>1, Triple
    <3>2. u[1] <= n
      BY <1>1, <1>3, <2>1, <3>1 DEF UsedLabel
    <3>3. QED
      BY <1>1, <1>3, <1>7, <2>1, <3>1, <3>2, UsedKeep
  <2>2. QED
    BY <1>3, <2>1 DEF UsedOk
<1>9. \A i \in 1..n : WaysOk(gs, i)
  <2>1. ASSUME NEW i \in 1..(n - 1) PROVE WaysOk(gs, i)
    <3>1. \A j \in 1..(i - 1) : gs[j] = frames[j]
      BY <1>1
    <3>2. gs[i] = frames[i] /\ WaysOk(frames, i)
      BY <1>1, <1>5
    <3>3. QED
      BY <3>1, <3>2 DEF WaysOk, Looped
  <2>2. QED
    BY <1>1, <1>4, <2>1
<1>10. \A i \in 1..(n - 1) : ~IsCopy(gs[i], "ways")
  BY <1>1, <1>6
<1>11. finished' = FALSE
  BY <1>2 DEF PlaceInv
<1>12. gs = frames' /\ Depth' = n
  BY DEF gs, n, TopGoes
<1>13. \/ run'.at = Here /\ ~(n > 0 /\ IsCopy(gs[n], "ways"))
       \/ WaitsAt(gs, run'.at, used', n)
  BY <1>1, <1>4 DEF IsCopy
<1>14. QED
  BY <1>1, <1>8, <1>9, <1>10, <1>11, <1>12, <1>13, PlaceNext

LEMMA PlacePush ==
    ASSUME TempsInv, LabelType, PlaceInv, NEW fs, NEW node, NEW T, Opens(fs, node, T), ~finished, finished' = finished,
           \A i \in 1..Depth : /\ fs[i].node = frames[i].node /\ fs[i].ways = frames[i].ways
                               /\ fs[i].stage = frames[i].stage \/ (fs[i].node = "except" /\ fs[i].stage # "ways"),
           Depth > 0 => ~IsCopy(frames[Depth], "ways"),
           \A u \in used' : u \in used \/ (u \in Label /\ UsedLabel(frames, u, Depth)),
           run' \in Run,
           run'.at = Here \/ WaitsAt(frames', run'.at, used', Depth + 1)
    PROVE  PlaceInv'
<1> DEFINE n == Depth
           gs == frames'
<1>1. /\ n \in Nat /\ Depth' = n + 1 /\ gs \in Seq(Frame)
      /\ \A i \in 1..n : gs[i] = fs[i]
      /\ gs[n + 1].node = node /\ gs[n + 1].stage = "body" /\ gs[n + 1].ways = {}
  BY Frames DEF Opens
<1>2. \A u \in used' : u \in Label /\ UsedLabel(frames, u, n)
  BY PlaceFacts
<1>3. \A i \in 1..n : WaysOk(frames, i) /\ ~IsCopy(frames[i], "ways")
  BY <1>1, PlaceFacts
<1>4. run'.at = Here \/ WaitsAt(gs, run'.at, used', n + 1)
  OBVIOUS
<1>5. \A i \in 1..n : /\ gs[i].node = frames[i].node /\ gs[i].ways = frames[i].ways
                      /\ gs[i].stage = frames[i].stage \/ (gs[i].node = "except" /\ gs[i].stage # "ways")
  BY <1>1
<1> HIDE DEF gs, n
<1>6. \A i \in 1..n : LoopBody(frames[i]) => LoopBody(gs[i])
  BY <1>5 DEF LoopBody
<1>7. UsedOk(gs, used', n + 1)
  <2>1. ASSUME NEW u \in used' PROVE UsedLabel(gs, u, n + 1)
    <3>1. u[1] <= n /\ u \in Label /\ UsedLabel(frames, u, n)
      BY <1>2 DEF UsedLabel
    <3>2. /\ n + 1 \in Nat /\ n \in 0..(n + 1)
          /\ \A i \in 1..n : frames[i].node = gs[i].node
                             /\ (LoopBody(frames[i]) => LoopBody(gs[i]) \/ (i = n /\ gs[i].node = "for"))
      BY <1>1, <1>5, <1>6
    <3>3. QED
      BY <3>1, <3>2, UsedKeep
  <2>2. QED
    BY <1>2, <2>1 DEF UsedOk
<1>8. \A i \in 1..(n + 1) : WaysOk(gs, i)
  <2>1. ASSUME NEW i \in 1..n PROVE WaysOk(gs, i)
    <3>1. ASSUME NEW w \in Loops, gs[i].node = "finally", w \in gs[i].ways \/ gs[i].stage = w
          PROVE  Looped(gs, i - 1)
      <4>1. Looped(frames, i - 1)
        BY <1>3, <1>5, <3>1 DEF WaysOk
      <4>2. \A j \in 1..(i - 1) : LoopBody(frames[j]) => LoopBody(gs[j])
        BY <1>1, <1>6
      <4>3. QED
        BY <1>1, <4>1, <4>2, LoopedSame
    <3>2. QED
      BY <3>1 DEF WaysOk
  <2>2. WaysOk(gs, n + 1)
    BY <1>1 DEF WaysOk, Loops
  <2>3. QED
    BY <1>1, <2>1, <2>2
<1>9. \A i \in 1..n : ~IsCopy(gs[i], "ways")
  BY <1>3, <1>5 DEF IsCopy
<1>10. ~IsCopy(gs[n + 1], "ways")
  BY <1>1 DEF IsCopy
<1>11. gs = frames'
  BY DEF gs
<1>12. finished' = FALSE
  BY DEF PlaceInv
<1>13. n + 1 \in Nat /\ \A i \in 1..((n + 1) - 1) : ~IsCopy(gs[i], "ways")
  BY <1>1, <1>9
<1>14. QED
  BY <1>1, <1>4, <1>7, <1>8, <1>10, <1>11, <1>12, <1>13, PlaceNext

LEMMA PlacePop ==
    ASSUME TempsInv, LabelType, PlaceInv, TopEnds, ~finished, finished' = finished,
           \A u \in used' : /\ u[1] < Depth
                            /\ u \in used \/ (u \in Label /\ UsedLabel(frames, u, Depth - 1)),
           run' \in Run,
           run'.at = Here \/ WaitsAt(frames', run'.at, used', Depth - 1)
    PROVE  PlaceInv'
<1> DEFINE n == Depth - 1
           gs == frames'
<1>1. /\ n \in Nat /\ Depth' = n /\ gs \in Seq(Frame) /\ Depth = n + 1
      /\ \A i \in 1..n : gs[i] = frames[i]
      /\ frames # <<>>
  BY Frames DEF TopEnds
<1>2. \A u \in used' : u \in Label /\ u[1] <= n /\ \E m : UsedLabel(frames, u, m)
  <2>1. ASSUME NEW u \in used' PROVE u \in Label /\ \E m : UsedLabel(frames, u, m)
    BY PlaceFacts
  <2>2. QED
    BY <1>1, <2>1, Triple
<1>3. \A i \in 1..n : WaysOk(frames, i) /\ ~IsCopy(frames[i], "ways")
  BY <1>1, PlaceFacts
<1>4. run'.at = Here \/ WaitsAt(gs, run'.at, used', n)
  OBVIOUS
<1>5. finished' = FALSE
  BY <1>1, PlaceFacts DEF PlaceInv
<1> HIDE DEF gs, n
<1>6. UsedOk(gs, used', n)
  <2>1. ASSUME NEW u \in used' PROVE UsedLabel(gs, u, n)
    <3>1. u[1] <= n /\ u \in Label /\ \E m : UsedLabel(frames, u, m)
      BY <1>2
    <3>2. /\ n \in 0..n
          /\ \A i \in 1..n : frames[i].node = gs[i].node
                             /\ (LoopBody(frames[i]) => LoopBody(gs[i]) \/ (i = n /\ gs[i].node = "for"))
      BY <1>1
    <3>3. QED
      BY <1>1, <3>1, <3>2, UsedKeep
  <2>2. QED
    BY <1>2, <2>1 DEF UsedOk
<1>7. ASSUME NEW i \in 1..n PROVE WaysOk(gs, i)
  <2>1. \A j \in 1..(i - 1) : gs[j] = frames[j]
    BY <1>1
  <2>2. gs[i] = frames[i] /\ WaysOk(frames, i)
    BY <1>1, <1>3
  <2>3. QED
    BY <2>1, <2>2 DEF WaysOk, Looped
<1>8. \A i \in 1..n : ~IsCopy(gs[i], "ways")
  BY <1>1, <1>3
<1>9. gs = frames'
  BY DEF gs
<1>10. ~(n > 0 /\ IsCopy(gs[n], "ways")) /\ \A i \in 1..(n - 1) : ~IsCopy(gs[i], "ways")
  BY <1>1, <1>8
<1>11. QED
  BY <1>1, <1>4, <1>5, <1>6, <1>7, <1>9, <1>10, PlaceNext

LEMMA PlaceStay ==
    ASSUME TempsInv, LabelType, PlaceInv, UNCHANGED <<frames, finished>>, run' \in Run,
           used \subseteq used',
           \A u \in used' : u \in used \/ (u \in Label /\ UsedLabel(frames, u, Depth)),
           run'.at = run.at \/ (~finished /\ WaitsAt(frames, run'.at, used', Depth))
    PROVE  PlaceInv'
<1>1. Depth \in Nat /\ Depth' = Depth
  BY Frames DEF Depth
<1>2. UsedOk(frames', used', Depth')
  BY <1>1 DEF PlaceInv, UsedOk
<1>3. PlaceOk(run)'
  <2>1. CASE ~finished /\ WaitsAt(frames, run'.at, used', Depth)
    BY <1>1, <2>1 DEF PlaceOk
  <2>2. CASE run'.at = run.at
    <3>1. WaitsAt(frames, run.at, used, Depth) => WaitsAt(frames, run.at, used', Depth)
      BY DEF WaitsAt
    <3>2. In("finally", "ways")' = In("finally", "ways")
      BY DEF In, Top, Depth
    <3>3. QED
      BY <1>1, <2>2, <3>1, <3>2 DEF PlaceOk, PlaceInv
  <2>3. QED
    BY <2>1, <2>2
<1>4. QED
  BY <1>1, <1>2, <1>3 DEF PlaceInv

(* A jump to a current label.                                                   *)
LEMMA LabelMarked ==
    ASSUME TempsInv, LabelType, LabelsInv, NEW w \in Ways, labels[w] # NoLabel, w \in Loops => Looped(frames, Depth)
    PROVE  /\ labels[w] \in Label /\ UsedLabel(frames, labels[w], Depth)
           /\ LabelOk(frames, labels[w], w, Depth)
           /\ \A U : labels[w] \in U => WaitsAt(frames, labels[w], U, Depth)
<1>1. Depth \in Nat /\ labels[w] \in Label
  BY Frames DEF LabelType, Labelling
<1>2. LabelOk(frames, labels[w], w, Depth)
  BY DEF LabelsInv, LabelsHold, LabelsOk
<1>3. QED
  BY <1>1, <1>2, UsedJump, WaitsJump

LEMMA ErrorMarked ==
    ASSUME TempsInv, LabelType, LabelsInv, NEW w \in {"error", "return"}
    PROVE  /\ labels[w] \in Label /\ UsedLabel(frames, labels[w], Depth)
           /\ LabelOk(frames, labels[w], w, Depth)
           /\ \A U : labels[w] \in U => WaitsAt(frames, labels[w], U, Depth)
<1>1. w \in Ways /\ w \notin Loops /\ labels[w] # NoLabel
  BY DEF Ways, Loops, LabelsInv, LabelsHold, LabelsOk
<1>2. QED
  BY <1>1, LabelMarked

LEMMA PlaceExpression ==
    ASSUME TempsInv, LabelType, LabelsInv, PlaceInv,
           (\E t : \E k \in Kind : Evaluate(t, k)) \/ \E t : Dispose(t)
    PROVE  PlaceInv'
<1>f. run \in Run
  BY PlaceFacts
<1>e. /\ labels["error"] \in Label /\ UsedLabel(frames, labels["error"], Depth)
      /\ \A U : labels["error"] \in U => WaitsAt(frames, labels["error"], U, Depth)
  BY ErrorMarked
<1>1. ASSUME NEW t, NEW k \in Kind, Evaluate(t, k) PROVE PlaceInv'
  <2>1. /\ UNCHANGED <<frames, finished>> /\ ~finished /\ used' = used \cup {labels["error"]}
        /\ t \in Nat /\ \/ run' = Take(run, IF k \in Managed THEN {t} ELSE {})
                        \/ run' = JumpTo(run, labels["error"])
    BY <1>1, Allocated DEF Evaluate
  <2>2. run' \in Run /\ (run'.at = run.at \/ run'.at = labels["error"])
    <3>1. CASE run' = JumpTo(run, labels["error"])
      BY <1>f, <1>e, <3>1, RunJump
    <3>2. CASE run' = Take(run, IF k \in Managed THEN {t} ELSE {})
      BY <1>f, <2>1, <3>2, RunTake
    <3>3. QED
      BY <2>1, <3>1, <3>2
  <2>3. run'.at = labels["error"] => WaitsAt(frames, run'.at, used', Depth)
    BY <1>e, <2>1
  <2>4. QED
    BY <1>e, <2>1, <2>2, <2>3, PlaceStay
<1>2. ASSUME NEW t, Dispose(t) PROVE PlaceInv'
  <2>1. /\ UNCHANGED <<frames, finished, used>> /\ run' = Clear(run, Counted({t})) /\ t \in scratch
    BY <1>2 DEF Dispose
  <2>2. t \in Nat
    BY <2>1 DEF TempsInv, TempsHaveOneOwner, InUse, Temps
  <2>3. run' \in Run /\ run'.at = run.at
    BY <1>f, <2>1, <2>2, RunClear DEF Counted
  <2>4. QED
    BY <2>1, <2>3, PlaceStay
<1>3. QED
  BY <1>1, <1>2

LEMMA PlaceJump ==
    ASSUME TempsInv, LabelType, LabelsInv, PlaceInv,
           BreakOrContinue("break") \/ BreakOrContinue("continue") \/ Return \/ Reraise
    PROVE  PlaceInv'
<1>f. run \in Run /\ excVars \subseteq Nat /\ Counted(InUse) \subseteq Nat
  BY PlaceFacts
<1>g. ASSUME NEW r \in Run, NEW w \in Ways, labels[w] # NoLabel, w \in Loops => Looped(frames, Depth), r.at = run.at,
             UNCHANGED <<frames, finished>>, ~finished, used' = used \cup {labels[w]}, run' = JumpTo(r, labels[w])
      PROVE  PlaceInv'
  <2>1. /\ labels[w] \in Label /\ UsedLabel(frames, labels[w], Depth)
        /\ \A U : labels[w] \in U => WaitsAt(frames, labels[w], U, Depth)
    BY <1>g, LabelMarked
  <2>2. run' \in Run /\ (run'.at = run.at \/ run'.at = labels[w])
    BY <1>g, <2>1, RunJump
  <2>3. QED
    BY <1>g, <2>1, <2>2, PlaceStay
<1>1. ASSUME NEW w \in Loops, BreakOrContinue(w) PROVE PlaceInv'
  <2>1. Looped(frames, Depth)
    BY <1>1, Frames DEF BreakOrContinue, InLoop, Looped, LoopBody, Depth
  <2>2. QED
    BY <1>1, <1>f, <1>g, <2>1 DEF BreakOrContinue, Loops, Ways, Statement
<1>2. "error" \in Ways /\ "return" \in Ways /\ "error" \notin Loops /\ "return" \notin Loops
      /\ labels["error"] # NoLabel /\ labels["return"] # NoLabel
  BY DEF Ways, Loops, LabelsInv, LabelsHold, LabelsOk
<1>3. CASE Return
  <2> DEFINE o == Override(run, run.gone # {})
             r == Strip(o, Counted(InUse))
  <2>0. (run.gone # {}) \in BOOLEAN
    OBVIOUS
  <2>1. o \in Run /\ o.at = run.at
    BY <1>f, <2>0, RunOverride
  <2>2. r \in Run /\ r.at = run.at
    BY <1>f, <2>1, RunStrip
  <2>3. /\ UNCHANGED <<frames, finished>> /\ ~finished /\ used' = used \cup {labels["return"]}
        /\ run' = JumpTo(r, labels["return"])
    BY <1>3 DEF Return, Statement
  <2> HIDE DEF r
  <2>4. QED
    BY <1>g, <1>2, <2>2, <2>3
<1>4. CASE Reraise
  <2> DEFINE o == Override(run, excVars \cap run.gone # {})
             r == Strip(o, excVars)
  <2>0. (excVars \cap run.gone # {}) \in BOOLEAN
    OBVIOUS
  <2>1. o \in Run /\ o.at = run.at
    BY <1>f, <2>0, RunOverride
  <2>2. r \in Run /\ r.at = run.at
    BY <1>f, <2>1, RunStrip
  <2>3. /\ UNCHANGED <<frames, finished>> /\ ~finished /\ used' = used \cup {labels["error"]}
        /\ run' = JumpTo(r, labels["error"])
    BY <1>4 DEF Reraise, Statement
  <2> HIDE DEF r
  <2>4. QED
    BY <1>g, <1>2, <2>2, <2>3
<1>5. QED
  BY <1>1, <1>3, <1>4 DEF Loops

(* Statements that begin.                                                      *)
LEMMA PlaceBegin ==
    ASSUME TempsInv, LabelType, LabelsInv, PlaceInv,
           \/ \E t : (\E k \in Kind : ForBegin(t, k)) \/ TryBegin(t)
           \/ FinallyBegin
    PROVE  PlaceInv'
<1>f. run \in Run /\ Depth \in Nat /\ (~finished /\ run.at # Here => WaitsAt(frames, run.at, used, Depth))
  BY PlaceFacts
<1>e. /\ labels["error"] \in Label /\ UsedLabel(frames, labels["error"], Depth)
      /\ \A U : labels["error"] \in U => WaitsAt(frames, labels["error"], U, Depth)
  BY ErrorMarked
<1>g. ASSUME NEW node, NEW T, Opens(frames, node, T), Statement, finished' = finished,
             used' = used \/ used' = used \cup {labels["error"]}, run' \in Run,
             run'.at = run.at \/ WaitsAt(frames', run'.at, used', Depth + 1)
      PROVE  PlaceInv'
  <2>1. ~finished /\ (Depth > 0 => ~IsCopy(frames[Depth], "ways"))
    BY <1>g, Frames DEF Statement, Between, In, IsCopy
  <2>2. \A u \in used' : u \in used \/ (u \in Label /\ UsedLabel(frames, u, Depth))
    BY <1>e, <1>g
  <2>3. run'.at = Here \/ WaitsAt(frames', run'.at, used', Depth + 1)
    <3>1. CASE run'.at = run.at /\ run.at # Here
      <4>1. WaitsAt(frames, run.at, used, Depth)
        BY <1>f, <2>1, <3>1
      <4>2. Keeps(frames, frames', Depth)
        BY <1>f, <1>g, SameKeeps DEF Opens
      <4>3. run.at[1] <= Depth /\ Depth \in 0..(Depth + 1) /\ Depth + 1 \in Nat
        BY <1>f, <4>1, WaitsAway
      <4>4. run.at \in used => run.at \in used'
        BY <1>g
      <4>5. QED
        BY <1>f, <3>1, <4>1, <4>2, <4>3, <4>4, WaitsKeep
    <3>2. QED
      BY <1>g, <3>1
  <2>4. QED
    BY <1>g, <2>1, <2>2, <2>3, PlacePush
<1>1. ASSUME NEW t, NEW k \in Kind, ForBegin(t, k) PROVE PlaceInv'
  <2> DEFINE l == <<Depth + 1, "for", "exhausted">>
  <2>1. /\ Opens(frames, "for", {t}) /\ Statement /\ finished' = finished /\ used' = used \cup {labels["error"]}
        /\ t \in Nat
        /\ \/ run' = Take(run, {t}) \/ run' = JumpTo(Take(run, {t}), l) \/ run' = JumpTo(run, labels["error"])
    BY <1>1, Begins, Allocated DEF ForBegin
  <2>2. l \in Label /\ l[1] = Depth + 1 /\ l[2] = "for" /\ l[3] = "exhausted"
    <3>1. Depth + 1 \in Nat /\ "for" \in Groups /\ "exhausted" \in Names
      BY <1>f DEF Groups, Names
    <3>2. QED
      BY <3>1, LabelTypes
  <2>3. Take(run, {t}) \in Run /\ Take(run, {t}).at = run.at
    BY <1>f, <2>1, RunTake
  <2> HIDE DEF l
  <2>4. run' \in Run /\ run'.at \in {run.at, l, labels["error"]}
    BY <1>f, <1>e, <2>1, <2>2, <2>3, RunJump
  <2>5. WaitsAt(frames', l, used', Depth + 1)
    <3>1. frames'[Depth + 1].node = "for" /\ frames'[Depth + 1].stage = "body"
      BY <2>1 DEF Opens
    <3>2. InternalOf(frames'[l[1]], l[2], l[3])
      BY <2>2, <3>1 DEF InternalOf
    <3>3. l[1] \in 1..(Depth + 1)
      BY <1>f, <2>2
    <3>4. QED
      BY <3>2, <3>3 DEF WaitsAt
  <2>6. WaitsAt(frames', labels["error"], used', Depth + 1)
    <3>1. WaitsAt(frames, labels["error"], used', Depth)
      BY <1>e, <2>1
    <3>2. Keeps(frames, frames', Depth)
      BY <1>f, <2>1, SameKeeps DEF Opens
    <3>3. labels["error"][1] <= Depth /\ Depth \in 0..(Depth + 1) /\ Depth + 1 \in Nat
      BY <1>f, <3>1, WaitsAway
    <3>4. QED
      BY <1>f, <3>1, <3>2, <3>3, WaitsKeep
  <2>7. QED
    BY <1>g, <2>1, <2>4, <2>5, <2>6
<1>2. ASSUME NEW t, TryBegin(t) PROVE PlaceInv'
  <2>1. /\ Opens(frames, "except", {t}) /\ Statement /\ finished' = finished /\ used' = used
        /\ t \in Nat /\ run' = Take(run, {t})
    BY <1>2, Begins, Allocated DEF TryBegin
  <2>2. run' \in Run /\ run'.at = run.at
    BY <1>f, <2>1, RunTake
  <2>3. QED
    BY <1>g, <2>1, <2>2
<1>3. CASE FinallyBegin
  <2>1. Opens(frames, "finally", {}) /\ Statement /\ finished' = finished /\ used' = used /\ run' = run
    BY <1>3, Begins DEF FinallyBegin
  <2>2. QED
    BY <1>f, <1>g, <2>1
<1>4. QED
  BY <1>1, <1>2, <1>3

-----------------------------------------------------------------------------
(* What the longer actions do to the execution, by where it is.                     *)
LEMMA Tuples ==
    ASSUME NEW n \in Nat, n > 0
    PROVE  /\ \A g \in Groups, w \in Names :
                 /\ <<n, g, w>> \in Label /\ <<n, g, w>>[1] = n /\ <<n, g, w>>[2] = g /\ <<n, g, w>>[3] = w
                 /\ <<n, g, w>> # Here /\ <<n, g, w>> # Done
           /\ \A l \in Label : l[1] = n => \A g, w : l[2] = g /\ l[3] = w <=> l = <<n, g, w>>
           /\ \A l : l[1] < n => \A g, w : l # <<n, g, w>>
BY DEF Label, Here, Done

LEMMA ForElseRun ==
    ASSUME TempsInv, LabelType, LabelsInv, PlaceInv, ForElse
    PROVE  LET it == Top.temps
               C == <<Depth, "loop", "continue">>
               B == <<Depth, "loop", "break">>
               X == <<Depth, "for", "exhausted">>
               N == <<Depth, "for", "end">>
           IN /\ run' \in Run
              /\ run.at \in {Here, C, X} =>
                    \/ Is(run', Here, run.holds \ it, run.fault \/ ~ it \subseteq run.holds, run.gone \ it)
                       /\ Before(run, run')
                    \/ Is(run', labels["error"], run.holds, run.fault, run.gone \ it)
                       /\ Left(run, run', labels["error"], Depth)
              /\ run.at = B /\ B \in used =>
                    Is(run', N, run.holds \ it, run.fault \/ ~ it \subseteq run.holds, run.gone \ it)
                    /\ Before(run, run')
              /\ run.at \notin {Here, C, X} /\ ~(run.at = B /\ B \in used) =>
                    Is(run', run.at, run.holds, run.fault, run.gone \ it) /\ Before(run, run')
<1> DEFINE it == Top.temps
           C == <<Depth, "loop", "continue">>
           B == <<Depth, "loop", "break">>
           X == <<Depth, "for", "exhausted">>
           N == <<Depth, "for", "end">>
           E == <<Depth, "for", "else">>
           L == labels["error"]
           a1 == Reach(run, C)
           a == Reach(a1, X)
<1>1. /\ Top.node = "for" /\ Top.stage = "body" /\ Depth > 0 /\ Depth \in Nat /\ it \in SUBSET Nat
      /\ run \in Run /\ Top.labels \in Labelling
  BY Frames, PlaceFacts DEF ForElse, In, Frame
<1>2. labels["continue"] = C /\ labels["break"] = B
  BY <1>1, LabelsTop DEF Within, Labelling, Ways
<1>3. L \in Label /\ L[3] = "error"
  BY ErrorMarked DEF LabelOk
<1>4. /\ {C, B, X, N, E} \subseteq Label /\ C # Here /\ B # Here /\ X # Here /\ N # Here /\ E # Here
      /\ C[3] = "continue" /\ B[3] = "break" /\ X[3] = "exhausted" /\ N[3] = "end" /\ E[3] = "else"
  <2>1. {"loop", "for"} \subseteq Groups /\ {"continue", "break", "exhausted", "end", "else"} \subseteq Names
    BY DEF Groups, Names, Ways
  <2>2. QED
    BY <1>1, <2>1, Tuples
<1>5. L # Here /\ L # B /\ L # E
  <2>1. L # Here
    BY <1>3 DEF Here
  <2>2. QED
    BY <1>3, <1>4, <2>1
<1>6. PICK r \in {a, JumpTo(a, L)} :
         run' = Forget(Reach(Intercept(JumpTo(Clear(r, it), E), B, it, N), E), it)
  BY <1>2 DEF ForElse
<1> HIDE DEF C, B, X, N, E, L, it
<1>7. /\ a1 \in Run /\ a1.at = (IF run.at = C THEN Here ELSE run.at) /\ a1.holds = run.holds /\ a1.fault = run.fault
      /\ a1.gone = run.gone /\ a1.overridden = run.overridden
  BY <1>1, RunReach
<1> HIDE DEF a1
<1>8. /\ a \in Run /\ a.at = (IF run.at \in {Here, C, X} THEN Here ELSE run.at)
      /\ a.holds = run.holds /\ a.fault = run.fault
      /\ a.gone = run.gone /\ a.overridden = run.overridden
  BY <1>4, <1>7, RunReach
<1> HIDE DEF a
<1>9. r \in Run /\ r.holds = run.holds /\ r.fault = run.fault /\ r.gone = run.gone
      /\ \/ r.at = a.at /\ r.overridden = run.overridden
         \/ a.at = Here /\ r.at = L /\ Left(run, r, L, Depth)
  <2>1. CASE r = a
    BY <1>8, <2>1
  <2>2. CASE r = JumpTo(a, L)
    <3>1. Overrides(a, L, Depth) <=> Overrides(run, L, Depth)
      BY <1>8, OverridesGone
    <3>2. a.at = Here => Left(run, r, L, Depth)
      BY <1>3, <1>8, <2>2, <3>1, RunJump DEF Left
    <3>3. QED
      BY <1>3, <1>8, <2>2, <3>2, RunJump
  <2>3. QED
    BY <1>6, <2>1, <2>2
<1> DEFINE c == Clear(r, it)
           e == JumpTo(c, E)
           i == Intercept(e, B, it, N)
           f == Reach(i, E)
<1>10. /\ c \in Run /\ c.at = r.at /\ c.gone = r.gone /\ c.overridden = r.overridden /\ (r.at # Here => c = r)
       /\ r.at = Here => c.holds = r.holds \ it /\ (c.fault <=> (r.fault \/ ~ it \subseteq r.holds))
  BY <1>1, <1>9, RunClear DEF it
<1> HIDE DEF c
<1>11. /\ e \in Run /\ e.at = (IF r.at = Here THEN E ELSE r.at) /\ e.gone = run.gone /\ (r.at # Here => e = r)
       /\ e.holds = c.holds /\ e.fault = c.fault /\ Before(r, e)
  <2>1. /\ e \in Run /\ e.at = (IF c.at = Here THEN E ELSE c.at)
        /\ e.holds = c.holds /\ e.fault = c.fault /\ e.gone = c.gone
        /\ c.at # Here => e = c
        /\ Before(c, e)
    BY <1>4, <1>10, RunJump
  <2>2. QED
    BY <1>9, <1>10, <2>1 DEF Before
<1> HIDE DEF e
<1>12. /\ i \in Run /\ i.gone = run.gone
       /\ ~(e.at = B /\ B \in used) => i = e
       /\ e.at = B /\ B \in used => /\ i.at = N /\ i.holds = e.holds \ it
                                    /\ i.fault <=> (e.fault \/ ~ it \subseteq e.holds)
                                    /\ Before(e, i)
  <2>1. it \in SUBSET Nat /\ B \in Label /\ N \in Label
    BY <1>1, <1>4 DEF it
  <2>2. CASE B \in used
    <3>1. i = Pass(e, B, it, N)
      BY <2>2, RunIntercept
    <3>2. /\ i \in Run /\ i.gone = e.gone
          /\ e.at # B => i = e
          /\ e.at = B => i.at = N /\ Freed(e, i, it) /\ Left(e, i, N, Depth)
      BY <1>11, <2>1, <3>1, RunPass
    <3>3. QED
      BY <1>11, <2>2, <3>2 DEF Freed, Left, Before
  <2>3. CASE B \notin used
    BY <1>11, <2>3, RunIntercept
  <2>4. QED
    BY <2>2, <2>3
<1> HIDE DEF i
<1>13. /\ f \in Run /\ f.gone = run.gone /\ f.at = (IF i.at = E THEN Here ELSE i.at)
       /\ f.holds = i.holds /\ f.fault = i.fault /\ f.overridden = i.overridden
  BY <1>12, RunReach
<1> HIDE DEF f
<1>14. run' = Forget(f, it)
  BY <1>6 DEF f, i, e, c
<1>15. /\ run' \in Run /\ run'.gone = run.gone \ it /\ run'.at = (IF i.at = E THEN Here ELSE i.at)
       /\ run'.holds = i.holds /\ run'.fault = i.fault /\ run'.overridden = i.overridden
  BY <1>13, <1>14, RunForget
<1>16. CASE r.at = Here
  <2>1. e.at = E /\ i = e
    BY <1>4, <1>11, <1>12, <1>16
  <2>2. a.at = Here /\ run.at \in {Here, C, X} /\ Before(run, r)
    BY <1>5, <1>8, <1>9, <1>16 DEF Before
  <2>3. Is(run', Here, run.holds \ it, run.fault \/ ~ it \subseteq run.holds, run.gone \ it) /\ Before(run, run')
    BY <1>9, <1>10, <1>11, <1>15, <1>16, <2>1, <2>2 DEF Is, Before
  <2>4. run.at # B
    BY <1>4, <2>2
  <2>5. QED
    BY <1>15, <2>2, <2>3, <2>4 DEF C, B, X, N, it
<1>17. CASE r.at # Here /\ a.at = Here
  <2>1. r.at = L /\ e = r /\ i = e /\ Left(run, r, L, Depth)
    BY <1>5, <1>9, <1>11, <1>12, <1>17
  <2>2. run.at \in {Here, C, X} /\ run.at # B
    BY <1>4, <1>8, <1>17
  <2>3. Is(run', L, run.holds, run.fault, run.gone \ it) /\ Left(run, run', L, Depth)
    BY <1>5, <1>9, <1>15, <1>17, <2>1 DEF Is, Left
  <2>4. QED
    BY <1>15, <2>2, <2>3 DEF C, B, X, N, it, L
<1>18. CASE r.at # Here /\ a.at # Here
  <2>1. /\ r.at = run.at /\ run.at \notin {Here, C, X} /\ e = r /\ r.overridden = run.overridden
        /\ e.holds = run.holds /\ e.fault = run.fault
    BY <1>8, <1>9, <1>11, <1>18
  <2>2. run.at = E => run'.at = Here
    BY <1>4, <1>12, <1>15, <2>1
  <2>3. run.at # E
    <3>1. WaitsAt(frames, run.at, used, Depth)
      BY <2>1, PlaceFacts DEF ForElse, Statement
    <3>2. E[1] = Depth /\ E[2] = "for" /\ E[3] = "else" /\ ~Put(Top, "for", "else") /\ ~InternalOf(Top, "for", "else")
      BY <1>1 DEF E, Put, JumpOf, EarlierOf, InternalOf
    <3>3. QED
      BY <1>1, <3>1, <3>2, Frames, FunctionLabels DEF WaitsAt
  <2>4. CASE run.at = B /\ B \in used
    BY <1>4, <1>12, <1>15, <2>1, <2>4 DEF Is, Before, C, B, X, N, it
  <2>5. CASE ~(run.at = B /\ B \in used)
    BY <1>12, <1>15, <2>1, <2>3, <2>5 DEF Is, Before, C, B, X, N, it
  <2>6. QED
    BY <2>4, <2>5
<1>19. QED
  BY <1>16, <1>17, <1>18

(* A row of interceptors: each takes the execution from a label of the statement to    *)
(* the label of the same way around it.                                        *)
Sieve(r, s, A, T, old) ==
    /\ s \in Run /\ s.gone = r.gone
    /\ (r.at \in A /\ r.at \in used => /\ s.at = old[r.at[3]] /\ Freed(r, s, T)
                                       /\ Left(r, s, old[r.at[3]], Depth))
    /\ ~(r.at \in A /\ r.at \in used) => s = r
XSieve(r, s, A, T, old) ==
    /\ s \in Run /\ s.gone = r.gone
    /\ (r.at \in A /\ r.at \in used => /\ s.at = old[r.at[3]] /\ XFreed(r, s, T)
                                       /\ Left(r, s, old[r.at[3]], Depth))
    /\ ~(r.at \in A /\ r.at \in used) => s = r

LEMMA SieveFirst ==
    ASSUME NEW r \in Run, NEW T, NEW old
    PROVE  Sieve(r, r, {}, T, old) /\ XSieve(r, r, {}, T, old)
BY DEF Sieve, XSieve

LEMMA SieveNext ==
    ASSUME NEW r \in Run, NEW s, NEW A, NEW T \in SUBSET Nat, NEW old, Sieve(r, s, A, T, old),
           NEW l \in Label, NEW m \in Label,
           l \in used => m = old[l[3]] /\ \A a \in A : a \in used => old[a[3]] # l
    PROVE  Sieve(r, Intercept(s, l, T, m), A \cup {l}, T, old)
<1> DEFINE i == Intercept(s, l, T, m)
<1>1. CASE l \notin used
  <2>1. i = s
    BY <1>1, RunIntercept
  <2> HIDE DEF i
  <2>2. Sieve(r, i, A \cup {l}, T, old)
    BY <1>1, <2>1 DEF Sieve
  <2>3. QED
    BY <2>2 DEF i
<1>2. CASE l \in used
  <2>1. i = Pass(s, l, T, m) /\ s \in Run /\ s.gone = r.gone
    BY <1>2, RunIntercept DEF Sieve
  <2>2. /\ i \in Run /\ i.gone = s.gone
        /\ (s.at # l => i = s)
        /\ (s.at = l => i.at = m /\ Freed(s, i, T) /\ Left(s, i, m, Depth))
    <3>1. /\ Pass(s, l, T, m) \in Run /\ Pass(s, l, T, m).gone = s.gone
          /\ s.at # l => Pass(s, l, T, m) = s
          /\ s.at = l => /\ Pass(s, l, T, m).at = m /\ Freed(s, Pass(s, l, T, m), T)
                         /\ Left(s, Pass(s, l, T, m), m, Depth)
      BY <2>1, RunPass
    <3>2. QED
      BY <2>1, <3>1
  <2> HIDE DEF i
  <2>3. CASE r.at \in A /\ r.at \in used
    <3>1. s.at = old[r.at[3]] /\ s.at # l
      BY <1>2, <2>3 DEF Sieve
    <3>2. i = s
      BY <2>2, <3>1
    <3>3. Sieve(r, i, A \cup {l}, T, old)
      BY <2>3, <3>2 DEF Sieve
    <3>4. QED
      BY <3>3 DEF i
  <2>4. CASE ~(r.at \in A /\ r.at \in used)
    <3>1. s = r
      BY <2>4 DEF Sieve
    <3>2. Sieve(r, i, A \cup {l}, T, old)
      BY <1>2, <2>2, <2>4, <3>1 DEF Sieve
    <3>3. QED
      BY <3>2 DEF i
  <2>5. QED
    BY <2>3, <2>4
<1>3. QED
  BY <1>1, <1>2

LEMMA XSieveNext ==
    ASSUME NEW r \in Run, NEW s, NEW A, NEW T \in SUBSET Nat, NEW old, XSieve(r, s, A, T, old),
           NEW l \in Label, NEW m \in Label,
           l \in used => m = old[l[3]] /\ \A a \in A : a \in used => old[a[3]] # l
    PROVE  XSieve(r, XIntercept(s, l, T, m), A \cup {l}, T, old)
<1> DEFINE i == XIntercept(s, l, T, m)
<1>1. s \in Run /\ s.gone = r.gone
  BY DEF XSieve
<1>2. /\ i \in Run /\ i.gone = s.gone /\ (~(s.at = l /\ l \in used) => i = s)
      /\ s.at = l /\ l \in used => i.at = m /\ XFreed(s, i, T) /\ Left(s, i, m, Depth)
  BY <1>1, RunXIntercept
<1> HIDE DEF i
<1>3. CASE r.at \in A /\ r.at \in used
  <2>1. s.at = old[r.at[3]] /\ ~(s.at = l /\ l \in used)
    BY <1>3 DEF XSieve
  <2>2. i = s
    BY <1>2, <2>1
  <2>3. XSieve(r, i, A \cup {l}, T, old)
    BY <1>3, <2>2 DEF XSieve
  <2>4. QED
    BY <2>3 DEF i
<1>4. CASE ~(r.at \in A /\ r.at \in used)
  <2>1. s = r
    BY <1>4 DEF XSieve
  <2>2. XSieve(r, i, A \cup {l}, T, old)
    BY <1>2, <1>4, <2>1 DEF XSieve
  <2>3. QED
    BY <2>2 DEF i
<1>5. QED
  BY <1>3, <1>4

(* The labels around a statement are not its own.                                *)
LEMMA OldLabels ==
    ASSUME TempsInv, LabelType, LabelsInv, Depth > 0
    PROVE  /\ Depth \in Nat /\ Top.labels \in Labelling
           /\ \A w \in Ways : Top.labels[w] \in Label /\ Top.labels[w][1] < Depth
           /\ \A w \in Ways : Top.labels[w] # NoLabel => LabelOk(frames, Top.labels[w], w, Depth - 1)
           /\ \A w \in {"error", "return"} : Top.labels[w] # NoLabel
           /\ Looped(frames, Depth - 1) => Top.labels["break"] # NoLabel /\ Top.labels["continue"] # NoLabel
<1>1. Depth \in Nat /\ Top.labels \in Labelling /\ LabelsOk(frames, Top.labels, Depth - 1)
  BY Frames, LabelsTop DEF Frame
<1>2. ASSUME NEW w \in Ways PROVE Top.labels[w] \in Label /\ Top.labels[w][1] < Depth
  <2>1. Top.labels[w] = NoLabel \/ LabelOk(frames, Top.labels[w], w, Depth - 1)
    BY <1>1 DEF LabelsOk
  <2>2. CASE Top.labels[w] = NoLabel
    BY <1>1, <2>2, FunctionLabels DEF Labelling
  <2>3. CASE LabelOk(frames, Top.labels[w], w, Depth - 1)
    <3>1. Top.labels[w] = FunctionLabel(w) \/ Top.labels[w][1] \in 1..(Depth - 1)
      BY <2>3 DEF LabelOk
    <3>2. QED
      BY <1>1, <3>1, FunctionLabels DEF Labelling
  <2>4. QED
    BY <2>1, <2>2, <2>3
<1>3. QED
  BY <1>1, <1>2 DEF LabelsOk

LEMMA NoLabelUnused ==
    ASSUME PlaceInv
    PROVE  NoLabel \notin used
BY FunctionLabels DEF PlaceInv, UsedOk, UsedLabel

-----------------------------------------------------------------------------
(* The place of the execution when a statement goes on to its next part.            *)
LEMMA OldMarked ==
    ASSUME TempsInv, LabelType, LabelsInv, Depth > 0, NEW w \in Ways, Top.labels[w] # NoLabel,
           w \in Loops => Looped(frames, Depth - 1)
    PROVE  /\ Top.labels[w] \in Label /\ UsedLabel(frames, Top.labels[w], Depth - 1) /\ Top.labels[w][1] < Depth
           /\ \A U : Top.labels[w] \in U => WaitsAt(frames, Top.labels[w], U, Depth - 1)
<1>1. Depth - 1 \in Nat
  BY LabelsTop
<1>2. /\ LabelOk(frames, Top.labels[w], w, Depth - 1) /\ Top.labels[w] \in Label
      /\ Top.labels[w][1] < Depth
  BY OldLabels
<1>3. QED
  BY <1>1, <1>2, UsedJump, WaitsJump

LEMMA ErrorOld ==
    ASSUME TempsInv, LabelType, LabelsInv, Depth > 0, NEW w \in {"error", "return"}
    PROVE  /\ Top.labels[w] \in Label /\ UsedLabel(frames, Top.labels[w], Depth - 1) /\ Top.labels[w][1] < Depth
           /\ \A U : Top.labels[w] \in U => WaitsAt(frames, Top.labels[w], U, Depth - 1)
<1>1. w \in Ways /\ w \notin Loops /\ Top.labels[w] # NoLabel
  BY OldLabels DEF Ways, Loops
<1>2. QED
  BY <1>1, OldMarked

(* A loop around a statement that is none.                                       *)
LEMMA LoopAround ==
    ASSUME TempsInv, LabelType, LabelsInv, PlaceInv, Depth > 0, ~LoopBody(Top), Top.node # "for",
           NEW w \in Loops, NEW g, <<Depth, g, w>> \in used
    PROVE  Looped(frames, Depth - 1) /\ Top.labels[w] # NoLabel /\ Top.labels[w] \in Label
           /\ UsedLabel(frames, Top.labels[w], Depth - 1) /\ Top.labels[w][1] < Depth
           /\ \A U : Top.labels[w] \in U => WaitsAt(frames, Top.labels[w], U, Depth - 1)
<1> DEFINE u == <<Depth, g, w>>
           n == Depth
<1>1. n \in Nat /\ Top = frames[n] /\ UsedLabel(frames, u, n) /\ w \in Ways
  BY PlaceFacts DEF Loops, Ways
<1>2. u[1] = n /\ u[3] = w
  OBVIOUS
<1> HIDE DEF u
<1>3. Looped(frames, n)
  BY <1>1, <1>2 DEF UsedLabel
<1>4. PICK i \in 1..n : LoopBody(frames[i])
  BY <1>3 DEF Looped
<1>5. i \in 1..(n - 1)
  BY <1>1, <1>4
<1>6. Looped(frames, n - 1)
  BY <1>4, <1>5 DEF Looped
<1>7. Top.labels[w] # NoLabel
  BY <1>6, OldLabels DEF Loops
<1>8. QED
  BY <1>1, <1>6, <1>7, OldMarked

LEMMA WaitsBelow ==
    ASSUME TempsInv, NEW s, NEW T, NEW C, NEW W, TopGoes(s, T, C, W),
           NEW m \in Nat, NEW l \in Label, NEW U, WaitsAt(frames, l, U, m), l[1] < Depth, NEW V, l \in U => l \in V
    PROVE  WaitsAt(frames', l, V, Depth)
<1> DEFINE gs == frames'
           n == Depth
<1>1. n \in Nat \ {0} /\ \A i \in 1..(n - 1) : gs[i] = frames[i]
  BY Frames DEF TopGoes
<1>2. l[1] \in Nat /\ l[1] <= n - 1
  BY <1>1, Triple
<1> HIDE DEF gs
<1>3. Keeps(frames, gs, n - 1)
  BY <1>1, SameKeeps
<1>4. WaitsAt(gs, l, V, n)
  <2>1. n - 1 \in 0..n /\ n \in Nat
    BY <1>1
  <2> HIDE DEF n
  <2>2. QED
    BY <1>2, <1>3, <2>1, WaitsKeep
<1>5. QED
  BY <1>4 DEF gs

LEMMA WaitsOwn ==
    ASSUME TempsInv, NEW s, NEW T, NEW C, NEW W, TopGoes(s, T, C, W),
           NEW l, NEW V, l[1] = Depth,
           InternalOf(frames'[Depth], l[2], l[3]) \/ (Put(frames'[Depth], l[2], l[3]) /\ l \in V)
    PROVE  WaitsAt(frames', l, V, Depth)
<1>1. l[1] \in 1..Depth
  BY Frames DEF TopGoes
<1>2. QED
  BY <1>1 DEF WaitsAt

(* A label of the innermost statement at which the execution waits.                  *)
LEMMA WaitsTop ==
    ASSUME TempsInv, LabelType, PlaceInv, ~finished, Depth > 0, run.at # Here
    PROVE  /\ WaitsAt(frames, run.at, used, Depth) /\ run.at \in Label /\ run.at[1] <= Depth
           /\ run.at[1] = Depth =>
                 /\ run.at = <<Depth, run.at[2], run.at[3]>>
                 /\ InternalOf(Top, run.at[2], run.at[3]) \/ (Put(Top, run.at[2], run.at[3]) /\ run.at \in used)
<1>1. WaitsAt(frames, run.at, used, Depth) /\ run.at \in Label /\ Depth \in Nat /\ Top = frames[Depth]
  BY PlaceFacts DEF Run
<1>2. run.at[1] \in 0..Depth /\ run.at = <<run.at[1], run.at[2], run.at[3]>>
  BY <1>1, WaitsAway, Triple
<1>3. run.at[1] = Depth =>
         InternalOf(Top, run.at[2], run.at[3]) \/ (Put(Top, run.at[2], run.at[3]) /\ run.at \in used)
  BY <1>1, FunctionLabels DEF WaitsAt
<1>4. QED
  BY <1>1, <1>2, <1>3

(* The ways out that are left to a finally clause.                               *)
LEMMA WaysGo ==
    ASSUME TempsInv, LabelType, PlaceInv, NEW s, NEW T, NEW C, NEW W, TopGoes(s, T, C, W),
           Top.node = "finally" => W \subseteq Top.ways /\ (s \notin Loops \/ s \in Top.ways)
    PROVE  WaysOk(frames', Depth)
<1> DEFINE gs == frames'
           n == Depth
<1>1. /\ n \in Nat \ {0} /\ \A i \in 1..(n - 1) : gs[i] = frames[i]
      /\ gs[n].node = Top.node /\ gs[n].stage = s /\ gs[n].ways = W /\ Top = frames[n]
      /\ WaysOk(frames, n)
  BY Frames, PlaceFacts DEF TopGoes
<1> HIDE DEF gs, n
<1>2. ASSUME NEW w \in Loops, gs[n].node = "finally", w \in gs[n].ways \/ gs[n].stage = w
      PROVE  Looped(gs, n - 1)
  <2>1. w \in frames[n].ways /\ frames[n].node = "finally"
    BY <1>1, <1>2
  <2>2. Looped(frames, n - 1)
    BY <1>1, <2>1 DEF WaysOk
  <2>3. QED
    BY <1>1, <2>2 DEF Looped
<1>3. WaysOk(gs, n)
  BY <1>2 DEF WaysOk
<1>4. QED
  BY <1>3 DEF gs, n

LEMMA PlaceForElse ==
    ASSUME TempsInv, LabelType, LabelsInv, PlaceInv, ForElse
    PROVE  PlaceInv'
<1> DEFINE C == <<Depth, "loop", "continue">>
           B == <<Depth, "loop", "break">>
           X == <<Depth, "for", "exhausted">>
           N == <<Depth, "for", "end">>
           L == labels["error"]
<1>1. /\ Top.node = "for" /\ Top.stage = "body" /\ Depth > 0 /\ Depth \in Nat /\ ~finished /\ finished' = finished
      /\ TopGoes("else", {}, Top.clean, Top.ways) /\ used' = used \cup {L}
  BY Frames, MovesOn DEF ForElse, In, Statement
<1>2. labels["error"] = Top.labels["error"]
  BY <1>1, LabelsTop, FunctionLabels DEF Within, LabelType, Labelling, Ways, Frame
<1>3. /\ L \in Label /\ UsedLabel(frames, L, Depth - 1) /\ L[1] < Depth
      /\ WaitsAt(frames, L, used', Depth - 1)
  BY <1>1, <1>2, ErrorOld
<1>4. /\ run' \in Run /\ \/ run'.at = Here
                         \/ run'.at = L
                         \/ run'.at = N
                         \/ run'.at = run.at /\ run.at \notin {Here, C, X} /\ ~(run.at = B /\ B \in used)
  BY ForElseRun DEF Is
<1> HIDE DEF L
<1>5. CASE run'.at = L
  <2>1. Depth - 1 \in Nat
    BY <1>1
  <2>2. WaitsAt(frames', L, used', Depth)
    BY <1>1, <1>3, <2>1, WaitsBelow
  <2>3. QED
    BY <1>1, <1>3, <1>4, <1>5, <2>2, PlaceTop, WaysGo
<1>6. CASE run'.at = N
  <2>1. N[1] = Depth /\ N[2] = "for" /\ N[3] = "end"
    OBVIOUS
  <2>2. InternalOf(frames'[Depth], N[2], N[3])
    BY <1>1, <2>1 DEF InternalOf, TopGoes
  <2>3. WaitsAt(frames', N, used', Depth)
    BY <1>1, <2>1, <2>2, WaitsOwn
  <2>4. QED
    BY <1>1, <1>3, <1>4, <1>6, <2>3, PlaceTop, WaysGo
<1>7. CASE run'.at = run.at /\ run.at \notin {Here, C, X} /\ ~(run.at = B /\ B \in used)
  <2>1. /\ WaitsAt(frames, run.at, used, Depth) /\ run.at \in Label /\ run.at[1] <= Depth
        /\ run.at[1] = Depth =>
                 /\ run.at = <<Depth, run.at[2], run.at[3]>>
                 /\ InternalOf(Top, run.at[2], run.at[3]) \/ (Put(Top, run.at[2], run.at[3]) /\ run.at \in used)
    BY <1>1, <1>7, WaitsTop
  <2>2. run.at[1] # Depth
    <3>1. ASSUME run.at[1] = Depth PROVE FALSE
      <4>1. \/ run.at = X
            \/ (run.at = C \/ run.at = B) /\ run.at \in used
        BY <1>1, <2>1, <3>1 DEF InternalOf, Put, JumpOf, EarlierOf, Loops
      <4>2. QED
        BY <1>7, <4>1
    <3>2. QED
      BY <3>1
  <2>3. run.at[1] < Depth
    BY <1>1, <2>1, <2>2, Triple
  <2>4. run.at \in used => run.at \in used'
    BY <1>1
  <2>5. WaitsAt(frames', run.at, used', Depth)
    BY <1>1, <2>1, <2>3, <2>4, WaitsBelow
  <2>6. QED
    BY <1>1, <1>3, <1>4, <1>7, <2>5, PlaceTop, WaysGo
<1>8. CASE run'.at = Here
  BY <1>1, <1>3, <1>4, <1>8, PlaceTop, WaysGo
<1>9. QED
  BY <1>4, <1>5, <1>6, <1>7, <1>8

(* An execution that waits goes on to wait.                                      *)
LEMMA PlaceWaits ==
    ASSUME TempsInv, LabelType, LabelsInv, PlaceInv, NEW s, NEW T, NEW C, NEW W, TopGoes(s, T, C, W), s # "body",
           ~finished, finished' = finished, used \subseteq used',
           \A u \in used' : u \in used \/ (u \in Label /\ UsedLabel(frames, u, Depth - 1)),
           WaysOk(frames', Depth), run' \in Run, run'.at = run.at, run.at # Here,
           \A g, w : /\ run.at = <<Depth, g, w>>
                     /\ InternalOf(Top, g, w) \/ (Put(Top, g, w) /\ <<Depth, g, w>> \in used)
               => \/ InternalOf(frames'[Depth], g, w)
                  \/ Put(frames'[Depth], g, w) /\ <<Depth, g, w>> \in used
    PROVE  PlaceInv'
<1>1. /\ WaitsAt(frames, run.at, used, Depth) /\ run.at \in Label /\ run.at[1] <= Depth /\ Depth \in Nat /\ Depth > 0
      /\ run.at[1] = Depth =>
                 /\ run.at = <<Depth, run.at[2], run.at[3]>>
                 /\ InternalOf(Top, run.at[2], run.at[3]) \/ (Put(Top, run.at[2], run.at[3]) /\ run.at \in used)
  BY WaitsTop, Frames DEF TopGoes
<1>2. WaitsAt(frames', run.at, used', Depth)
  <2>1. CASE run.at[1] = Depth
    <3>1. \/ InternalOf(frames'[Depth], run.at[2], run.at[3])
          \/ Put(frames'[Depth], run.at[2], run.at[3]) /\ run.at \in used
      BY <1>1, <2>1
    <3>2. QED
      BY <2>1, <3>1, WaitsOwn
  <2>2. CASE run.at[1] < Depth
    <3>1. run.at \in used => run.at \in used'
      OBVIOUS
    <3>2. QED
      BY <1>1, <2>2, <3>1, WaitsBelow
  <2>3. QED
    BY <1>1, <2>1, <2>2, Triple
<1>3. QED
  BY <1>2, PlaceTop

LEMMA PlaceTryElse ==
    ASSUME TempsInv, LabelType, LabelsInv, PlaceInv, TryElse
    PROVE  PlaceInv'
<1>1. /\ Top.node = "except" /\ Top.stage = "body" /\ Depth > 0 /\ ~finished /\ finished' = finished
      /\ TopGoes("else", Top.temps, FreeManaged, Top.ways) /\ used' = used /\ run' = run /\ run \in Run
  BY Frames, MovesOn, PlaceFacts DEF TryElse, In, Statement
<1>2. frames'[Depth].node = "except" /\ frames'[Depth].stage = "else"
  BY <1>1 DEF TopGoes
<1>3. \A g, w : /\ InternalOf(Top, g, w) => InternalOf(frames'[Depth], g, w)
                /\ Put(Top, g, w) => Put(frames'[Depth], g, w)
  BY <1>1, <1>2 DEF InternalOf, Put, JumpOf, EarlierOf, Loops, Ways
<1>4. WaysOk(frames', Depth)
  BY <1>1, WaysGo
<1>5. CASE run.at = Here
  BY <1>1, <1>4, <1>5, PlaceTop
<1>6. CASE run.at # Here
  BY <1>1, <1>3, <1>4, <1>6, PlaceWaits
<1>7. QED
  BY <1>5, <1>6

LEMMA TryHandlersRun ==
    ASSUME TempsInv, LabelType, LabelsInv, PlaceInv, TryHandlers
    PROVE  LET E == <<Depth, "try", "error">>
               N == <<Depth, "try", "end">>
           IN /\ run' \in Run /\ N \in Label
              /\ run.at = Here => /\ Is(run', N, run.holds \ Top.temps, run.fault \/ ~ Top.temps \subseteq run.holds, run.gone)
                                  /\ Left(run, run', N, Depth)
              /\ run.at = E => /\ Is(run', Here, run.holds \ Top.clean, run.fault, run.gone)
                               /\ Before(run, run')
              /\ run.at \notin {Here, E} => run' = run
<1> DEFINE E == <<Depth, "try", "error">>
           N == <<Depth, "try", "end">>
           T == Top.temps
           c == Clear(run, T)
           j == JumpTo(c, N)
           h == Reach(j, E)
<1>1. Depth > 0 /\ Depth \in Nat /\ T \in SUBSET Nat /\ Top.clean \in SUBSET Nat /\ run \in Run
  BY Frames, PlaceFacts DEF TryHandlers, In
<1>2. N \in Label /\ N # Here /\ E # Here /\ N # E
  <2>1. "try" \in Groups /\ {"error", "end"} \subseteq Names
    BY DEF Groups, Names, Ways
  <2>2. N[3] = "end" /\ E[3] = "error"
    OBVIOUS
  <2>3. QED
    BY <1>1, <2>1, <2>2, Tuples
<1>3. run' = XClear(h, Top.clean)
  BY DEF TryHandlers
<1> HIDE DEF E, N, T
<1>4. /\ c \in Run /\ c.at = run.at /\ c.gone = run.gone /\ c.overridden = run.overridden /\ (run.at # Here => c = run)
      /\ run.at = Here => c.holds = run.holds \ T /\ (c.fault <=> (run.fault \/ ~ T \subseteq run.holds))
  BY <1>1, RunClear
<1> HIDE DEF c
<1>5. /\ j \in Run /\ j.gone = c.gone /\ j.holds = c.holds /\ j.fault = c.fault /\ (c.at # Here => j = c)
      /\ c.at = Here => j.at = N /\ Left(c, j, N, Depth)
  BY <1>2, <1>4, RunJump
<1> HIDE DEF j
<1>6. /\ h \in Run /\ h.gone = j.gone /\ h.holds = j.holds /\ h.fault = j.fault /\ h.overridden = j.overridden
      /\ h.at = (IF j.at = E THEN Here ELSE j.at) /\ (j.at # E => h = j)
  BY <1>5, RunReach
<1> HIDE DEF h
<1>7. /\ run' \in Run /\ run'.at = h.at /\ run'.gone = h.gone /\ run'.overridden = h.overridden
      /\ h.at # Here => run' = h
      /\ h.at = Here => run'.holds = h.holds \ Top.clean /\ run'.fault = h.fault
  BY <1>1, <1>3, <1>6, RunXClear
<1>8. CASE run.at = Here
  <2>1. Overrides(c, N, Depth) <=> Overrides(run, N, Depth)
    BY <1>4, OverridesGone
  <2>2. c.at = Here /\ j.at = N /\ h = j /\ h.at # Here /\ run' = h /\ Left(run, run', N, Depth)
    BY <1>2, <1>4, <1>5, <1>6, <1>7, <1>8, <2>1 DEF Left
  <2>3. Is(run', N, run.holds \ T, run.fault \/ ~ T \subseteq run.holds, run.gone)
    BY <1>4, <1>5, <1>8, <2>2 DEF Is
  <2>4. QED
    BY <1>2, <1>7, <1>8, <2>2, <2>3 DEF N, E, T
<1>9. CASE run.at # Here
  <2>1. c = run /\ j = c
    BY <1>4, <1>5, <1>9
  <2>2. CASE run.at = E
    <3>1. Is(run', Here, run.holds \ Top.clean, run.fault, run.gone) /\ Before(run, run')
      BY <1>6, <1>7, <2>1, <2>2 DEF Is, Before
    <3>2. QED
      BY <1>2, <1>7, <1>9, <2>2, <3>1 DEF N, E, T
  <2>3. CASE run.at # E
    BY <1>2, <1>6, <1>7, <1>9, <2>1, <2>3 DEF N, E, T
  <2>4. QED
    BY <2>2, <2>3
<1>10. QED
  BY <1>8, <1>9

LEMMA PlaceTryHandlers ==
    ASSUME TempsInv, LabelType, LabelsInv, PlaceInv, TryHandlers
    PROVE  PlaceInv'
<1> DEFINE E == <<Depth, "try", "error">>
           N == <<Depth, "try", "end">>
<1>1. /\ Top.node = "except" /\ Top.stage = "else" /\ Depth > 0 /\ ~finished /\ finished' = finished
      /\ TopGoes("handlers", Top.temps, Top.clean, Top.ways) /\ used' = used
  BY Frames, MovesOn DEF TryHandlers, In, Statement
<1>2. frames'[Depth].node = "except" /\ frames'[Depth].stage = "handlers"
  BY <1>1 DEF TopGoes
<1>3. WaysOk(frames', Depth)
  BY <1>1, WaysGo
<1>4. /\ run' \in Run /\ (run.at = Here => run'.at = N) /\ (run.at = E => run'.at = Here)
      /\ run.at \notin {Here, E} => run' = run
  BY TryHandlersRun DEF Is
<1>5. CASE run'.at = N
  <2>1. N[1] = Depth /\ N[2] = "try" /\ N[3] = "end"
    OBVIOUS
  <2>2. InternalOf(frames'[Depth], N[2], N[3])
    BY <1>2, <2>1 DEF InternalOf
  <2>3. WaitsAt(frames', N, used', Depth)
    BY <1>1, <2>1, <2>2, WaitsOwn
  <2>4. QED
    BY <1>1, <1>3, <1>4, <1>5, <2>3, PlaceTop
<1>6. CASE run'.at = Here
  BY <1>1, <1>3, <1>4, <1>6, PlaceTop
<1>7. CASE run.at \notin {Here, E}
  <2>1. \A g, w : /\ run.at = <<Depth, g, w>>
                  /\ InternalOf(Top, g, w) \/ (Put(Top, g, w) /\ <<Depth, g, w>> \in used)
               => \/ InternalOf(frames'[Depth], g, w)
                  \/ Put(frames'[Depth], g, w) /\ <<Depth, g, w>> \in used
    BY <1>1, <1>2, <1>7 DEF InternalOf, Put, JumpOf, EarlierOf, Loops, Ways
  <2>2. QED
    BY <1>1, <1>3, <1>4, <1>7, <2>1, PlaceWaits
<1>8. QED
  BY <1>4, <1>5, <1>6, <1>7

LEMMA FinallyNormalEndRun ==
    ASSUME TempsInv, LabelType, LabelsInv, PlaceInv, FinallyNormalEnd
    PROVE  LET K == <<Depth, "finally", "catch">>
           IN /\ run' \in Run /\ K \in Label
              /\ run.at = Here => /\ Is(run', K, run.holds, run.fault, run.gone)
                                  /\ Left(run, run', K, Depth)
              /\ run.at # Here => run' = run
<1> DEFINE K == <<Depth, "finally", "catch">>
<1>1. Depth > 0 /\ Depth \in Nat /\ run \in Run /\ run' = JumpTo(run, K)
  BY Frames, PlaceFacts DEF FinallyNormalEnd, In
<1>2. K \in Label
  <2>1. "finally" \in Groups /\ "catch" \in Names
    BY DEF Groups, Names
  <2>2. QED
    BY <1>1, <2>1, Tuples
<1> HIDE DEF K
<1>3. /\ run' \in Run /\ run'.gone = run.gone /\ run'.holds = run.holds /\ run'.fault = run.fault
      /\ run.at = Here => run'.at = K /\ Left(run, run', K, Depth)
      /\ run.at # Here => run' = run
  BY <1>1, <1>2, RunJump
<1>4. run.at = Here => Is(run', K, run.holds, run.fault, run.gone)
  BY <1>3 DEF Is
<1>5. QED
  BY <1>2, <1>3, <1>4 DEF K

LEMMA PlaceFinallyNormalEnd ==
    ASSUME TempsInv, LabelType, LabelsInv, PlaceInv, FinallyNormalEnd
    PROVE  PlaceInv'
<1> DEFINE K == <<Depth, "finally", "catch">>
<1>1. /\ Top.node = "finally" /\ Top.stage = "normal" /\ Depth > 0 /\ ~finished /\ finished' = finished
      /\ TopGoes("ways", Top.temps, Top.clean, Top.ways) /\ used' = used
  BY Frames, MovesOn DEF FinallyNormalEnd, In, Statement
<1>2. frames'[Depth].node = "finally" /\ frames'[Depth].stage = "ways" /\ frames'[Depth].ways = Top.ways
  BY <1>1 DEF TopGoes
<1>3. WaysOk(frames', Depth)
  <2>1. "ways" \notin Loops
    BY DEF Loops
  <2>2. QED
    BY <1>1, <2>1, WaysGo
<1>4. run' \in Run /\ (run.at = Here => run'.at = K) /\ (run.at # Here => run' = run)
  BY FinallyNormalEndRun DEF Is
<1>5. CASE run.at = Here
  <2>1. K[1] = Depth /\ K[2] = "finally" /\ K[3] = "catch"
    OBVIOUS
  <2>2. InternalOf(frames'[Depth], K[2], K[3])
    BY <1>2, <2>1 DEF InternalOf
  <2>3. WaitsAt(frames', K, used', Depth)
    BY <1>1, <2>1, <2>2, WaitsOwn
  <2>4. QED
    BY <1>1, <1>3, <1>4, <1>5, <2>3, PlaceTop
<1>6. CASE run.at # Here
  <2>1. \A g, w : /\ run.at = <<Depth, g, w>>
                  /\ InternalOf(Top, g, w) \/ (Put(Top, g, w) /\ <<Depth, g, w>> \in used)
               => \/ InternalOf(frames'[Depth], g, w)
                  \/ Put(frames'[Depth], g, w) /\ <<Depth, g, w>> \in used
    BY <1>1, <1>2 DEF InternalOf, Put, JumpOf, EarlierOf
  <2>2. QED
    BY <1>1, <1>3, <1>4, <1>6, <2>1, PlaceWaits
<1>7. QED
  BY <1>5, <1>6

(* A label of all_new_labels() that is used.                                      *)
LEMMA NewUsed ==
    ASSUME TempsInv, LabelType, LabelsInv, PlaceInv, Depth > 0, NEW g, labels = NewLabels(Top.labels, g, Depth),
           NEW w \in Ways
    PROVE  /\ labels[w] \in used => labels[w] = <<Depth, g, w>> /\ Top.labels[w] # NoLabel
           /\ Top.node # "for" /\ <<Depth, g, w>> \in used => labels[w] = <<Depth, g, w>> /\ Top.labels[w] # NoLabel
<1>1. labels[w] = (IF Top.labels[w] = NoLabel THEN NoLabel ELSE <<Depth, g, w>>)
  BY DEF NewLabels
<1>2. labels[w] \in used => Top.labels[w] # NoLabel
  BY <1>1, NoLabelUnused
<1>3. ASSUME Top.node # "for", <<Depth, g, w>> \in used PROVE Top.labels[w] # NoLabel
  <2>1. CASE w \in Loops
    BY <1>3, <2>1, LoopAround DEF LoopBody
  <2>2. CASE w \in {"error", "return"}
    BY <2>2, OldLabels
  <2>3. QED
    BY <2>1, <2>2 DEF Ways, Loops
<1>4. QED
  BY <1>1, <1>2, <1>3

LEMMA PlaceFinallyNormal ==
    ASSUME TempsInv, LabelType, LabelsInv, PlaceInv, FinallyNormal
    PROVE  PlaceInv'
<1> DEFINE W == {w \in Ways : labels[w] \in used}
<1>1. /\ Top.node = "finally" /\ Top.stage = "body" /\ Depth > 0 /\ ~finished /\ finished' = finished
      /\ TopGoes("normal", Top.temps, FreeManaged, W) /\ used' = used /\ run' = run /\ run \in Run
  BY Frames, MovesOn, PlaceFacts DEF FinallyNormal, In, Statement
<1>2. frames'[Depth].node = "finally" /\ frames'[Depth].stage = "normal" /\ frames'[Depth].ways = W
  BY <1>1 DEF TopGoes
<1>3. labels = NewLabels(Top.labels, "finally", Depth)
  BY <1>1, LabelsTop DEF Within
<1>4. ASSUME NEW w \in Ways PROVE w \in W <=> <<Depth, "finally", w>> \in used
  BY <1>1, <1>3, NewUsed
<1>5. WaysOk(frames', Depth)
  <2>1. ASSUME NEW w \in Loops, w \in frames'[Depth].ways \/ frames'[Depth].stage = w PROVE Looped(frames', Depth - 1)
    <3>1. w \in W
      BY <1>2, <2>1 DEF Loops
    <3>2. Looped(frames, Depth - 1)
      BY <1>1, <1>4, <3>1, LoopAround DEF LoopBody
    <3>3. \A i \in 1..(Depth - 1) : frames'[i] = frames[i]
      BY <1>1 DEF TopGoes
    <3>4. QED
      BY <3>2, <3>3 DEF Looped
  <2>2. QED
    BY <2>1 DEF WaysOk
<1>6. CASE run.at = Here
  BY <1>1, <1>5, <1>6, PlaceTop
<1>7. CASE run.at # Here
  <2>1. ASSUME NEW g, NEW w, InternalOf(Top, g, w) \/ (Put(Top, g, w) /\ <<Depth, g, w>> \in used)
        PROVE  Put(frames'[Depth], g, w) /\ <<Depth, g, w>> \in used
    <3>1. g = "finally" /\ w \in Ways /\ <<Depth, g, w>> \in used
      BY <1>1, <2>1 DEF InternalOf, Put, JumpOf, EarlierOf
    <3>2. w \in W
      BY <1>4, <3>1
    <3>3. QED
      BY <1>2, <3>1, <3>2 DEF Put, EarlierOf
  <2>2. QED
    BY <1>1, <1>5, <1>7, <2>1, PlaceWaits
<1>8. QED
  BY <1>6, <1>7

-----------------------------------------------------------------------------
(* The copies of a finally clause begin where the execution has come to its label ...   *)
CopyRun(l, T, C) ==
    /\ run' \in Run
    /\ run.at = l => /\ run'.at = Here /\ run'.gone = run.gone /\ Before(run, run')
                     /\ run'.holds = (run.holds \ C) \cup T
                     /\ run'.fault <=> (run.fault \/ T \cap (run.holds \ C) # {})
    /\ run.at # l => run' = run

LEMMA FinallyExceptRun ==
    ASSUME TempsInv, LabelType, LabelsInv, PlaceInv, NEW t, FinallyExcept(t)
    PROVE  CopyRun(<<Depth, "finally", "error">>, {t}, Top.clean)
<1> DEFINE E == <<Depth, "finally", "error">>
           h == Reach(run, E)
           x == XClear(h, Top.clean)
<1>1. /\ Depth > 0 /\ Depth \in Nat /\ run \in Run /\ run.at # Here /\ {t} \in SUBSET Nat
      /\ Top.clean \in SUBSET Nat /\ run' = Take(x, {t})
  BY Frames, PlaceFacts, Allocated, KindAssumption DEF FinallyExcept, In
<1> HIDE DEF E
<1>2. /\ h \in Run /\ h.gone = run.gone /\ h.holds = run.holds /\ h.fault = run.fault /\ h.overridden = run.overridden
      /\ h.at = (IF run.at = E THEN Here ELSE run.at) /\ (run.at # E => h = run)
  BY <1>1, RunReach
<1> HIDE DEF h
<1>3. /\ x \in Run /\ x.at = h.at /\ x.gone = h.gone /\ x.overridden = h.overridden
      /\ h.at # Here => x = h
      /\ h.at = Here => x.holds = h.holds \ Top.clean /\ x.fault = h.fault
  BY <1>1, <1>2, RunXClear
<1> HIDE DEF x
<1> DEFINE k == Take(x, {t})
<1>4. /\ k \in Run /\ k.at = x.at /\ k.gone = x.gone /\ k.overridden = x.overridden
      /\ x.at # Here => k = x
      /\ x.at = Here => k.holds = x.holds \cup {t} /\ (k.fault <=> (x.fault \/ {t} \cap x.holds # {}))
  BY <1>1, <1>3, RunTake
<1> HIDE DEF k
<1>5. CASE run.at = E
  <2>1. h.at = Here /\ x.at = Here /\ k.at = Here /\ k.gone = run.gone /\ Before(run, k)
    BY <1>2, <1>3, <1>4, <1>5 DEF Before
  <2>2. x.holds = run.holds \ Top.clean /\ x.fault = run.fault
    BY <1>2, <1>3, <2>1
  <2>3. k.holds = (run.holds \ Top.clean) \cup {t} /\ (k.fault <=> (run.fault \/ {t} \cap (run.holds \ Top.clean) # {}))
    BY <1>4, <2>1, <2>2
  <2>4. run' = k
    BY <1>1 DEF k
  <2>5. QED
    BY <1>4, <1>5, <2>1, <2>3, <2>4 DEF CopyRun, E
<1>6. CASE run.at # E
  <2>1. k = run
    BY <1>1, <1>2, <1>3, <1>4, <1>6
  <2>2. run' = k
    BY <1>1 DEF k
  <2>3. QED
    BY <1>1, <1>6, <2>1, <2>2 DEF CopyRun, E
<1>7. QED
  BY <1>5, <1>6

LEMMA FinallyWayRun ==
    ASSUME TempsInv, LabelType, LabelsInv, PlaceInv, NEW way, NEW T, FinallyWay(way, T)
    PROVE  CopyRun(<<Depth, "finally", way>>, T, {})
<1> DEFINE E == <<Depth, "finally", way>>
           h == Reach(run, E)
           k == Take(h, T)
<1>0. T \in SUBSET Nat
  <2>1. CASE way = "return"
    <3>1. PICK t \in T : AllocateTemp(t, Plain) /\ T = {t}
      BY <2>1 DEF FinallyWay
    <3>2. t \in Nat
      BY <3>1, Allocated
    <3>3. QED
      BY <3>1, <3>2
  <2>2. CASE way # "return"
    BY <2>2 DEF FinallyWay
  <2>3. QED
    BY <2>1, <2>2
<1>1. /\ Depth > 0 /\ Depth \in Nat /\ run \in Run /\ run.at # Here
      /\ run' = Take(h, T)
  BY Frames, PlaceFacts DEF FinallyWay, In
<1> HIDE DEF E
<1>2. /\ h \in Run /\ h.gone = run.gone /\ h.holds = run.holds /\ h.fault = run.fault /\ h.overridden = run.overridden
      /\ h.at = (IF run.at = E THEN Here ELSE run.at) /\ (run.at # E => h = run)
  BY <1>1, RunReach
<1> HIDE DEF h
<1>4. /\ k \in Run /\ k.at = h.at /\ k.gone = h.gone /\ k.overridden = h.overridden
      /\ h.at # Here => k = h
      /\ h.at = Here => k.holds = h.holds \cup T /\ (k.fault <=> (h.fault \/ T \cap h.holds # {}))
  BY <1>0, <1>1, <1>2, RunTake
<1> HIDE DEF k
<1>5. run' = k
  BY <1>1 DEF k
<1>6. CASE run.at = E
  <2>1. h.at = Here /\ k.at = Here /\ k.gone = run.gone /\ Before(run, k)
    BY <1>2, <1>4, <1>6 DEF Before
  <2>2. k.holds = (run.holds \ {}) \cup T /\ (k.fault <=> (run.fault \/ T \cap (run.holds \ {}) # {}))
    BY <1>2, <1>4, <2>1
  <2>3. QED
    BY <1>4, <1>5, <1>6, <2>1, <2>2 DEF CopyRun, E
<1>7. CASE run.at # E
  <2>1. k = run
    BY <1>1, <1>2, <1>4, <1>7
  <2>2. QED
    BY <1>1, <1>5, <1>7, <2>1 DEF CopyRun, E
<1>8. QED
  BY <1>6, <1>7

LEMMA PlaceCopy ==
    ASSUME TempsInv, LabelType, LabelsInv, PlaceInv,
           \/ \E t : FinallyExcept(t)
           \/ \E way \in {"return", "break", "continue"} : \E T : FinallyWay(way, T)
    PROVE  PlaceInv'
<1>g. ASSUME NEW w \in Ways, NEW s \in {"except", "return", "break", "continue"}, NEW T, NEW C,
             TopGoes(s, T, Top.clean, Top.ways \ {w}), CopyRun(<<Depth, "finally", w>>, T, C),
             s \in Loops => s \in Top.ways,
             In("finally", "ways"), ~finished, finished' = finished, used' = used
      PROVE  PlaceInv'
  <2>1. /\ Top.node = "finally" /\ Top.stage = "ways" /\ Depth > 0 /\ ~finished /\ s # "body"
    BY <1>g, Frames, PlaceFacts DEF In
  <2>2. frames'[Depth].node = "finally" /\ frames'[Depth].stage = s /\ frames'[Depth].ways = Top.ways \ {w}
    BY <1>g, <2>1 DEF TopGoes
  <2>3. WaysOk(frames', Depth)
    BY <1>g, WaysGo
  <2>4. /\ run' \in Run /\ run.at # Here
        /\ run.at = <<Depth, "finally", w>> => run'.at = Here
        /\ run.at # <<Depth, "finally", w>> => run'.at = run.at
    BY <1>g, <2>1, PlaceFacts DEF CopyRun
  <2>5. CASE run.at = <<Depth, "finally", w>>
    <3>1. run'.at = Here /\ ~(Top.node = "finally" /\ s = "ways")
      BY <2>4, <2>5
    <3>2. QED
      BY <1>g, <2>1, <2>3, <2>4, <3>1, PlaceTop
  <2>6. CASE run.at # <<Depth, "finally", w>>
    <3>1. ASSUME NEW g, NEW x, run.at = <<Depth, g, x>>,
                 InternalOf(Top, g, x) \/ (Put(Top, g, x) /\ <<Depth, g, x>> \in used)
          PROVE  \/ InternalOf(frames'[Depth], g, x)
                 \/ Put(frames'[Depth], g, x) /\ <<Depth, g, x>> \in used
      <4>1. s \notin {"body", "normal"}
        OBVIOUS
      <4>2. CASE InternalOf(Top, g, x)
        BY <2>1, <2>2, <4>1, <4>2 DEF InternalOf
      <4>3. CASE Put(Top, g, x) /\ <<Depth, g, x>> \in used
        <5>1. g = "finally" /\ x \in Top.ways
          BY <2>1, <4>3 DEF Put, JumpOf, EarlierOf
        <5>2. x # w
          BY <2>6, <3>1, <5>1
        <5>3. QED
          BY <2>2, <4>1, <4>3, <5>1, <5>2 DEF Put, EarlierOf
      <4>4. QED
        BY <3>1, <4>2, <4>3
    <3>2. QED
      BY <1>g, <2>1, <2>3, <2>4, <2>6, <3>1, PlaceWaits
  <2>7. QED
    BY <2>5, <2>6
<1>1. ASSUME NEW t, FinallyExcept(t) PROVE PlaceInv'
  <2>1. /\ TopGoes("except", {t}, Top.clean, Top.ways \ {"error"}) /\ In("finally", "ways")
        /\ ~finished /\ UNCHANGED <<finished, used>>
    BY <1>1, MovesOn DEF FinallyExcept
  <2>2. CopyRun(<<Depth, "finally", "error">>, {t}, Top.clean)
    BY <1>1, FinallyExceptRun
  <2>3. "error" \in Ways /\ "except" \notin Loops
    BY DEF Ways, Loops
  <2>4. QED
    BY <1>g, <2>1, <2>2, <2>3
<1>2. ASSUME NEW way \in {"return", "break", "continue"}, NEW T, FinallyWay(way, T) PROVE PlaceInv'
  <2>1. /\ TopGoes(way, T, Top.clean, Top.ways \ {way}) /\ In("finally", "ways") /\ way \in Top.ways
        /\ ~finished /\ UNCHANGED <<finished, used>>
    BY <1>2, MovesOn DEF FinallyWay
  <2>2. CopyRun(<<Depth, "finally", way>>, T, {})
    BY <1>2, FinallyWayRun
  <2>3. way \in Ways
    BY DEF Ways
  <2>4. QED
    BY <1>g, <2>1, <2>2, <2>3
<1>3. QED
  BY <1>1, <1>2

(* ... and end on the way that they are for.                                     *)
LEMMA FinallyWayEndRun ==
    ASSUME TempsInv, LabelType, LabelsInv, PlaceInv, NEW way \in {"return", "break", "continue"}, FinallyWayEnd(way)
    PROVE  LET l == Top.labels[way]
           IN /\ run' \in Run /\ labels = Top.labels
              /\ run.at = Here =>
                    /\ Is(run', l, run.holds \ Top.temps, run.fault \/ ~ Top.temps \subseteq run.holds, run.gone)
                    /\ Left(run, run', l, Depth - 1)
              /\ run.at # Here => run' = run
<1> DEFINE l == Top.labels[way]
           T == Top.temps
           c == Clear(run, T)
<1>1. /\ Depth > 0 /\ Depth \in Nat /\ run \in Run /\ T \in SUBSET Nat
      /\ Top.node = "finally" /\ Top.stage = way
  BY Frames, PlaceFacts DEF FinallyWayEnd, In
<1>2. labels = Top.labels
  BY <1>1, LabelsTop DEF Within
<1>3. run' = Leave(c, l, Depth - 1) /\ l \in Label
  BY <1>1, <1>2, PlaceFacts DEF FinallyWayEnd, Ways
<1> HIDE DEF l, T
<1>4. /\ c \in Run /\ c.at = run.at /\ c.gone = run.gone /\ c.overridden = run.overridden /\ (run.at # Here => c = run)
      /\ run.at = Here => c.holds = run.holds \ T /\ (c.fault <=> (run.fault \/ ~ T \subseteq run.holds))
  BY <1>1, RunClear
<1> HIDE DEF c
<1>5. /\ run' \in Run /\ run'.gone = c.gone /\ run'.holds = c.holds /\ run'.fault = c.fault
      /\ c.at # Here => run' = c
      /\ c.at = Here => run'.at = l /\ Left(c, run', l, Depth - 1)
  BY <1>3, <1>4, RunLeave
<1>6. CASE run.at = Here
  <2>1. Overrides(c, l, Depth - 1) <=> Overrides(run, l, Depth - 1)
    BY <1>4, OverridesGone
  <2>2. Left(run, run', l, Depth - 1)
    BY <1>4, <1>5, <1>6, <2>1 DEF Left
  <2>3. Is(run', l, run.holds \ T, run.fault \/ ~ T \subseteq run.holds, run.gone)
    BY <1>4, <1>5, <1>6 DEF Is
  <2>4. QED
    BY <1>2, <1>5, <1>6, <2>2, <2>3 DEF l, T
<1>7. CASE run.at # Here
  BY <1>2, <1>4, <1>5, <1>7 DEF l, T
<1>8. QED
  BY <1>6, <1>7

LEMMA PlaceFinallyWayEnd ==
    ASSUME TempsInv, LabelType, LabelsInv, PlaceInv, NEW way \in {"return", "break", "continue"}, FinallyWayEnd(way)
    PROVE  PlaceInv'
<1> DEFINE l == Top.labels[way]
<1>1. /\ Top.node = "finally" /\ Top.stage = way /\ Depth > 0 /\ Depth \in Nat /\ ~finished /\ finished' = finished
      /\ TopGoes("ways", {}, Top.clean, Top.ways) /\ used' = used \cup {labels[way]} /\ Top = frames[Depth]
  BY Frames, MovesOn DEF FinallyWayEnd, In, Statement
<1>2. frames'[Depth].node = "finally" /\ frames'[Depth].stage = "ways" /\ frames'[Depth].ways = Top.ways
  BY <1>1 DEF TopGoes
<1>3. /\ run' \in Run /\ labels = Top.labels
      /\ run.at = Here => run'.at = l
      /\ run.at # Here => run' = run
  BY FinallyWayEndRun DEF Is
<1>4. l \in Label /\ UsedLabel(frames, l, Depth - 1) /\ l[1] < Depth /\ WaitsAt(frames, l, used', Depth - 1)
  <2>1. l \in used'
    BY <1>1, <1>3
  <2>2. CASE way = "return"
    BY <1>1, <2>1, <2>2, ErrorOld
  <2>3. CASE way \in Loops
    <3>1. WaysOk(frames, Depth)
      BY <1>1, PlaceFacts
    <3>2. Looped(frames, Depth - 1)
      BY <1>1, <2>3, <3>1 DEF WaysOk
    <3>3. way \in Ways /\ Top.labels[way] # NoLabel
      BY <1>1, <2>3, <3>2, OldLabels DEF Loops, Ways
    <3>4. QED
      BY <1>1, <2>1, <2>3, <3>2, <3>3, OldMarked
  <2>4. QED
    BY <2>2, <2>3 DEF Loops
<1>5. WaysOk(frames', Depth)
  <2>1. "ways" \notin Loops
    BY DEF Loops
  <2>2. QED
    BY <1>1, <2>1, WaysGo
<1>6. used \subseteq used' /\ \A u \in used' : u \in used \/ (u \in Label /\ UsedLabel(frames, u, Depth - 1))
  BY <1>1, <1>3, <1>4
<1> HIDE DEF l
<1>7. CASE run.at = Here
  <2>1. Depth - 1 \in Nat
    BY <1>1
  <2>2. WaitsAt(frames', l, used', Depth)
    BY <1>1, <1>4, <2>1, WaitsBelow
  <2>3. QED
    BY <1>1, <1>3, <1>5, <1>6, <1>7, <2>2, PlaceTop
<1>8. CASE run.at # Here
  <2>1. \A g, w : /\ run.at = <<Depth, g, w>>
                  /\ InternalOf(Top, g, w) \/ (Put(Top, g, w) /\ <<Depth, g, w>> \in used)
               => \/ InternalOf(frames'[Depth], g, w)
                  \/ Put(frames'[Depth], g, w) /\ <<Depth, g, w>> \in used
    <3>1. ASSUME NEW g, NEW w, InternalOf(Top, g, w) PROVE InternalOf(frames'[Depth], g, w)
      BY <1>1, <1>2, <3>1 DEF InternalOf
    <3>2. ASSUME NEW g, NEW w, Put(Top, g, w) PROVE Put(frames'[Depth], g, w)
      <4>1. EarlierOf(Top, g, w)
        BY <1>1, <3>2 DEF Put, JumpOf
      <4>2. EarlierOf(frames'[Depth], g, w)
        BY <1>1, <1>2, <4>1 DEF EarlierOf
      <4>3. QED
        BY <4>2 DEF Put
    <3>3. QED
      BY <3>1, <3>2
  <2>2. QED
    BY <1>1, <1>3, <1>5, <1>6, <1>8, <2>1, PlaceWaits
<1>9. QED
  BY <1>7, <1>8

-----------------------------------------------------------------------------
(* The interceptors of a statement, for the labels of its own.                       *)
OwnOnes(A) == \A a \in A : a \in used => a[1] = Depth /\ a[3] \in Ways

LEMMA OldAway ==
    ASSUME TempsInv, LabelType, LabelsInv, Depth > 0, NEW w \in Ways
    PROVE  /\ Top.labels[w] # Here /\ Top.labels[w] \in Label /\ Top.labels[w][1] < Depth
           /\ \A g, x : Top.labels[w] # <<Depth, g, x>>
<1>1. Top.labels[w] \in Label /\ Top.labels[w][1] < Depth /\ Depth \in Nat
      /\ (Top.labels[w] = NoLabel \/ Top.labels[w][3] = w)
  BY OldLabels DEF LabelOk
<1>2. Top.labels[w] # Here
  BY <1>1 DEF NoLabel, Here, Ways
<1>3. Top.labels[w][1] # Depth
  <2>1. Top.labels[w][1] \in Nat
    BY <1>1, Triple
  <2>2. QED
    BY <1>1, <2>1
<1>4. ASSUME NEW g, NEW x, Top.labels[w] = <<Depth, g, x>> PROVE FALSE
  BY <1>3, <1>4
<1>5. QED
  BY <1>1, <1>2, <1>4

LEMMA OwnNext ==
    ASSUME TempsInv, LabelType, LabelsInv, Depth > 0, NEW A, OwnOnes(A),
           NEW w \in Ways, NEW l \in Label, l \in used => l[1] = Depth /\ l[3] = w
    PROVE  /\ OwnOnes(A \cup {l})
           /\ l \in used => /\ Top.labels[w] = Top.labels[l[3]]
                            /\ \A a \in A : a \in used => Top.labels[a[3]] # l
<1>1. OwnOnes(A \cup {l})
  BY DEF OwnOnes
<1>2. ASSUME l \in used, NEW a \in A, a \in used PROVE Top.labels[a[3]] # l
  <2>1. a[3] \in Ways
    BY <1>2 DEF OwnOnes
  <2>2. l[1] = Depth /\ Depth \in Nat
    BY <1>2, Frames
  <2>3. Top.labels[a[3]][1] < Depth
    BY <2>1, OldAway
  <2>4. QED
    BY <2>2, <2>3
<1>3. QED
  BY <1>1, <1>2

LEMMA SieveOwn ==
    ASSUME TempsInv, LabelType, LabelsInv, Depth > 0, NEW r \in Run, NEW s, NEW A, NEW T \in SUBSET Nat,
           OwnOnes(A), Sieve(r, s, A, T, Top.labels),
           NEW w \in Ways, NEW l \in Label, l \in used => l[1] = Depth /\ l[3] = w
    PROVE  Sieve(r, Intercept(s, l, T, Top.labels[w]), A \cup {l}, T, Top.labels) /\ OwnOnes(A \cup {l})
<1>1. /\ OwnOnes(A \cup {l})
      /\ l \in used => /\ Top.labels[w] = Top.labels[l[3]]
                       /\ \A a \in A : a \in used => Top.labels[a[3]] # l
  BY OwnNext
<1>2. Top.labels[w] \in Label
  BY OldAway
<1>3. QED
  BY <1>1, <1>2, SieveNext

LEMMA XSieveOwn ==
    ASSUME TempsInv, LabelType, LabelsInv, Depth > 0, NEW r \in Run, NEW s, NEW A, NEW T \in SUBSET Nat,
           OwnOnes(A), XSieve(r, s, A, T, Top.labels),
           NEW w \in Ways, NEW l \in Label, l \in used => l[1] = Depth /\ l[3] = w
    PROVE  XSieve(r, XIntercept(s, l, T, Top.labels[w]), A \cup {l}, T, Top.labels) /\ OwnOnes(A \cup {l})
<1>1. /\ OwnOnes(A \cup {l})
      /\ l \in used => /\ Top.labels[w] = Top.labels[l[3]]
                       /\ \A a \in A : a \in used => Top.labels[a[3]] # l
  BY OwnNext
<1>2. Top.labels[w] \in Label
  BY OldAway
<1>3. QED
  BY <1>1, <1>2, XSieveNext

LEMMA SieveNone ==
    /\ OwnOnes({})
    /\ \A A, a : a \in A /\ OwnOnes(A) /\ a \in used => a[1] = Depth /\ a[3] \in Ways
BY DEF OwnOnes

(* The copy of a finally clause for exceptions ends.                               *)
LEMMA FinallyExceptEndRun ==
    ASSUME TempsInv, LabelType, LabelsInv, PlaceInv, FinallyExceptEnd
    PROVE  LET T == Top.temps
               E == Top.labels["error"]
           IN /\ run' \in Run /\ labels = NewLabels(Top.labels, "clause of finally", Depth)
              /\ run.at = Here =>
                    /\ Is(run', E, run.holds \ T, run.fault \/ ~ T \subseteq run.holds, run.gone \ T)
                    /\ Left(run, run', E, Depth)
              /\ \A w \in Ways : run.at = labels[w] /\ labels[w] \in used =>
                    /\ Is(run', Top.labels[w], run.holds \ T, run.fault, run.gone \ T)
                    /\ Left(run, run', Top.labels[w], Depth)
              /\ run.at # Here /\ (\A w \in Ways : ~(run.at = labels[w] /\ labels[w] \in used)) =>
                    Is(run', run.at, run.holds, run.fault, run.gone \ T) /\ Before(run, run')
<1> DEFINE T == Top.temps
           old == Top.labels
           E == old["error"]
           c == Clear(run, T)
           j == JumpTo(c, E)
<1>1. /\ Depth > 0 /\ Depth \in Nat /\ run \in Run /\ T \in SUBSET Nat
      /\ Top.node = "finally" /\ Top.stage = "except"
  BY Frames, PlaceFacts DEF FinallyExceptEnd, In
<1>2. labels = NewLabels(old, "clause of finally", Depth)
  BY <1>1, LabelsTop DEF Within
<1>3. \A w \in Ways : labels[w] \in Label /\ (labels[w] \in used => labels[w] = <<Depth, "clause of finally", w>>)
  BY <1>1, <1>2, PlaceFacts, NewUsed
<1>o. ASSUME NEW w \in Ways, labels[w] \in used PROVE labels[w][1] = Depth /\ labels[w][3] = w /\ labels[w] # Here
  <2> DEFINE l == <<Depth, "clause of finally", w>>
  <2>1. l[1] = Depth /\ l[3] = w
    OBVIOUS
  <2>2. l # Here
    BY <1>1, <2>1 DEF Here
  <2>3. labels[w] = l
    BY <1>3, <1>o
  <2> HIDE DEF l
  <2>4. QED
    BY <2>1, <2>2, <2>3
<1>4. E \in Label /\ E # Here /\ E[1] < Depth /\ {"continue", "break", "return", "error"} = Ways /\ old = Top.labels
  BY <1>1, OldAway DEF Ways
<1> DEFINE s1 == XIntercept(j, labels["continue"], T, old["continue"])
           s2 == XIntercept(s1, labels["break"], T, old["break"])
           s3 == XIntercept(s2, labels["return"], T, old["return"])
           s4 == XIntercept(s3, labels["error"], T, old["error"])
<1>5. run' = Forget(s4, T)
  BY DEF FinallyExceptEnd
<1> HIDE DEF E, T, old
<1>6. /\ c \in Run /\ c.at = run.at /\ c.gone = run.gone /\ c.overridden = run.overridden /\ (run.at # Here => c = run)
      /\ run.at = Here => c.holds = run.holds \ T /\ (c.fault <=> (run.fault \/ ~ T \subseteq run.holds))
  BY <1>1, RunClear
<1> HIDE DEF c
<1>7. /\ j \in Run /\ j.gone = c.gone /\ j.holds = c.holds /\ j.fault = c.fault /\ (c.at # Here => j = c)
      /\ c.at = Here => j.at = E /\ Left(c, j, E, Depth)
  BY <1>4, <1>6, RunJump
<1> HIDE DEF j
<1> DEFINE A == {} \cup {labels["continue"]} \cup {labels["break"]} \cup {labels["return"]} \cup {labels["error"]}
<1>8. XSieve(j, s4, A, T, old) /\ OwnOnes(A)
  <2>1. \A w \in Ways : labels[w] \in used => labels[w][1] = Depth /\ labels[w][3] = w
    BY <1>o
  <2>2. XSieve(j, j, {}, T, old) /\ OwnOnes({})
    BY <1>7, SieveFirst, SieveNone
  <2>3. XSieve(j, s1, {} \cup {labels["continue"]}, T, old) /\ OwnOnes({} \cup {labels["continue"]})
    BY <1>1, <1>3, <1>4, <1>7, <2>1, <2>2, XSieveOwn
  <2> DEFINE A1 == {} \cup {labels["continue"]}
             A2 == A1 \cup {labels["break"]}
             A3 == A2 \cup {labels["return"]}
  <2> HIDE DEF s1, A1
  <2>4. XSieve(j, s2, A2, T, old) /\ OwnOnes(A2)
    BY <1>1, <1>3, <1>4, <1>7, <2>1, <2>3, XSieveOwn DEF A1
  <2> HIDE DEF s2, A2
  <2>5. XSieve(j, s3, A3, T, old) /\ OwnOnes(A3)
    BY <1>1, <1>3, <1>4, <1>7, <2>1, <2>4, XSieveOwn
  <2> HIDE DEF s3, A3
  <2>6. XSieve(j, s4, A3 \cup {labels["error"]}, T, old) /\ OwnOnes(A3 \cup {labels["error"]})
    BY <1>1, <1>3, <1>4, <1>7, <2>1, <2>5, XSieveOwn
  <2>7. QED
    BY <2>6 DEF A1, A2, A3
<1>9. \A a : a \in A <=> \E w \in Ways : a = labels[w]
  BY <1>4
<1> HIDE DEF A, s4
<1>10. s4 \in Run /\ s4.gone = run.gone
  BY <1>6, <1>7, <1>8 DEF XSieve
<1>11. /\ run' \in Run /\ run'.at = s4.at /\ run'.overridden = s4.overridden
       /\ run'.holds = s4.holds /\ run'.fault = s4.fault /\ run'.gone = run.gone \ T
  BY <1>5, <1>10, RunForget
<1>12. CASE run.at = Here
  <2>1. j.at = E /\ ~(j.at \in A /\ j.at \in used)
    <3>1. j.at = E
      BY <1>6, <1>7, <1>12
    <3>2. E[1] # Depth
      BY <1>1, <1>4, Triple
    <3>3. QED
      BY <1>8, <3>1, <3>2, SieveNone
  <2>2. s4 = j
    BY <1>8, <2>1 DEF XSieve
  <2>3. Overrides(c, E, Depth) <=> Overrides(run, E, Depth)
    BY <1>6, OverridesGone
  <2>4. Left(run, run', E, Depth)
    BY <1>6, <1>7, <1>11, <1>12, <2>2, <2>3 DEF Left
  <2>5. Is(run', E, run.holds \ T, run.fault \/ ~ T \subseteq run.holds, run.gone \ T)
    BY <1>6, <1>7, <1>11, <1>12, <2>1, <2>2 DEF Is
  <2>6. \A w \in Ways : run.at = labels[w] => labels[w] \notin used
    <3>1. \A w \in Ways : labels[w] \in used => labels[w] # Here
      BY <1>o
    <3>2. QED
      BY <1>12, <3>1
  <2>7. QED
    BY <1>2, <1>11, <1>12, <2>4, <2>5, <2>6 DEF T, E, old
<1>13. CASE run.at # Here
  <2>1. j = run
    BY <1>6, <1>7, <1>13
  <2>2. ASSUME NEW w \in Ways, run.at = labels[w], labels[w] \in used
        PROVE  Is(run', old[w], run.holds \ T, run.fault, run.gone \ T) /\ Left(run, run', old[w], Depth)
    <3>1. run.at \in A /\ run.at \in used /\ run.at[3] = w
      BY <1>9, <1>o, <2>2
    <3>2. s4.at = old[w] /\ XFreed(run, s4, T) /\ Left(run, s4, old[w], Depth)
      BY <1>8, <2>1, <3>1 DEF XSieve
    <3>3. QED
      BY <1>11, <3>2 DEF Is, XFreed, Left
  <2>3. ASSUME \A w \in Ways : ~(run.at = labels[w] /\ labels[w] \in used)
        PROVE  Is(run', run.at, run.holds, run.fault, run.gone \ T) /\ Before(run, run')
    <3>1. ~(run.at \in A /\ run.at \in used)
      BY <1>9, <2>3
    <3>2. s4 = run
      BY <1>8, <2>1, <3>1 DEF XSieve
    <3>3. QED
      BY <1>11, <3>2 DEF Is, Before
  <2>4. QED
    BY <1>2, <1>11, <1>13, <2>2, <2>3 DEF T, E, old
<1>14. QED
  BY <1>12, <1>13

LEMMA PlaceFinallyExceptEnd ==
    ASSUME TempsInv, LabelType, LabelsInv, PlaceInv, FinallyExceptEnd
    PROVE  PlaceInv'
<1> DEFINE G == "clause of finally"
<1>1. /\ Top.node = "finally" /\ Top.stage = "except" /\ Depth > 0 /\ Depth \in Nat /\ ~finished /\ finished' = finished
      /\ TopGoes("ways", {}, Top.clean, Top.ways) /\ Top = frames[Depth]
      /\ used' = used \cup UsedBy(labels, Top.labels) \cup {Top.labels["error"]}
  BY Frames, MovesOn DEF FinallyExceptEnd, In, Statement
<1>2. frames'[Depth].node = "finally" /\ frames'[Depth].stage = "ways" /\ frames'[Depth].ways = Top.ways
  BY <1>1 DEF TopGoes
<1>3. /\ run' \in Run /\ labels = NewLabels(Top.labels, G, Depth)
      /\ run.at = Here => run'.at = Top.labels["error"]
      /\ \A w \in Ways : run.at = labels[w] /\ labels[w] \in used => run'.at = Top.labels[w]
      /\ run.at # Here /\ (\A w \in Ways : ~(run.at = labels[w] /\ labels[w] \in used)) => run'.at = run.at
  BY FinallyExceptEndRun DEF Is
<1>4. WaysOk(frames', Depth)
  <2>1. "ways" \notin Loops
    BY DEF Loops
  <2>2. QED
    BY <1>1, <2>1, WaysGo
<1>5. ASSUME NEW w \in Ways, labels[w] \in used \/ w = "error"
      PROVE  /\ Top.labels[w] \in Label /\ UsedLabel(frames, Top.labels[w], Depth - 1)
             /\ Top.labels[w][1] < Depth /\ WaitsAt(frames, Top.labels[w], used', Depth - 1)
  <2>1. Top.labels[w] \in used'
    BY <1>1, <1>5 DEF UsedBy
  <2>2. CASE w \in Loops
    <3>1. <<Depth, G, w>> \in used
      BY <1>1, <1>3, <1>5, <2>2, NewUsed DEF Loops
    <3>2. QED
      BY <1>1, <2>1, <2>2, <3>1, LoopAround DEF LoopBody
  <2>3. CASE w \in {"error", "return"}
    BY <1>1, <2>1, <2>3, ErrorOld
  <2>4. QED
    BY <2>2, <2>3 DEF Ways, Loops
<1>6. used \subseteq used' /\ \A u \in used' : u \in used \/ (u \in Label /\ UsedLabel(frames, u, Depth - 1))
  <2>1. "error" \in Ways
    BY DEF Ways
  <2>2. \A u \in UsedBy(labels, Top.labels) : u \in Label /\ UsedLabel(frames, u, Depth - 1)
    BY <1>5 DEF UsedBy
  <2>3. QED
    BY <1>1, <1>5, <2>1, <2>2
<1>7. ASSUME NEW w \in Ways, labels[w] \in used \/ w = "error", run'.at = Top.labels[w] PROVE PlaceInv'
  <2>1. Depth - 1 \in Nat
    BY <1>1
  <2>2. WaitsAt(frames', Top.labels[w], used', Depth)
    BY <1>1, <1>5, <1>7, <2>1, WaitsBelow
  <2>3. QED
    BY <1>1, <1>3, <1>4, <1>6, <1>7, <2>2, PlaceTop
<1>8. CASE run.at = Here
  <2>1. "error" \in Ways
    BY DEF Ways
  <2>2. QED
    BY <1>3, <1>7, <1>8, <2>1
<1>9. CASE \E w \in Ways : run.at = labels[w] /\ labels[w] \in used
  BY <1>3, <1>7, <1>9
<1>10. CASE run.at # Here /\ \A w \in Ways : ~(run.at = labels[w] /\ labels[w] \in used)
  <2>1. ASSUME NEW g, NEW w, run.at = <<Depth, g, w>>,
               InternalOf(Top, g, w) \/ (Put(Top, g, w) /\ <<Depth, g, w>> \in used)
        PROVE  \/ InternalOf(frames'[Depth], g, w)
               \/ Put(frames'[Depth], g, w) /\ <<Depth, g, w>> \in used
    <3>1. CASE InternalOf(Top, g, w)
      BY <1>1, <1>2, <3>1 DEF InternalOf
    <3>2. CASE Put(Top, g, w) /\ <<Depth, g, w>> \in used
      <4>1. CASE g = G /\ w \in Ways
        <5>1. labels[w] = <<Depth, g, w>>
          BY <1>1, <1>3, <3>2, <4>1, NewUsed
        <5>2. QED
          BY <1>10, <2>1, <3>2, <4>1, <5>1
      <4>2. CASE g = "finally" /\ w \in Top.ways
        BY <1>1, <1>2, <3>2, <4>2 DEF Put, EarlierOf
      <4>3. QED
        BY <1>1, <3>2, <4>1, <4>2 DEF Put, JumpOf, EarlierOf
    <3>3. QED
      BY <2>1, <3>1, <3>2
  <2>2. QED
    BY <1>1, <1>3, <1>4, <1>6, <1>10, <2>1, PlaceWaits
<1>11. QED
  BY <1>8, <1>9, <1>10

-----------------------------------------------------------------------------
(* Statements that end.                                                       *)
LEMMA EndWaits ==
    ASSUME TempsInv, TopEnds, NEW U, NEW m \in Nat, NEW l \in Label, WaitsAt(frames, l, U, m), l[1] < Depth,
           NEW V, l \in U => l \in V
    PROVE  WaitsAt(frames', l, V, Depth - 1)
<1> DEFINE gs == frames'
           n == Depth - 1
<1>1. Depth \in Nat /\ n \in Nat /\ \A i \in 1..n : gs[i] = frames[i]
  BY Frames DEF TopEnds
<1>2. l[1] \in Nat /\ l[1] <= n
  BY <1>1, Triple
<1> HIDE DEF gs
<1>3. Keeps(frames, gs, n)
  BY <1>1, SameKeeps
<1>4. n \in 0..n
  BY <1>1
<1> HIDE DEF n
<1>5. WaitsAt(gs, l, V, n)
  BY <1>1, <1>2, <1>3, <1>4, WaitsKeep
<1>6. QED
  BY <1>5 DEF gs, n

LEMMA EndOwn ==
    ASSUME TempsInv, TopEnds, NEW l, NEW V, l[1] = Depth - 1, Depth > 1,
           InternalOf(frames[Depth - 1], l[2], l[3])
    PROVE  WaitsAt(frames', l, V, Depth - 1)
<1>1. l[1] \in 1..(Depth - 1) /\ frames'[Depth - 1] = frames[Depth - 1]
  BY Frames DEF TopEnds
<1>2. QED
  BY <1>1 DEF WaitsAt

LEMMA EndStays ==
    ASSUME TempsInv, LabelType, LabelsInv, PlaceInv, TopEnds, ~finished, finished' = finished,
           \A u \in used' : /\ u[1] < Depth
                            /\ u \in used \/ (u \in Label /\ UsedLabel(frames, u, Depth - 1)),
           \A u \in used : u[1] < Depth => u \in used',
           run' \in Run, run'.at = run.at, run.at # Here,
           \A g, w : run.at = <<Depth, g, w>> =>
              ~(InternalOf(Top, g, w) \/ (Put(Top, g, w) /\ <<Depth, g, w>> \in used))
    PROVE  PlaceInv'
<1>1. /\ WaitsAt(frames, run.at, used, Depth) /\ run.at \in Label /\ run.at[1] <= Depth /\ Depth \in Nat /\ Depth > 0
      /\ run.at[1] = Depth =>
                 /\ run.at = <<Depth, run.at[2], run.at[3]>>
                 /\ InternalOf(Top, run.at[2], run.at[3]) \/ (Put(Top, run.at[2], run.at[3]) /\ run.at \in used)
  BY WaitsTop, Frames DEF TopEnds
<1>2. run.at[1] # Depth
  BY <1>1
<1>3. run.at[1] < Depth
  BY <1>1, <1>2, Triple
<1>4. run.at \in used => run.at \in used'
  BY <1>3
<1>5. WaitsAt(frames', run.at, used', Depth - 1)
  BY <1>1, <1>3, <1>4, EndWaits
<1>6. QED
  BY <1>5, PlacePop

LEMMA ClauseEndRun ==
    ASSUME TempsInv, LabelType, LabelsInv, PlaceInv, ClauseEnd
    PROVE  LET T == Top.temps
               H == <<Depth - 1, "try", "handled">>
               N == <<Depth, "clause", "no match">>
           IN /\ run' \in Run /\ (\A w \in Loops : labels[w] = <<Depth, "clause", w>>)
              /\ run.at = Here =>
                    /\ Is(run', H, run.holds \ T, run.fault, run.gone \ T)
                    /\ Left(run, run', H, Depth)
              /\ \A w \in Loops : run.at = labels[w] /\ labels[w] \in used =>
                    /\ Is(run', Top.labels[w], run.holds \ T, run.fault \/ ~ T \subseteq run.holds, run.gone \ T)
                    /\ Left(run, run', Top.labels[w], Depth)
              /\ run.at = N => Is(run', Here, run.holds, run.fault, run.gone \ T) /\ Before(run, run')
              /\ run.at \notin {Here, N} /\ (\A w \in Loops : ~(run.at = labels[w] /\ labels[w] \in used)) =>
                    Is(run', run.at, run.holds, run.fault, run.gone \ T) /\ Before(run, run')
<1> DEFINE T == Top.temps
           old == Top.labels
           H == <<Depth - 1, "try", "handled">>
           N == <<Depth, "clause", "no match">>
           c == XClear(run, T)
           j == JumpTo(c, H)
           s1 == Intercept(j, labels["continue"], T, old["continue"])
           s2 == Intercept(s1, labels["break"], T, old["break"])
           h == Reach(s2, N)
<1>1. /\ Depth > 0 /\ Depth \in Nat /\ run \in Run /\ T \in SUBSET Nat
      /\ Top.node = "clause" /\ Top.stage = "body" /\ old \in Labelling
  BY Frames, PlaceFacts DEF ClauseEnd, In, Frame
<1>2. ASSUME NEW w \in Loops PROVE labels[w] = <<Depth, "clause", w>>
  BY <1>1, LabelsTop DEF Within, Labelling, Ways, Loops
<1>3. ASSUME NEW w \in Loops PROVE labels[w] \in Label /\ labels[w][1] = Depth /\ labels[w][3] = w /\ w \in Ways
                                   /\ labels[w] # N /\ labels[w] # Here
  <2> DEFINE l == <<Depth, "clause", w>>
  <2>1. l[1] = Depth /\ l[3] = w /\ N[3] = "no match" /\ w # "no match"
    BY DEF Loops
  <2>2. l # Here /\ l # N
    BY <1>1, <2>1 DEF Here
  <2>3. labels[w] = l
    BY <1>2
  <2> HIDE DEF l, N
  <2>4. QED
    BY <2>1, <2>2, <2>3, PlaceFacts DEF Loops, Ways
<1>4. H \in Label /\ H # Here /\ N # Here /\ N[1] = Depth /\ H[1] = Depth - 1 /\ {"continue", "break"} = Loops
  <2>1. "try" \in Groups /\ "handled" \in Names /\ Depth - 1 \in Nat
    BY <1>1 DEF Groups, Names
  <2>2. H \in Label
    BY <2>1, LabelTypes
  <2>3. H[3] = "handled" /\ N[3] = "no match"
    OBVIOUS
  <2>4. H # Here /\ N # Here
    BY <2>3 DEF Here
  <2>5. QED
    BY <2>2, <2>4 DEF Loops
<1>5. run' = Forget(h, T)
  BY DEF ClauseEnd
<1>o. old = Top.labels
  OBVIOUS
<1> HIDE DEF T, old, H, N
<1>6. /\ c \in Run /\ c.at = run.at /\ c.gone = run.gone /\ c.overridden = run.overridden /\ (run.at # Here => c = run)
      /\ run.at = Here => c.holds = run.holds \ T /\ c.fault = run.fault
  BY <1>1, RunXClear
<1> HIDE DEF c
<1>7. /\ j \in Run /\ j.gone = c.gone /\ j.holds = c.holds /\ j.fault = c.fault /\ (c.at # Here => j = c)
      /\ c.at = Here => j.at = H /\ Left(c, j, H, Depth)
  BY <1>4, <1>6, RunJump
<1> HIDE DEF j
<1> DEFINE A == {} \cup {labels["continue"]} \cup {labels["break"]}
<1>8. Sieve(j, s2, A, T, old) /\ OwnOnes(A)
  <2>1. Sieve(j, j, {}, T, old) /\ OwnOnes({})
    BY <1>7, SieveFirst, SieveNone
  <2> DEFINE A1 == {} \cup {labels["continue"]}
  <2>2. Sieve(j, s1, A1, T, old) /\ OwnOnes(A1)
    BY <1>1, <1>3, <1>4, <1>7, <1>o, <2>1, SieveOwn
  <2> HIDE DEF s1, A1
  <2>3. Sieve(j, s2, A1 \cup {labels["break"]}, T, old) /\ OwnOnes(A1 \cup {labels["break"]})
    BY <1>1, <1>3, <1>4, <1>7, <1>o, <2>2, SieveOwn
  <2>4. QED
    BY <2>3 DEF A1
<1>9. \A a : a \in A <=> \E w \in Loops : a = labels[w]
  BY <1>4
<1> HIDE DEF A, s2
<1>10. s2 \in Run /\ s2.gone = run.gone
  BY <1>6, <1>7, <1>8 DEF Sieve
<1>11. /\ h \in Run /\ h.gone = run.gone /\ h.holds = s2.holds /\ h.fault = s2.fault /\ h.overridden = s2.overridden
       /\ h.at = (IF s2.at = N THEN Here ELSE s2.at)
  BY <1>10, RunReach
<1> HIDE DEF h
<1>12. /\ run' \in Run /\ run'.at = (IF s2.at = N THEN Here ELSE s2.at) /\ run'.overridden = s2.overridden
       /\ run'.holds = s2.holds /\ run'.fault = s2.fault /\ run'.gone = run.gone \ T
  BY <1>5, <1>11, RunForget
<1>13. CASE run.at = Here
  <2>1. j.at = H /\ H \notin A /\ H # N
    <3>1. H[1] # Depth
      BY <1>1, <1>4
    <3>2. QED
      BY <1>3, <1>4, <1>6, <1>7, <1>9, <1>13, <3>1
  <2>2. s2 = j
    BY <1>8, <2>1 DEF Sieve
  <2>3. Overrides(c, H, Depth) <=> Overrides(run, H, Depth)
    BY <1>6, OverridesGone
  <2>4. Left(run, run', H, Depth)
    BY <1>6, <1>7, <1>12, <1>13, <2>2, <2>3 DEF Left
  <2>5. Is(run', H, run.holds \ T, run.fault, run.gone \ T)
    BY <1>6, <1>7, <1>12, <1>13, <2>1, <2>2 DEF Is
  <2>6. \A w \in Loops : run.at # labels[w]
    BY <1>3, <1>13
  <2>7. run.at # N
    BY <1>4, <1>13
  <2>8. QED
    BY <1>2, <1>12, <1>13, <2>4, <2>5, <2>6, <2>7 DEF T, H, N, old
<1>14. CASE run.at # Here
  <2>1. j = run
    BY <1>6, <1>7, <1>14
  <2>2. ASSUME NEW w \in Loops, run.at = labels[w], labels[w] \in used
        PROVE  /\ Is(run', old[w], run.holds \ T, run.fault \/ ~ T \subseteq run.holds, run.gone \ T)
               /\ Left(run, run', old[w], Depth)
    <3>1. run.at \in A /\ run.at \in used /\ run.at[3] = w
      BY <1>3, <1>9, <2>2
    <3>2. s2.at = old[w] /\ Freed(run, s2, T) /\ Left(run, s2, old[w], Depth)
      BY <1>8, <2>1, <3>1 DEF Sieve
    <3>3. old[w][1] < Depth /\ old[w][1] # N[1]
      BY <1>1, <1>3, <1>4, <1>o, <2>2, OldAway, Triple
    <3>4. run'.at = old[w]
      BY <1>12, <3>2, <3>3
    <3>5. QED
      BY <1>12, <3>2, <3>4 DEF Is, Freed, Left
  <2>3. ASSUME \A w \in Loops : ~(run.at = labels[w] /\ labels[w] \in used)
        PROVE  /\ Is(run', IF run.at = N THEN Here ELSE run.at, run.holds, run.fault, run.gone \ T)
               /\ Before(run, run')
    <3>1. ~(run.at \in A /\ run.at \in used)
      BY <1>9, <2>3
    <3>2. s2 = run
      BY <1>8, <2>1, <3>1 DEF Sieve
    <3>3. QED
      BY <1>12, <3>2 DEF Is, Before
  <2>4. run.at = N => \A w \in Loops : run.at # labels[w]
    BY <1>3
  <2>5. QED
    BY <1>2, <1>12, <1>14, <2>2, <2>3, <2>4 DEF T, H, N, old
<1>15. QED
  BY <1>13, <1>14

LEMMA PlaceClauseEnd ==
    ASSUME TempsInv, LabelType, LabelsInv, PlaceInv, ClauseEnd
    PROVE  PlaceInv'
<1> DEFINE H == <<Depth - 1, "try", "handled">>
           N == <<Depth, "clause", "no match">>
<1>1. /\ Top.node = "clause" /\ Top.stage = "body" /\ Depth > 0 /\ Depth \in Nat /\ ~finished /\ finished' = finished
      /\ TopEnds /\ Top = frames[Depth]
      /\ used' = Around(used \cup UsedBy(labels, Top.labels))
  BY Frames, Ends DEF ClauseEnd, In, Statement
<1>2. Depth > 1 /\ frames[Depth - 1].node = "except" /\ frames[Depth - 1].stage = "handled"
  BY <1>1, LabelsTop DEF ClauseOk
<1>3. /\ run' \in Run /\ (\A w \in Loops : labels[w] = <<Depth, "clause", w>>)
      /\ run.at = Here => run'.at = H
      /\ \A w \in Loops : run.at = labels[w] /\ labels[w] \in used => run'.at = Top.labels[w]
      /\ run.at = N => run'.at = Here
      /\ run.at \notin {Here, N} /\ (\A w \in Loops : ~(run.at = labels[w] /\ labels[w] \in used)) => run'.at = run.at
  BY ClauseEndRun DEF Is
<1>4. ASSUME NEW w \in Ways, labels[w] \in used
      PROVE  /\ Top.labels[w] \in Label /\ UsedLabel(frames, Top.labels[w], Depth - 1)
             /\ Top.labels[w][1] < Depth /\ Top.labels[w] \in used'
             /\ WaitsAt(frames, Top.labels[w], used', Depth - 1)
  <2>1. /\ Top.labels[w] \in Label /\ UsedLabel(frames, Top.labels[w], Depth - 1)
        /\ Top.labels[w][1] < Depth /\ \A U : Top.labels[w] \in U => WaitsAt(frames, Top.labels[w], U, Depth - 1)
    <3>1. CASE w \in Loops
      <4>1. <<Depth, "clause", w>> \in used
        BY <1>3, <1>4, <3>1
      <4>2. QED
        BY <1>1, <3>1, <4>1, LoopAround DEF LoopBody
    <3>2. CASE w \in {"error", "return"}
      BY <1>1, <3>2, ErrorOld
    <3>3. QED
      BY <3>1, <3>2 DEF Ways, Loops
  <2>2. Top.labels[w] \in used'
    BY <1>1, <1>4, <2>1 DEF UsedBy, Around
  <2>3. QED
    BY <2>1, <2>2
<1>5. /\ \A u \in used' : /\ u[1] < Depth
                          /\ u \in used \/ (u \in Label /\ UsedLabel(frames, u, Depth - 1))
      /\ \A u \in used : u[1] < Depth => u \in used'
  BY <1>1, <1>4 DEF UsedBy, Around
<1>6. CASE run.at = Here
  <2>1. H[1] = Depth - 1 /\ H[2] = "try" /\ H[3] = "handled"
    OBVIOUS
  <2>2. InternalOf(frames[Depth - 1], H[2], H[3])
    BY <1>2, <2>1 DEF InternalOf
  <2>3. WaitsAt(frames', H, used', Depth - 1)
    BY <1>1, <1>2, <2>1, <2>2, EndOwn
  <2>4. QED
    BY <1>1, <1>3, <1>5, <1>6, <2>3, PlacePop
<1>7. ASSUME NEW w \in Loops, run.at = labels[w], labels[w] \in used PROVE PlaceInv'
  <2>1. w \in Ways /\ Depth - 1 \in Nat
    BY <1>1 DEF Ways, Loops
  <2>2. WaitsAt(frames', Top.labels[w], used', Depth - 1)
    BY <1>1, <1>4, <1>7, <2>1, EndWaits
  <2>3. QED
    BY <1>1, <1>3, <1>5, <1>7, <2>2, PlacePop
<1>8. CASE run.at = N
  BY <1>1, <1>3, <1>5, <1>8, PlacePop
<1>9. CASE run.at \notin {Here, N} /\ \A w \in Loops : ~(run.at = labels[w] /\ labels[w] \in used)
  <2>1. ASSUME NEW g, NEW w, run.at = <<Depth, g, w>>,
               InternalOf(Top, g, w) \/ (Put(Top, g, w) /\ <<Depth, g, w>> \in used)
        PROVE  FALSE
    <3>1. CASE InternalOf(Top, g, w)
      BY <1>1, <1>9, <2>1, <3>1 DEF InternalOf
    <3>2. CASE Put(Top, g, w) /\ <<Depth, g, w>> \in used
      <4>1. g = "clause" /\ w \in Loops
        BY <1>1, <3>2 DEF Put, JumpOf, EarlierOf
      <4>2. QED
        BY <1>3, <1>9, <2>1, <3>2, <4>1
    <3>3. QED
      BY <2>1, <3>1, <3>2
  <2>2. QED
    BY <1>1, <1>3, <1>5, <1>9, <2>1, EndStays
<1>10. QED
  BY <1>6, <1>7, <1>8, <1>9

LEMMA TryEndRun ==
    ASSUME TempsInv, LabelType, LabelsInv, PlaceInv, TryEnd
    PROVE  LET T == Top.temps
               E == Top.labels["error"]
               R == <<Depth, "except", "error">>
               H == <<Depth, "try", "handled">>
               N == <<Depth, "try", "end">>
               A == {<<Depth, "try", "break">>, <<Depth, "try", "continue">>, <<Depth, "try", "return">>,
                     <<Depth, "except", "return">>}
           IN /\ run' \in Run
              /\ run.at \in {Here, R} =>
                    /\ Is(run', E, run.holds \ T, run.fault \/ ~ T \subseteq run.holds, run.gone \ T)
                    /\ Left(run, run', E, Depth)
              /\ run.at \in A /\ run.at \in used =>
                    /\ Is(run', Top.labels[run.at[3]], run.holds \ T, run.fault \/ ~ T \subseteq run.holds, run.gone \ T)
                    /\ Left(run, run', Top.labels[run.at[3]], Depth)
              /\ run.at = H => /\ Is(run', Here, run.holds \ T, run.fault \/ ~ T \subseteq run.holds, run.gone \ T)
                               /\ Before(run, run')
              /\ run.at = N => Is(run', Here, run.holds, run.fault, run.gone \ T) /\ Before(run, run')
              /\ run.at \notin {Here, R, H, N} /\ ~(run.at \in A /\ run.at \in used) =>
                    Is(run', run.at, run.holds, run.fault, run.gone \ T) /\ Before(run, run')
<1> DEFINE T == Top.temps
           old == Top.labels
           E == old["error"]
           R == <<Depth, "except", "error">>
           H == <<Depth, "try", "handled">>
           N == <<Depth, "try", "end">>
           B == <<Depth, "try", "break">>
           C == <<Depth, "try", "continue">>
           X == <<Depth, "try", "return">>
           Y == <<Depth, "except", "return">>
           i == JumpTo(run, R)
           j == Pass(i, R, T, E)
           s1 == Intercept(j, B, T, old["break"])
           s2 == Intercept(s1, C, T, old["continue"])
           s3 == Intercept(s2, X, T, old["return"])
           s4 == Intercept(s3, Y, T, old["return"])
           h == Reach(s4, H)
           c == Clear(h, T)
           e == Reach(c, N)
<1>1. /\ Depth > 0 /\ Depth \in Nat /\ run \in Run /\ T \in SUBSET Nat
      /\ Top.node = "except" /\ Top.stage = "handled"
  BY Frames, PlaceFacts DEF TryEnd, In
<1>2. /\ R \in Label /\ H \in Label /\ N \in Label /\ B \in Label /\ C \in Label /\ X \in Label /\ Y \in Label
  <2>1. {"try", "except"} \subseteq Groups /\ {"error", "handled", "end", "break", "continue", "return"} \subseteq Names
    BY DEF Groups, Names, Ways
  <2>2. QED
    BY <1>1, <2>1, LabelTypes
<1>3. /\ R[1] = Depth /\ H[1] = Depth /\ N[1] = Depth
      /\ B[1] = Depth /\ C[1] = Depth /\ X[1] = Depth /\ Y[1] = Depth
      /\ R[3] = "error" /\ H[3] = "handled" /\ N[3] = "end"
      /\ B[3] = "break" /\ C[3] = "continue" /\ X[3] = "return" /\ Y[3] = "return"
  OBVIOUS
<1>o. old = Top.labels /\ E = old["error"]
  OBVIOUS
<1>5. run' = Forget(e, T)
  BY DEF TryEnd
<1> HIDE DEF T, old, E, R, H, N, B, C, X, Y
<1>4. /\ \A w \in Ways : old[w] \in Label /\ old[w] # Here /\ old[w][1] # Depth
      /\ {"error", "return", "break", "continue"} \subseteq Ways
      /\ R # Here /\ H # Here /\ N # Here /\ H # N /\ R # H /\ R # N
  <2>1. R # Here /\ H # Here /\ N # Here /\ H # N /\ R # H /\ R # N
    BY <1>3 DEF Here
  <2>2. ASSUME NEW w \in Ways PROVE old[w] \in Label /\ old[w] # Here /\ old[w][1] # Depth
    <3>1. old[w] \in Label /\ old[w] # Here /\ old[w][1] < Depth
      BY <1>1, <1>o, OldAway
    <3>2. old[w][1] \in Nat
      BY <3>1, Triple
    <3>3. QED
      BY <1>1, <3>1, <3>2
  <2>3. QED
    BY <2>1, <2>2 DEF Ways
<1>6. /\ i \in Run /\ i.gone = run.gone /\ i.holds = run.holds /\ i.fault = run.fault /\ (run.at # Here => i = run)
      /\ (run.at = Here => i.at = R) /\ Before(run, i)
  BY <1>1, <1>2, RunJump
<1> HIDE DEF i
<1>7. /\ j \in Run /\ j.gone = run.gone /\ (i.at # R => j = i)
      /\ i.at = R => j.at = E /\ Freed(i, j, T) /\ Left(i, j, E, Depth)
  <2>1. i \in Run /\ R \in Label /\ E \in Label /\ T \in SUBSET Nat
    BY <1>1, <1>2, <1>4, <1>6, <1>o
  <2>2. j = Pass(i, R, T, E)
    OBVIOUS
  <2> HIDE DEF j
  <2>3. /\ j \in Run /\ j.gone = i.gone /\ (i.at # R => j = i)
        /\ (i.at = R => j.at = E /\ Freed(i, j, T) /\ Left(i, j, E, Depth))
    BY <2>1, <2>2, RunPass
  <2>4. QED
    BY <1>6, <2>3
<1> HIDE DEF j
<1> DEFINE A == {} \cup {B} \cup {C} \cup {X} \cup {Y}
<1>8. Sieve(j, s4, A, T, old) /\ OwnOnes(A)
  <2>1. Sieve(j, j, {}, T, old) /\ OwnOnes({})
    BY <1>7, SieveFirst, SieveNone
  <2> DEFINE A1 == {} \cup {B}
             A2 == A1 \cup {C}
             A3 == A2 \cup {X}
  <2>2. Sieve(j, s1, A1, T, old) /\ OwnOnes(A1)
    BY <1>1, <1>2, <1>3, <1>4, <1>7, <1>o, <2>1, SieveOwn
  <2> HIDE DEF s1, A1
  <2>3. Sieve(j, s2, A2, T, old) /\ OwnOnes(A2)
    BY <1>1, <1>2, <1>3, <1>4, <1>7, <1>o, <2>2, SieveOwn
  <2> HIDE DEF s2, A2
  <2>4. Sieve(j, s3, A3, T, old) /\ OwnOnes(A3)
    BY <1>1, <1>2, <1>3, <1>4, <1>7, <1>o, <2>3, SieveOwn
  <2> HIDE DEF s3, A3
  <2>5. Sieve(j, s4, A3 \cup {Y}, T, old) /\ OwnOnes(A3 \cup {Y})
    BY <1>1, <1>2, <1>3, <1>4, <1>7, <1>o, <2>4, SieveOwn
  <2>6. QED
    BY <2>5 DEF A1, A2, A3
<1>9. \A a : a \in A <=> a \in {B, C, X, Y}
  OBVIOUS
<1> HIDE DEF A, s4
<1>10. s4 \in Run /\ s4.gone = run.gone
  BY <1>7, <1>8 DEF Sieve
<1>11. /\ h \in Run /\ h.gone = run.gone /\ h.holds = s4.holds /\ h.fault = s4.fault /\ h.overridden = s4.overridden
       /\ h.at = (IF s4.at = H THEN Here ELSE s4.at)
  BY <1>10, RunReach
<1> HIDE DEF h
<1>12. /\ c \in Run /\ c.at = h.at /\ c.gone = run.gone /\ c.overridden = h.overridden /\ (h.at # Here => c = h)
       /\ h.at = Here => c.holds = h.holds \ T /\ (c.fault <=> (h.fault \/ ~ T \subseteq h.holds))
  BY <1>1, <1>11, RunClear
<1> HIDE DEF c
<1>13. /\ e \in Run /\ e.gone = run.gone /\ e.holds = c.holds /\ e.fault = c.fault /\ e.overridden = c.overridden
       /\ e.at = (IF c.at = N THEN Here ELSE c.at)
  BY <1>12, RunReach
<1> HIDE DEF e
<1>14. /\ run' \in Run /\ run'.at = e.at /\ run'.overridden = s4.overridden
       /\ run'.holds = c.holds /\ run'.fault = c.fault /\ run'.gone = run.gone \ T
  BY <1>5, <1>11, <1>12, <1>13, RunForget
<1>15. ASSUME s4.at \notin {Here, H, N} PROVE /\ run'.at = s4.at /\ run'.holds = s4.holds /\ run'.fault = s4.fault
  BY <1>11, <1>12, <1>13, <1>14, <1>15
<1>16. ASSUME NEW w \in Ways, s4.at = old[w] PROVE s4.at \notin {Here, H, N}
  BY <1>3, <1>4, <1>16
<1>17. CASE run.at \in {Here, R}
  <2>1. i.at = R /\ j.at = E /\ Freed(i, j, T) /\ Left(i, j, E, Depth)
    BY <1>6, <1>7, <1>17
  <2>2. ~(j.at \in A /\ j.at \in used)
    <3>1. E[1] # Depth
      BY <1>4, <1>o
    <3>2. QED
      BY <1>8, <2>1, <3>1, SieveNone
  <2>3. s4 = j
    BY <1>8, <2>2 DEF Sieve
  <2>4. Overrides(i, E, Depth) <=> Overrides(run, E, Depth)
    BY <1>6, OverridesGone
  <2>5. run'.at = E /\ run'.holds = j.holds /\ run'.fault = j.fault
    BY <1>4, <1>o, <1>15, <1>16, <2>1, <2>3
  <2>6. Left(run, run', E, Depth)
    BY <1>6, <1>14, <2>1, <2>3, <2>4 DEF Left, Before
  <2>7. Is(run', E, run.holds \ T, run.fault \/ ~ T \subseteq run.holds, run.gone \ T)
    BY <1>6, <1>14, <2>1, <2>5 DEF Is, Freed
  <2>8. run.at \notin {H, N} /\ run.at[3] # "return" /\ run.at[3] # "break" /\ run.at[3] # "continue"
    BY <1>3, <1>4, <1>17 DEF Here
  <2>9. run.at \notin {B, C, X, Y}
    BY <1>3, <2>8
  <2>10. QED
    BY <1>14, <1>17, <2>6, <2>7, <2>8, <2>9 DEF T, H, N, old, E, R, B, C, X, Y
<1>18. CASE run.at \notin {Here, R}
  <2>1. j = run
    BY <1>6, <1>7, <1>18
  <2>2. ASSUME run.at \in {B, C, X, Y}, run.at \in used
        PROVE  /\ Is(run', old[run.at[3]], run.holds \ T, run.fault \/ ~ T \subseteq run.holds, run.gone \ T)
               /\ Left(run, run', old[run.at[3]], Depth)
    <3>1. run.at \in A /\ run.at \in used /\ run.at[3] \in Ways
      BY <1>3, <1>4, <1>9, <2>2
    <3>2. s4.at = old[run.at[3]] /\ Freed(run, s4, T) /\ Left(run, s4, old[run.at[3]], Depth)
      BY <1>8, <2>1, <3>1 DEF Sieve
    <3>3. run'.at = old[run.at[3]] /\ run'.holds = s4.holds /\ run'.fault = s4.fault
      BY <1>15, <1>16, <3>1, <3>2
    <3>4. QED
      BY <1>14, <3>2, <3>3 DEF Is, Freed, Left
  <2>3. ASSUME ~(run.at \in {B, C, X, Y} /\ run.at \in used)
        PROVE  s4 = run
    BY <1>8, <1>9, <2>1, <2>3 DEF Sieve
  <2>4. ASSUME run.at = H
        PROVE  /\ Is(run', Here, run.holds \ T, run.fault \/ ~ T \subseteq run.holds, run.gone \ T)
               /\ Before(run, run') /\ run.at \notin {B, C, X, Y, R, N, Here}
    <3>1. run.at \notin {B, C, X, Y, R, N, Here}
      BY <1>3, <1>4, <2>4
    <3>2. s4 = run
      BY <2>3, <3>1
    <3>3. h.at = Here /\ c.at = Here /\ e.at = Here
      BY <1>4, <1>11, <1>12, <1>13, <2>4, <3>2
    <3>4. c.holds = run.holds \ T /\ (c.fault <=> (run.fault \/ ~ T \subseteq run.holds))
      BY <1>11, <1>12, <3>2, <3>3
    <3>5. QED
      BY <1>14, <3>1, <3>2, <3>3, <3>4 DEF Is, Before
  <2>5. ASSUME run.at = N
        PROVE  /\ Is(run', Here, run.holds, run.fault, run.gone \ T)
               /\ Before(run, run') /\ run.at \notin {B, C, X, Y, R, H, Here}
    <3>1. run.at \notin {B, C, X, Y, R, H, Here}
      BY <1>3, <1>4, <2>5
    <3>2. s4 = run
      BY <2>3, <3>1
    <3>3. h.at = N /\ c.at = N /\ e.at = Here
      BY <1>4, <1>11, <1>12, <1>13, <2>5, <3>2
    <3>4. c.holds = run.holds /\ c.fault = run.fault
      BY <1>4, <1>11, <1>12, <3>2, <3>3
    <3>5. QED
      BY <1>14, <3>1, <3>2, <3>3, <3>4 DEF Is, Before
  <2>6. ASSUME run.at \notin {H, N}, ~(run.at \in {B, C, X, Y} /\ run.at \in used)
        PROVE  Is(run', run.at, run.holds, run.fault, run.gone \ T) /\ Before(run, run')
    <3>1. s4 = run /\ s4.at \notin {Here, H, N}
      BY <1>18, <2>3, <2>6
    <3>2. QED
      BY <1>14, <1>15, <3>1 DEF Is, Before
  <2>7. QED
    BY <1>14, <1>18, <2>2, <2>4, <2>5, <2>6 DEF T, H, N, old, E, R, B, C, X, Y
<1>19. QED
  BY <1>17, <1>18

LEMMA PlaceTryEnd ==
    ASSUME TempsInv, LabelType, LabelsInv, PlaceInv, TryEnd
    PROVE  PlaceInv'
<1> DEFINE R == <<Depth, "except", "error">>
           H == <<Depth, "try", "handled">>
           N == <<Depth, "try", "end">>
           A == {<<Depth, "try", "break">>, <<Depth, "try", "continue">>, <<Depth, "try", "return">>,
                 <<Depth, "except", "return">>}
           V == {Top.labels[w] : w \in {w \in Ways : <<Depth, "try", w>> \in used
                                                   \/ <<Depth, "except", w>> \in used}}
<1>1. /\ Top.node = "except" /\ Top.stage = "handled" /\ Depth > 0 /\ Depth \in Nat /\ ~finished /\ finished' = finished
      /\ TopEnds /\ Top = frames[Depth]
      /\ used' = Around(used \cup {Top.labels["error"]} \cup V)
  BY Frames, Ends DEF TryEnd, In
<1>2. /\ run' \in Run
      /\ run.at \in {Here, R} => run'.at = Top.labels["error"]
      /\ run.at \in A /\ run.at \in used => run'.at = Top.labels[run.at[3]]
      /\ run.at \in {H, N} => run'.at = Here
      /\ run.at \notin {Here, R, H, N} /\ ~(run.at \in A /\ run.at \in used) => run'.at = run.at
  BY TryEndRun DEF Is
<1>3. ASSUME NEW w \in Ways, w = "error" \/ <<Depth, "try", w>> \in used \/ <<Depth, "except", w>> \in used
      PROVE  /\ Top.labels[w] \in Label /\ UsedLabel(frames, Top.labels[w], Depth - 1)
             /\ Top.labels[w][1] < Depth /\ Top.labels[w] \in used'
             /\ WaitsAt(frames, Top.labels[w], used', Depth - 1)
  <2>1. /\ Top.labels[w] \in Label /\ UsedLabel(frames, Top.labels[w], Depth - 1)
        /\ Top.labels[w][1] < Depth /\ \A U : Top.labels[w] \in U => WaitsAt(frames, Top.labels[w], U, Depth - 1)
    <3>1. CASE w \in Loops
      <4>1. \E g : <<Depth, g, w>> \in used
        BY <1>3, <3>1 DEF Loops
      <4>2. QED
        BY <1>1, <3>1, <4>1, LoopAround DEF LoopBody
    <3>2. CASE w \in {"error", "return"}
      BY <1>1, <3>2, ErrorOld
    <3>3. QED
      BY <3>1, <3>2 DEF Ways, Loops
  <2>2. Top.labels[w] \in used'
    BY <1>1, <1>3, <2>1 DEF Around
  <2>3. QED
    BY <2>1, <2>2
<1>4. /\ \A u \in used' : /\ u[1] < Depth
                          /\ u \in used \/ (u \in Label /\ UsedLabel(frames, u, Depth - 1))
      /\ \A u \in used : u[1] < Depth => u \in used'
  <2>1. "error" \in Ways
    BY DEF Ways
  <2>2. \A u \in V : u \in Label /\ UsedLabel(frames, u, Depth - 1)
    BY <1>3
  <2>3. Top.labels["error"] \in Label /\ UsedLabel(frames, Top.labels["error"], Depth - 1)
    BY <1>3, <2>1
  <2>4. QED
    BY <1>1, <2>2, <2>3 DEF Around
<1>5. ASSUME NEW w \in Ways, w = "error" \/ <<Depth, "try", w>> \in used \/ <<Depth, "except", w>> \in used,
             run'.at = Top.labels[w]
      PROVE  PlaceInv'
  <2>1. Depth - 1 \in Nat
    BY <1>1
  <2>2. WaitsAt(frames', Top.labels[w], used', Depth - 1)
    BY <1>1, <1>3, <1>5, <2>1, EndWaits
  <2>3. QED
    BY <1>1, <1>2, <1>4, <1>5, <2>2, PlacePop
<1>6. CASE run.at \in {Here, R}
  <2>1. "error" \in Ways
    BY DEF Ways
  <2>2. QED
    BY <1>2, <1>5, <1>6, <2>1
<1>7. CASE run.at \in A /\ run.at \in used
  <2>1. PICK w \in {"break", "continue", "return"} : run.at = <<Depth, "try", w>> \/ run.at = <<Depth, "except", w>>
    BY <1>7
  <2>2. run.at[3] = w /\ w \in Ways
    BY <2>1 DEF Ways
  <2>3. run'.at = Top.labels[w]
    BY <1>2, <1>7, <2>2
  <2>4. QED
    BY <1>5, <1>7, <2>1, <2>2, <2>3
<1>8. CASE run.at \in {H, N}
  BY <1>1, <1>2, <1>4, <1>8, PlacePop
<1>9. CASE run.at \notin {Here, R, H, N} /\ ~(run.at \in A /\ run.at \in used)
  <2>1. ASSUME NEW g, NEW w, run.at = <<Depth, g, w>>,
               InternalOf(Top, g, w) \/ (Put(Top, g, w) /\ <<Depth, g, w>> \in used)
        PROVE  FALSE
    <3>1. CASE InternalOf(Top, g, w)
      BY <1>1, <1>9, <2>1, <3>1 DEF InternalOf
    <3>2. CASE Put(Top, g, w) /\ <<Depth, g, w>> \in used
      <4>1. \/ g = "try" /\ w \in {"break", "continue", "return"}
            \/ g = "except" /\ w \in {"error", "return"}
        BY <1>1, <3>2 DEF Put, JumpOf, EarlierOf, Loops
      <4>2. QED
        BY <1>9, <2>1, <3>2, <4>1
    <3>3. QED
      BY <2>1, <3>1, <3>2
  <2>2. run'.at = run.at /\ run.at # Here
    BY <1>2, <1>9
  <2>3. QED
    BY <1>1, <1>2, <1>4, <2>1, <2>2, EndStays
<1>10. QED
  BY <1>6, <1>7, <1>8, <1>9

(* The last label of a statement.                                               *)
LEMMA EndRun ==
    ASSUME TempsInv, LabelType, LabelsInv, PlaceInv, NEW l, run' = Reach(run, l)
    PROVE  /\ run' \in Run
           /\ run.at = l => Is(run', Here, run.holds, run.fault, run.gone) /\ Before(run, run')
           /\ run.at # l => run' = run
<1>1. run \in Run
  BY PlaceFacts
<1>2. QED
  BY <1>1, RunReach DEF Is, Before

LEMMA PlaceEnd ==
    ASSUME TempsInv, LabelType, LabelsInv, PlaceInv, ForEnd \/ FinallyEnd
    PROVE  PlaceInv'
<1>1. Depth > 0 /\ Depth \in Nat /\ ~finished /\ finished' = finished /\ TopEnds /\ used' = Around(used)
  BY Frames, Ends DEF ForEnd, FinallyEnd, In, Statement
<1>2. PICK l : /\ run' = Reach(run, l)
               /\ \A g, w : InternalOf(Top, g, w) \/ (Put(Top, g, w) /\ <<Depth, g, w>> \in used) => l = <<Depth, g, w>>
  <2>1. CASE ForEnd
    <3>1. run' = Reach(run, <<Depth, "for", "end">>) /\ Top.node = "for" /\ Top.stage = "else"
      BY <2>1 DEF ForEnd, In
    <3>2. \A g, w : InternalOf(Top, g, w) \/ Put(Top, g, w) => <<Depth, g, w>> = <<Depth, "for", "end">>
      BY <3>1 DEF InternalOf, Put, JumpOf, EarlierOf
    <3>3. QED
      BY <3>1, <3>2
  <2>2. CASE FinallyEnd
    <3>1. run' = Reach(run, <<Depth, "finally", "catch">>) /\ Top.node = "finally" /\ Top.stage = "ways" /\ Top.ways = {}
      BY <2>2 DEF FinallyEnd, In
    <3>2. \A g, w : InternalOf(Top, g, w) \/ Put(Top, g, w) => <<Depth, g, w>> = <<Depth, "finally", "catch">>
      BY <3>1 DEF InternalOf, Put, JumpOf, EarlierOf
    <3>3. QED
      BY <3>1, <3>2
  <2>3. QED
    BY <2>1, <2>2
<1>3. /\ run' \in Run
      /\ run.at = l => run'.at = Here
      /\ run.at # l => run' = run
  BY <1>2, EndRun DEF Is
<1>4. /\ \A u \in used' : u[1] < Depth /\ u \in used
      /\ \A u \in used : u[1] < Depth => u \in used'
  BY <1>1 DEF Around
<1>5. CASE run'.at = Here
  BY <1>1, <1>3, <1>4, <1>5, PlacePop
<1>6. CASE run.at # l /\ run.at # Here
  BY <1>1, <1>2, <1>3, <1>4, <1>6, EndStays
<1>7. QED
  BY <1>3, <1>5, <1>6

(* The function ends.                                                         *)
LEMMA FunctionEndRun ==
    ASSUME TempsInv, LabelType, LabelsInv, PlaceInv, FunctionEnd
    PROVE  LET E == FunctionLabel("error")
               R == FunctionLabel("return")
           IN /\ run' \in Run /\ run'.at = Done /\ run.at \in {Here, E, R} /\ run'.gone = run.gone
              /\ run.at \in {Here, R} => run'.holds = run.holds /\ (run'.fault <=> run.fault)
              /\ run.at = E => run'.holds = run.holds \ Counted(Temps) /\ (run'.fault <=> run.fault)
              /\ Before(run, run')
<1> DEFINE E == FunctionLabel("error")
           R == FunctionLabel("return")
           T == Counted(Temps)
           j == JumpTo(run, R)
           x == XIntercept(j, E, T, R)
           h == Reach(x, R)
<1>1. /\ Depth = 0 /\ run \in Run /\ T \in SUBSET Nat /\ ~finished
      /\ LabelsOk(frames, labels, Depth) /\ E \in Label /\ R \in Label /\ Done \in Label
  <2>1. "error" \in Ways /\ "return" \in Ways
    BY DEF Ways
  <2>2. QED
    BY <2>1, Frames, PlaceFacts, LabelTypes DEF FunctionEnd, Statement, LabelsInv, LabelsHold, Depth
<1>2. labels["error"] = E /\ labels["return"] = R
  <2>1. LabelOk(frames, labels["error"], "error", 0) /\ LabelOk(frames, labels["return"], "return", 0)
    BY <1>1 DEF LabelsOk, Ways
  <2>2. QED
    BY <2>1 DEF LabelOk
<1>3. run' = JumpTo(h, Done)
  BY <1>2 DEF FunctionEnd
<1>4. run.at \in {Here, E, R} /\ (run.at # Here => run.at \in used)
  <2>1. run.at # Here => WaitsAt(frames, run.at, used, 0)
    BY <1>1, PlaceFacts
  <2>2. QED
    BY <2>1 DEF WaitsAt
<1>5. E # R /\ E # Here /\ R # Here /\ Done # Here
  BY DEF FunctionLabel, Here, Done
<1> HIDE DEF E, R, T
<1>6. /\ j \in Run /\ j.gone = run.gone /\ j.holds = run.holds /\ j.fault = run.fault /\ (run.at # Here => j = run)
      /\ run.at = Here => j.at = R
      /\ Before(run, j)
  BY <1>1, RunJump
<1> HIDE DEF j
<1>7. /\ x \in Run /\ x.gone = run.gone /\ Before(j, x)
      /\ ~(j.at = E /\ E \in used) => x = j
      /\ j.at = E /\ E \in used => x.at = R /\ XFreed(j, x, T)
  BY <1>1, <1>6, RunXIntercept
<1> HIDE DEF x
<1>8. /\ h \in Run /\ h.holds = x.holds /\ h.fault = x.fault /\ h.gone = x.gone /\ h.overridden = x.overridden
      /\ x.at = R => h.at = Here
  BY <1>7, RunReach
<1> HIDE DEF h
<1>9. x.at = R
  BY <1>4, <1>5, <1>6, <1>7
<1> DEFINE k == JumpTo(h, Done)
<1>10. /\ k \in Run /\ k.holds = h.holds /\ k.fault = h.fault /\ k.gone = h.gone /\ k.at = Done /\ Before(h, k)
  BY <1>1, <1>8, <1>9, RunJump
<1>11. run' = k
  BY <1>3
<1> HIDE DEF k
<1>12. Before(run, k)
  BY <1>6, <1>7, <1>8, <1>10 DEF Before
<1>13. /\ run.at \in {Here, R} => k.holds = run.holds /\ (k.fault <=> run.fault)
       /\ run.at = E => k.holds = run.holds \ T /\ (k.fault <=> run.fault)
  BY <1>4, <1>5, <1>6, <1>7, <1>8, <1>10 DEF XFreed
<1>14. QED
  BY <1>4, <1>7, <1>8, <1>10, <1>11, <1>12, <1>13 DEF E, R, T

LEMMA PlaceNowhere ==
    ASSUME TempsInv, LabelType, PlaceInv, NEW w, JumpNowhere(w)
    PROVE  PlaceInv'
<1>1. run' = NoRun /\ finished' = TRUE /\ frames' = frames /\ used' = used /\ Depth' = Depth
  BY DEF JumpNowhere, Depth
<1>2. run'.at = Done /\ run' \in Run
  <2>1. Done \in Label /\ {} \in SUBSET Nat
    BY LabelTypes
  <2>2. QED
    BY <1>1, <2>1 DEF NoRun, Run
<1>3. QED
  BY <1>1, <1>2 DEF PlaceInv, PlaceOk, UsedOk

LEMMA PlaceFunctionEnd ==
    ASSUME TempsInv, LabelType, LabelsInv, PlaceInv, FunctionEnd
    PROVE  PlaceInv'
<1>1. run' \in Run /\ run'.at = Done
  BY FunctionEndRun
<1>2. finished' = TRUE /\ frames' = frames /\ frames = <<>> /\ used' = used /\ Depth' = Depth
  BY DEF FunctionEnd, Depth
<1>3. QED
  BY <1>1, <1>2 DEF PlaceInv, PlaceOk, UsedOk

(* An except clause begins.                                                    *)
LEMMA ClauseBeginRun ==
    ASSUME TempsInv, LabelType, LabelsInv, PlaceInv, NEW t, NEW k \in Kind, ClauseBegin(t, k)
    PROVE  LET E == labels["error"]
               N == <<Depth + 1, "clause", "no match">>
           IN /\ run' \in Run
              /\ run.at = Here =>
                    \/ /\ Is(run', Here, run.holds \cup {t}, run.fault \/ {t} \cap run.holds # {}, run.gone)
                       /\ Before(run, run') /\ (~run'.overridden => \A u \in run.gone : UnderWay(u, Depth))
                    \/ Is(run', E, run.holds, run.fault, run.gone) /\ Left(run, run', E, Depth)
                    \/ Is(run', N, run.holds, run.fault, run.gone) /\ Left(run, run', N, Depth)
              /\ run.at # Here => run' = run
<1> DEFINE E == labels["error"]
           N == <<Depth + 1, "clause", "no match">>
           b == \E u \in run.gone : ~UnderWay(u, Depth)
           o == Override(run, b)
           k1 == Take(o, {t})
           k2 == JumpTo(run, E)
           k3 == JumpTo(run, N)
<1>0. Depth \in Nat
  BY Frames
<1>1. /\ Depth \in Nat /\ run \in Run /\ {t} \in SUBSET Nat /\ E \in Label
      /\ run' = k1 \/ run' = k2 \/ run' = k3
  BY Frames, PlaceFacts, Allocated DEF ClauseBegin, Ways, Catch
<1>2. N \in Label /\ b \in BOOLEAN
  <2>1. "clause" \in Groups /\ "no match" \in Names
    BY DEF Groups, Names
  <2>2. N \in Label
    <3>1. Depth + 1 \in Nat
      BY <1>0
    <3>2. QED
      BY <2>1, <3>1, LabelTypes
  <2>3. b \in BOOLEAN
    OBVIOUS
  <2>4. QED
    BY <2>2, <2>3
<1> HIDE DEF E, N
<1>3. /\ o \in Run /\ o.at = run.at /\ o.gone = run.gone /\ o.holds = run.holds /\ o.fault = run.fault
      /\ run.at # Here => o = run
      /\ ~o.overridden => ~run.overridden /\ (run.at = Here => ~b)
  <2> HIDE DEF b
  <2>1. QED
    BY <1>1, <1>2, RunOverride
<1> HIDE DEF o
<1>4. /\ k1 \in Run /\ k1.at = run.at /\ k1.gone = run.gone /\ k1.overridden = o.overridden
      /\ o.at # Here => k1 = o
      /\ o.at = Here => k1.holds = o.holds \cup {t} /\ (k1.fault <=> (o.fault \/ {t} \cap o.holds # {}))
  BY <1>1, <1>3, RunTake
<1> HIDE DEF k1
<1>5. /\ k2 \in Run /\ k2.holds = run.holds /\ k2.fault = run.fault /\ k2.gone = run.gone
      /\ run.at # Here => k2 = run
      /\ run.at = Here => k2.at = E /\ Left(run, k2, E, Depth)
  BY <1>1, RunJump
<1> HIDE DEF k2
<1>6. /\ k3 \in Run /\ k3.holds = run.holds /\ k3.fault = run.fault /\ k3.gone = run.gone
      /\ run.at # Here => k3 = run
      /\ run.at = Here => k3.at = N /\ Left(run, k3, N, Depth)
  BY <1>1, <1>2, RunJump
<1> HIDE DEF k3
<1>7. CASE run.at # Here
  <2>1. k1 = run /\ k2 = run /\ k3 = run
    BY <1>3, <1>4, <1>5, <1>6, <1>7
  <2>2. run' = run
    BY <1>1, <2>1
  <2>3. QED
    BY <1>1, <1>7, <2>2
<1>8. CASE run.at = Here
  <2>1. CASE run' = k1
    <3>1. Is(run', Here, run.holds \cup {t}, run.fault \/ {t} \cap run.holds # {}, run.gone)
      BY <1>3, <1>4, <1>8, <2>1 DEF Is
    <3>2. Before(run, run') /\ (~run'.overridden => \A u \in run.gone : UnderWay(u, Depth))
      BY <1>3, <1>4, <1>8, <2>1 DEF Before
    <3>3. QED
      BY <1>4, <1>8, <2>1, <3>1, <3>2
  <2>2. CASE run' = k2
    <3>1. Is(run', E, run.holds, run.fault, run.gone) /\ Left(run, run', E, Depth)
      BY <1>5, <1>8, <2>2 DEF Is
    <3>2. QED
      BY <1>5, <1>8, <2>2, <3>1 DEF E
  <2>3. CASE run' = k3
    <3>1. Is(run', N, run.holds, run.fault, run.gone) /\ Left(run, run', N, Depth)
      BY <1>6, <1>8, <2>3 DEF Is
    <3>2. QED
      BY <1>6, <1>8, <2>3, <3>1 DEF N
  <2>4. QED
    BY <1>1, <2>1, <2>2, <2>3
<1>9. QED
  BY <1>7, <1>8

LEMMA PlaceClauseBegin ==
    ASSUME TempsInv, LabelType, LabelsInv, PlaceInv, NEW t, NEW k \in Kind, ClauseBegin(t, k)
    PROVE  PlaceInv'
<1> DEFINE E == labels["error"]
           N == <<Depth + 1, "clause", "no match">>
<1>1. /\ Depth \in Nat /\ Depth > 0 /\ ~finished /\ finished' = finished /\ Opens(Handled, "clause", {t})
      /\ used' = used \cup {E} /\ (In("except", "handlers") \/ In("except", "handled"))
      /\ Top = frames[Depth] /\ Top.node = "except" /\ Top.stage \in {"handlers", "handled"}
  BY Frames, Begins DEF ClauseBegin, In
<1>2. /\ Handled[Depth].node = "except" /\ Handled[Depth].stage = "handled" /\ Handled[Depth].ways = Top.ways
      /\ \A i \in 1..(Depth - 1) : Handled[i] = frames[i]
      /\ \A i \in 1..Depth : Handled[i].node = frames[i].node /\ Handled[i].ways = frames[i].ways
  BY <1>1, HandledFrames
<1>3. \A i \in 1..Depth : /\ Handled[i].node = frames[i].node /\ Handled[i].ways = frames[i].ways
                          /\ Handled[i].stage = frames[i].stage \/ (Handled[i].node = "except" /\ Handled[i].stage # "ways")
  <2>1. \A i \in 1..Depth : i = Depth \/ i \in 1..(Depth - 1)
    BY <1>1
  <2>2. QED
    BY <1>2, <2>1
<1>4. Keeps(frames, frames', Depth)
  <2>1. \A i \in 1..Depth : frames'[i] = Handled[i]
    BY <1>1 DEF Opens
  <2>2. ASSUME NEW i \in 1..(Depth - 1) PROVE frames'[i] = frames[i]
    BY <1>1, <1>2, <2>1
  <2>3. ASSUME NEW g, NEW w
        PROVE  /\ InternalOf(frames[Depth], g, w) => InternalOf(frames'[Depth], g, w)
               /\ Put(frames[Depth], g, w) => Put(frames'[Depth], g, w)
    <3>1. frames'[Depth].node = "except" /\ frames'[Depth].stage = "handled"
      BY <1>1, <1>2, <2>1
    <3>2. QED
      BY <1>1, <3>1 DEF InternalOf, Put, JumpOf, EarlierOf
  <2>4. \A i \in 1..Depth : i = Depth \/ i \in 1..(Depth - 1)
    BY <1>1
  <2>5. QED
    BY <2>2, <2>3, <2>4 DEF Keeps
<1>5. /\ E \in Label /\ UsedLabel(frames, E, Depth) /\ WaitsAt(frames, E, used', Depth)
  BY <1>1, ErrorMarked
<1>6. ASSUME NEW l, NEW U, WaitsAt(frames, l, U, Depth), l \in U => l \in used'
      PROVE  WaitsAt(frames', l, used', Depth + 1)
  <2>1. l[1] <= Depth /\ Depth \in 0..(Depth + 1) /\ Depth + 1 \in Nat
    BY <1>1, <1>6, WaitsAway
  <2>2. QED
    BY <1>1, <1>4, <1>6, <2>1, WaitsKeep
<1>7. /\ run' \in Run
      /\ run.at = Here => run'.at = Here \/ run'.at = E \/ run'.at = N
      /\ run.at # Here => run' = run
  BY ClauseBeginRun DEF Is
<1>8. run'.at = N => WaitsAt(frames', run'.at, used', Depth + 1)
  <2>1. N[1] = Depth + 1 /\ N[2] = "clause" /\ N[3] = "no match"
    OBVIOUS
  <2>2. frames'[Depth + 1].node = "clause"
    BY <1>1 DEF Opens
  <2>3. InternalOf(frames'[N[1]], N[2], N[3])
    BY <2>1, <2>2 DEF InternalOf
  <2>4. N[1] \in 1..(Depth + 1)
    BY <1>1, <2>1
  <2>5. QED
    BY <2>3, <2>4 DEF WaitsAt
<1>9. run.at # Here => WaitsAt(frames', run.at, used', Depth + 1)
  <2>1. run.at # Here => WaitsAt(frames, run.at, used, Depth)
    BY <1>1, PlaceFacts
  <2>2. QED
    BY <1>1, <1>6, <2>1
<1>10. run'.at = Here \/ WaitsAt(frames', run'.at, used', Depth + 1)
  <2>1. WaitsAt(frames', E, used', Depth + 1)
    BY <1>5, <1>6
  <2>2. QED
    BY <1>7, <1>8, <1>9, <2>1
<1>11. /\ ~IsCopy(frames[Depth], "ways")
       /\ \A u \in used' : u \in used \/ (u \in Label /\ UsedLabel(frames, u, Depth))
  BY <1>1, <1>5 DEF IsCopy
<1>12. QED
  BY <1>1, <1>3, <1>7, <1>10, <1>11, PlacePush

-----------------------------------------------------------------------------
(* The execution is at a place that is still to come, whatever happens.              *)
LEMMA PlaceUnchanged ==
    ASSUME PlaceInv, UNCHANGED codeVars
    PROVE  PlaceInv'
BY DEF PlaceInv, PlaceOk, codeVars, Depth, In, Top

LEMMA PlaceStep ==
    ASSUME TempsInv, LabelType, LabelsInv, PlaceInv, [CodeNext]_codeVars
    PROVE  PlaceInv'
<1>1. ASSUME NEW t, NEW k \in Kind, ForBegin(t, k) \/ TryBegin(t) \/ ClauseBegin(t, k) PROVE PlaceInv'
  BY <1>1, PlaceBegin, PlaceClauseBegin
<1>2. ASSUME NEW t, TryBegin(t) \/ FinallyBegin PROVE PlaceInv'
  BY <1>2, PlaceBegin
<1>3. ASSUME NEW t, NEW k \in Kind, Evaluate(t, k) \/ Dispose(t) PROVE PlaceInv'
  BY <1>3, PlaceExpression
<1>4. ASSUME NEW t, Dispose(t) PROVE PlaceInv'
  BY <1>4, PlaceExpression
<1>5. ASSUME NEW t, FinallyExcept(t) PROVE PlaceInv'
  BY <1>5, PlaceCopy
<1>6. ASSUME NEW way \in {"return", "break", "continue"}, NEW T, FinallyWay(way, T) PROVE PlaceInv'
  BY <1>6, PlaceCopy
<1>7. ASSUME NEW way \in {"return", "break", "continue"}, FinallyWayEnd(way) PROVE PlaceInv'
  BY <1>7, PlaceFinallyWayEnd
<1>8. CASE UNCHANGED codeVars
  BY <1>8, PlaceUnchanged
<1>9. CASE CodeNext
  BY <1>1, <1>2, <1>3, <1>4, <1>5, <1>6, <1>7, <1>9, Actions, PlaceJump, PlaceForElse, PlaceTryElse, PlaceTryHandlers,
     PlaceClauseEnd, PlaceTryEnd, PlaceFinallyNormal, PlaceFinallyNormalEnd, PlaceFinallyExceptEnd, PlaceEnd,
     PlaceNowhere, PlaceFunctionEnd
<1>10. QED
  BY <1>8, <1>9

LEMMA PlaceFirst == CodeInit => PlaceInv
<1>1. ASSUME CodeInit PROVE PlaceInv
  <2>1. /\ run = [at |-> Here, holds |-> {}, gone |-> {}, fault |-> FALSE, overridden |-> FALSE]
        /\ finished = FALSE /\ used = {} /\ Depth = 0 /\ frames = <<>>
    BY <1>1 DEF CodeInit, Depth
  <2>2. run \in Run /\ run.at = Here
    BY <2>1, LabelTypes DEF Run
  <2>3. ~In("finally", "ways")
    BY <2>1 DEF In
  <2>4. UsedOk(frames, used, Depth)
    BY <2>1 DEF UsedOk
  <2>5. PlaceOk(run)
    BY <2>1, <2>2, <2>3 DEF PlaceOk
  <2>6. \A i \in 1..Depth : FALSE
    BY <2>1
  <2>7. \A i \in 1..(Depth - 1) : FALSE
    BY <2>1
  <2>8. QED
    BY <2>1, <2>2, <2>4, <2>5, <2>6, <2>7 DEF PlaceInv
<1>2. QED
  BY <1>1

(* For any program: a statement's labels are those it made or found, the one to jump  *)
(* to for a way is put by a statement around that is left by that way (all_new_labels, *)
(* new_loop_labels, label_interceptor), and the execution waits at a label that is    *)
(* still to be put and is known to be used.                                    *)
THEOREM PlaceInvariant == CodeSpec => [](TempsInv /\ LabelType /\ LabelsInv /\ PlaceInv)
<1>1. CodeInit => TempsInv /\ LabelType /\ LabelsInv /\ PlaceInv
  BY TempsFirst, LabelsFirst, PlaceFirst
<1>2. TempsInv /\ LabelType /\ LabelsInv /\ PlaceInv /\ [CodeNext]_codeVars => (TempsInv /\ LabelType /\ LabelsInv /\ PlaceInv)'
  BY TempsStep, LabelTypeStep, LabelsStep, PlaceStep
<1>3. QED
  BY <1>1, <1>2, PTL DEF CodeSpec

(* For any program: no jump waits for a label of a statement that is complete, so every *)
(* way out that is written meets its interceptor (Code.py label_interceptor).      *)
THEOREM NeverLost == CodeSpec => []NoJumpIsLost
<1>1. ASSUME TempsInv, LabelType, LabelsInv, PlaceInv PROVE NoJumpIsLost
  <2>1. Depth \in Nat
    BY <1>1, Frames
  <2>2. Here[1] = 0 /\ Done[1] = 0
    BY FunctionLabels
  <2>3. ASSUME WaitsAt(frames, run.at, used, Depth) PROVE run.at[1] <= Depth
    BY <2>1, <2>3, WaitsAway
  <2>4. QED
    BY <1>1, <2>1, <2>2, <2>3 DEF NoJumpIsLost, PlaceInv, PlaceOk
<1>2. QED
  BY <1>1, PlaceInvariant, PTL

=============================================================================
