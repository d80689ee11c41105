--------------------------- MODULE AnalysisProofs ---------------------------
(***************************************************************************)
(* Proofs about the two analyses of the compiler with a fixed point: which  *)
(* definitions reach a use, and which functions cannot raise.               *)
(***************************************************************************)
EXTENDS ReachingDefinitions, NoexceptInference, TLAPS

(***************************************************************************)
(* Proofs about the data flow analysis, for every flow graph, every order   *)
(* in which the sweeps visit the blocks, and every path of the program:     *)
(*  - the analysis foresees every definition a path can carry;              *)
(*  - it finds the least solution of the flow equations, so that the result *)
(*    does not depend on the order (that of a Python set of objects);        *)
(*  - the sets only grow, which is why the sweeps come to an end.           *)
(***************************************************************************)

(* The sets the blocks exchange are sets of definitions.                      *)
LEMMA FlowTypes ==
  ASSUME TypeOK, NEW b \in flow.blocks
  PROVE  /\ Incoming(b) \in SUBSET Def
         /\ Through(b, Incoming(b)) \in SUBSET Def
         /\ b \in Nodes(flow) /\ b # flow.entry
<1>1. \A p \in Nodes(flow) : i_output[p] \in SUBSET Def
  BY DEF TypeOK
<1>2. Incoming(b) \in SUBSET Def
  BY <1>1 DEF Incoming, Parents
<1>3. b \in Nodes(flow) /\ b # flow.entry
  BY DEF TypeOK, IsFlowGraph, Nodes
<1>4. flow.gen[b] \in SUBSET Def
  BY <1>3 DEF TypeOK, IsFlowGraph
<1>. QED
  BY <1>2, <1>3, <1>4 DEF Through

-----------------------------------------------------------------------------
(* The invariant holds initially.                                            *)
LEMMA FlowInvInit == Init => FlowInv
<1>. SUFFICES ASSUME Init PROVE FlowInv
  OBVIOUS
<1>1. flow.entry \in Nodes(flow) /\ flow.gen \in [Nodes(flow) -> SUBSET Def]
  BY DEF Init, IsFlowGraph, Nodes
<1>2. def \in Def
  BY <1>1 DEF Init
<1>3. TypeOK
  BY <1>1, <1>2 DEF Init, TypeOK
<1>. QED
  BY <1>3 DEF Init, FlowInv, CleanBehind, EntryKept, ReachingSound, Converged

(* A new sweep starts with every block still to visit.                        *)
LEMMA NextSweepKeepsInv == FlowInv /\ NextSweep => FlowInv'
<1>. SUFFICES ASSUME FlowInv, NextSweep PROVE FlowInv'
  OBVIOUS
<1>1. TypeOK'
  BY DEF FlowInv, TypeOK, NextSweep, program
<1>2. CleanBehind'
  BY DEF NextSweep, CleanBehind
<1>3. EntryKept' /\ at' = flow'.entry /\ def' \in (flow.gen[flow.entry])'
  BY DEF FlowInv, EntryKept, NextSweep, program, Converged
<1>4. ReachingSound'
  BY <1>3 DEF ReachingSound, EntryKept
<1>. QED
  BY <1>1, <1>2, <1>3, <1>4 DEF FlowInv

(* A visit of a block: either it changes its output, and the sweep is dirty, or *)
(* no equation of a block behind the sweep is touched.                        *)
LEMMA UpdateKeepsInv ==
  ASSUME FlowInv, NEW b \in flow.blocks, Update(b)
  PROVE  FlowInv'
<1>1. TypeOK /\ TypeOK'
  <2>1. TypeOK
    BY DEF FlowInv
  <2>. QED
    BY <2>1, FlowTypes DEF TypeOK, Update, program
<1>2. EntryKept' /\ at' = at /\ def' = def /\ flow' = flow
  BY <1>1, FlowTypes DEF FlowInv, EntryKept, Update, program, TypeOK
<1>3. CleanBehind'
  <2>. SUFFICES ASSUME ~dirty', NEW c \in flow.blocks, c \notin todo'
                PROVE  i_input'[c] = Incoming(c)' /\ i_output'[c] = Through(c, Incoming(c))'
    BY <1>2 DEF CleanBehind
  <2>1. Through(b, Incoming(b)) = i_output[b] /\ ~dirty
    BY DEF Update
  <2>2. i_output' = i_output
    BY <2>1, <1>1 DEF Update, TypeOK
  <2>3. Incoming(c)' = Incoming(c) /\ Through(c, Incoming(c))' = Through(c, Incoming(c))
    BY <1>2, <2>2 DEF Incoming, Parents, Through
  <2>4. CASE c = b
    BY <1>1, <2>1, <2>2, <2>3, <2>4 DEF Update, TypeOK
  <2>5. CASE c # b
    <3>1. c \notin todo
      BY <2>5 DEF Update
    <3>2. i_input[c] = Incoming(c) /\ i_output[c] = Through(c, Incoming(c))
      BY <2>1, <3>1 DEF FlowInv, CleanBehind
    <3>3. i_input'[c] = i_input[c]
      BY <1>1, <2>5 DEF Update, TypeOK
    <3>. QED
      BY <2>2, <2>3, <3>2, <3>3
  <2>. QED
    BY <2>4, <2>5
<1>4. at = flow.entry /\ def \in flow.gen[flow.entry]
  BY DEF FlowInv, Converged, Update
<1>5. ReachingSound'
  BY <1>2, <1>4 DEF ReachingSound, EntryKept
<1>. QED
  BY <1>1, <1>2, <1>3, <1>4, <1>5 DEF FlowInv

(* What the program does leaves the equations as they are.                    *)
LEMMA SameFlow ==
  ASSUME CleanBehind, EntryKept, UNCHANGED flow, UNCHANGED analysis
  PROVE  CleanBehind' /\ EntryKept' /\ (Converged <=> Converged')
<1>1. UNCHANGED <<i_input, i_output, dirty, todo>>
  BY DEF analysis
<1>2. \A b \in flow.blocks : Incoming(b)' = Incoming(b) /\ Through(b, Incoming(b))' = Through(b, Incoming(b))
  BY <1>1 DEF Incoming, Parents, Through
<1>3. CleanBehind'
  BY <1>1, <1>2 DEF CleanBehind
<1>. QED
  BY <1>1, <1>3 DEF EntryKept, Converged

(* A step of the program stays within what the equations let pass.             *)
LEMMA WalkKeepsInv ==
  ASSUME FlowInv, NEW b \in flow.blocks, Walk(b)
  PROVE  FlowInv'
<1>1. TypeOK /\ Converged /\ def \in i_output[at] /\ <<at, b>> \in flow.edges
  BY DEF FlowInv, Walk, ReachingSound
<1>2. b \in Nodes(flow) /\ flow.gen[b] \in SUBSET Def
  BY <1>1, FlowTypes DEF TypeOK, IsFlowGraph
<1>3. UNCHANGED <<flow, i_input, i_output, dirty, todo>>
  BY DEF Walk, analysis
<1>4. UNCHANGED flow /\ UNCHANGED analysis
  BY DEF Walk
<1>5. def \in Incoming(b)
  BY <1>1 DEF Incoming, Parents, TypeOK
<1>6. i_output[b] = Through(b, Incoming(b))
  BY <1>1 DEF FlowInv, CleanBehind, Converged
<1>7. def' \in i_output[b]
  BY <1>5, <1>6 DEF Walk, Through
<1>8. TypeOK'
  <2>1. def' \in Def
    BY <1>1, <1>2 DEF Walk, TypeOK
  <2>. QED
    BY <1>1, <1>2, <1>3, <2>1 DEF TypeOK, Walk
<1>9. CleanBehind' /\ EntryKept' /\ Converged'
  BY <1>1, <1>4, SameFlow DEF FlowInv
<1>10. ReachingSound'
  BY <1>3, <1>7 DEF ReachingSound, Walk
<1>. QED
  BY <1>8, <1>9, <1>10 DEF FlowInv

LEMMA StutterKeepsInv == FlowInv /\ UNCHANGED vars => FlowInv'
<1>. SUFFICES ASSUME FlowInv, UNCHANGED vars PROVE FlowInv'
  OBVIOUS
<1>1. UNCHANGED flow /\ UNCHANGED analysis /\ UNCHANGED program
  BY DEF vars, analysis, program
<1>2. CleanBehind' /\ EntryKept' /\ (Converged <=> Converged')
  BY <1>1, SameFlow DEF FlowInv
<1>3. TypeOK' /\ ReachingSound' /\ at' = at /\ def' = def /\ flow' = flow
  BY <1>1, <1>2 DEF FlowInv, TypeOK, ReachingSound, analysis, program
<1>. QED
  BY <1>2, <1>3 DEF FlowInv

(* The inductive invariant of the analysis, on every flow graph.               *)
THEOREM FlowInvariant == Spec => []FlowInv
<1>1. FlowInv /\ [Next]_vars => FlowInv'
  BY NextSweepKeepsInv, UpdateKeepsInv, WalkKeepsInv, StutterKeepsInv DEF Next
<1>. QED
  BY <1>1, FlowInvInit, PTL DEF Spec

(* When the analysis has stopped, whatever path the program takes, what it      *)
(* carries out of a block is among the definitions found for the block.         *)
THEOREM ReachingDefinitionsSound == Spec => []ReachingSound
<1>1. FlowInv => ReachingSound
  BY DEF FlowInv
<1>. QED
  BY <1>1, FlowInvariant, PTL

-----------------------------------------------------------------------------
(* The sets only grow: what a block has put out is never more than it would put  *)
(* out now.                                                                  *)
Growing == \A b \in flow.blocks : i_output[b] \subseteq Through(b, Incoming(b))

LEMMA GrowingInit == Init => Growing
BY DEF Init, Growing, Through, IsFlowGraph, Nodes

(* More definitions out of the parents are more definitions through the block.  *)
LEMMA ThroughMonotone ==
  ASSUME UNCHANGED flow, \A p \in Nodes(flow) : i_output[p] \subseteq i_output'[p],
         NEW b \in flow.blocks
  PROVE  Through(b, Incoming(b)) \subseteq Through(b, Incoming(b))'
<1>1. Incoming(b) \subseteq Incoming(b)'
  BY DEF Incoming, Parents
<1>. QED
  BY <1>1 DEF Through

(* A visit adds to the output of its block and leaves the others alone.         *)
LEMMA UpdateGrows ==
  ASSUME TypeOK, Growing, NEW b \in flow.blocks, Update(b)
  PROVE  Growing' /\ \A p \in Nodes(flow) : i_output[p] \subseteq i_output'[p]
<1>1. \A p \in Nodes(flow) :
         i_output'[p] = IF p = b THEN Through(b, Incoming(b)) ELSE i_output[p]
  BY FlowTypes DEF Update, TypeOK
<1>2. \A p \in Nodes(flow) : i_output[p] \subseteq i_output'[p]
  BY <1>1 DEF Growing
<1>3. flow' = flow /\ flow.blocks \subseteq Nodes(flow)
  BY DEF Update, Nodes
<1>4. ASSUME NEW c \in flow.blocks PROVE i_output'[c] \subseteq Through(c, Incoming(c))'
  <2>1. Through(c, Incoming(c)) \subseteq Through(c, Incoming(c))'
    BY <1>2, <1>3, ThroughMonotone
  <2>2. i_output'[c] \subseteq Through(c, Incoming(c))
    BY <1>1, <1>3 DEF Growing
  <2>. QED
    BY <2>1, <2>2
<1>. QED
  BY <1>2, <1>3, <1>4 DEF Growing

(* Steps that visit no block.                                                *)
LEMMA OthersGrow ==
  ASSUME Growing, UNCHANGED <<flow, i_output>>
  PROVE  Growing' /\ \A p \in Nodes(flow) : i_output[p] \subseteq i_output'[p]
BY DEF Growing, Through, Incoming, Parents

LEMMA NextCases ==
  ASSUME [Next]_vars
  PROVE  UNCHANGED <<flow, i_output>> \/ \E b \in flow.blocks : Update(b)
BY DEF Next, NextSweep, Walk, vars, analysis

(* No sweep ever takes a definition away from a block, so that a sweep that      *)
(* changes something adds something, and there are finitely many to add.        *)
OutputsGrow == \A p \in Nodes(flow) : i_output[p] \subseteq i_output'[p]

THEOREM AnalysisGrows == Spec => [][OutputsGrow]_vars
<1>1. TypeOK /\ Growing /\ [Next]_vars => Growing' /\ OutputsGrow
  BY NextCases, UpdateGrows, OthersGrow DEF OutputsGrow
<1>2. FlowInv => TypeOK
  BY DEF FlowInv
<1>. QED
  BY <1>1, <1>2, GrowingInit, FlowInvariant, PTL DEF Spec

-----------------------------------------------------------------------------
(* A solution of the flow equations, and the claim that the analysis stays      *)
(* below every one of them.                                                  *)
Solution(S) ==
    /\ flow.gen[flow.entry] \subseteq S[flow.entry]
    /\ \A b \in flow.blocks : Through(b, UNION {S[p] : p \in Parents(b)}) \subseteq S[b]

BelowSolutions ==
    \A S \in [Nodes(flow) -> SUBSET Def] :
       Solution(S) => \A p \in Nodes(flow) : i_output[p] \subseteq S[p]

LEMMA BelowSolutionsInit == Init => BelowSolutions
<1>. SUFFICES ASSUME Init, NEW S \in [Nodes(flow) -> SUBSET Def], Solution(S),
                     NEW p \in Nodes(flow)
              PROVE  i_output[p] \subseteq S[p]
  BY DEF BelowSolutions
<1>1. CASE p = flow.entry
  BY <1>1 DEF Init, Solution
<1>2. CASE p \in flow.blocks
  BY <1>2 DEF Init, Solution, Through
<1>. QED
  BY <1>1, <1>2 DEF Nodes

LEMMA UpdateBelowSolutions ==
  ASSUME TypeOK, BelowSolutions, NEW b \in flow.blocks, Update(b)
  PROVE  BelowSolutions'
<1>1. ASSUME NEW S \in [Nodes(flow) -> SUBSET Def], Solution(S), NEW p \in Nodes(flow)
      PROVE  i_output'[p] \subseteq S[p]
  <2>1. \A q \in Nodes(flow) : i_output[q] \subseteq S[q]
    BY <1>1, Zenon DEF BelowSolutions
  <2>2. CASE p = b
    <3>1. i_output'[b] = Through(b, Incoming(b))
      BY FlowTypes DEF Update, TypeOK
    <3>2. Incoming(b) \subseteq UNION {S[q] : q \in Parents(b)}
      BY <2>1 DEF Incoming, Parents
    <3>3. Through(b, Incoming(b)) \subseteq Through(b, UNION {S[q] : q \in Parents(b)})
      BY <3>2 DEF Through
    <3>4. Through(b, UNION {S[q] : q \in Parents(b)}) \subseteq S[b]
      BY <1>1, Zenon DEF Solution
    <3>. QED
      BY <2>2, <3>1, <3>3, <3>4
  <2>3. CASE p # b
    BY <1>1, <2>1, <2>3 DEF Update, TypeOK
  <2>. QED
    BY <2>2, <2>3
<1>2. flow' = flow
  BY DEF Update
<1>3. Nodes(flow)' = Nodes(flow) /\ \A S : Solution(S)' <=> Solution(S)
  BY <1>2 DEF Solution, Through, Parents, Nodes
<1>. QED
  BY <1>1, <1>3, Zenon DEF BelowSolutions

LEMMA OthersBelowSolutions ==
  ASSUME BelowSolutions, UNCHANGED <<flow, i_output>>
  PROVE  BelowSolutions'
BY DEF BelowSolutions, Solution, Through, Parents, Nodes

LEMMA ConvergedSolves == FlowInv /\ Converged => Solution(i_output)
<1>. SUFFICES ASSUME FlowInv, Converged PROVE Solution(i_output)
  OBVIOUS
<1>1. \A b \in flow.blocks : i_output[b] = Through(b, Incoming(b))
  BY DEF FlowInv, CleanBehind, Converged
<1>2. flow.gen[flow.entry] \subseteq i_output[flow.entry]
  BY DEF FlowInv, EntryKept
<1>. QED
  BY <1>1, <1>2 DEF Solution, Incoming

(* What the analysis has found when it stops is the least solution of the flow   *)
(* equations, whatever the order of the visits was.                           *)
LeastSolution == BelowSolutions /\ (Converged => Solution(i_output))

THEOREM AnalysisLeast == Spec => []LeastSolution
<1>1. TypeOK /\ BelowSolutions /\ [Next]_vars => BelowSolutions'
  BY NextCases, UpdateBelowSolutions, OthersBelowSolutions
<1>2. FlowInv => TypeOK /\ (Converged => Solution(i_output))
  BY ConvergedSolves DEF FlowInv
<1>3. BelowSolutions /\ (Converged => Solution(i_output)) => LeastSolution
  BY DEF LeastSolution
<1>. QED
  BY <1>1, <1>2, <1>3, BelowSolutionsInit, FlowInvariant, PTL DEF Spec
-----------------------------------------------------------------------------
(***************************************************************************)
(* What the inference calls safe cannot raise: for any functions, any program *)
(* and any batch of modules, when module functions are not looked up.         *)
(*                                                                         *)
(* CanRaise is the least solution of "a body raises if one of its constructs  *)
(* does".  The analysis never guesses: when it calls a body safe, all of its   *)
(* constructs are already known not to raise, so that the solution without     *)
(* the function is a smaller one.                                           *)
(***************************************************************************)

Raisers == {f \in Fun : CanRaise(f)}
GoodItem(x) == ~ItemRaises(x, Raisers)
GoodCall(c) == ~CallRaises(c, Raisers)

Frame == [fun : Fun, at : Nat \ {0}]
Site == Fun \X Nat

InferenceTypeOK ==
    /\ prog \in Program
    /\ remaining \subseteq Fun
    /\ sites \subseteq SitesOf(Fun)
    /\ stack \in Seq(Frame)
    /\ memo \in [Fun -> {"safe", "unsafe", "busy", "new"}]
    /\ marked \subseteq Fun
    /\ facts \in [Fun -> {"entry", "direct", "none"}]

(* The bodies under analysis are safe up to where the visitor is.              *)
VisitedSafe ==
    \A k \in DOMAIN stack : \A i \in DOMAIN Body(stack[k].fun) :
        i < stack[k].at => GoodItem(Body(stack[k].fun)[i])

MemoSafe == \A f \in Fun : memo[f] = "safe" => f \notin Raisers

MarkedSafe == \A f \in marked : f \notin Raisers /\ EntrySafe(f) /\ prog[f].spec # "cpp"

FactsSafe ==
    \A f \in Fun : facts[f] # "none" =>
        /\ f \notin Raisers /\ prog[f].spec # "cpp"
        /\ facts[f] = "entry" => EntrySafe(f)

CallsSafe == \A s \in patched \cup unchecked : GoodCall(Item(s))

(* The inductive invariant.                                                  *)
IInv == InferenceTypeOK /\ VisitedSafe /\ MemoSafe /\ MarkedSafe /\ FactsSafe /\ CallsSafe

-----------------------------------------------------------------------------
LEMMA ProgramType ==
    ASSUME InferenceTypeOK, NEW f \in Fun
    PROVE  /\ prog[f] \in Definition
           /\ Body(f) \in Seq(Items)
<1>1. prog \in [Fun -> Definition]
  BY ProgramAssumption DEF InferenceTypeOK
<1>2. prog[f] \in Definition
  BY <1>1
<1> QED
  BY <1>2 DEF Definition, Body

(* A site of some function is a call in its body.                             *)
LEMMA SiteType ==
    ASSUME InferenceTypeOK, NEW s \in SitesOf(Fun)
    PROVE  /\ s[1] \in Fun
           /\ Item(s) \in Calls
<1>1. PICK f \in Fun : s \in {f} \X {i \in DOMAIN Body(f) : Body(f)[i].kind = "call"}
  BY DEF SitesOf
<1>2. s[1] = f /\ s[2] \in DOMAIN Body(f) /\ Body(f)[s[2]].kind = "call"
  BY <1>1
<1>3. Body(f)[s[2]] \in Items
  BY <1>2, ProgramType
<1> QED
  BY <1>2, <1>3 DEF Items, Item, Calls

(* Fewer functions that can raise make no construct raise.                     *)
LEMMA RaisesMonotone ==
    ASSUME NEW x, NEW R, NEW S, R \subseteq S, ItemRaises(x, R)
    PROVE  ItemRaises(x, S)
BY DEF ItemRaises, CallRaises

(* The functions that can raise are themselves a solution.                     *)
LEMMA RaisersClosed == Closed(Raisers)
<1> SUFFICES ASSUME NEW f \in Fun,
                    \/ prog[f].profile
                    \/ \E i \in DOMAIN Body(f) : ItemRaises(Body(f)[i], Raisers)
             PROVE  f \in Raisers
  BY DEF Closed
<1>1. ASSUME NEW R \in SUBSET Fun, Closed(R) PROVE f \in R
  <2>1. Raisers \subseteq R
    BY <1>1 DEF Raisers, CanRaise
  <2>2. CASE prog[f].profile
    BY <1>1, <2>2 DEF Closed
  <2>3. CASE \E i \in DOMAIN Body(f) : ItemRaises(Body(f)[i], Raisers)
    <3>1. PICK i \in DOMAIN Body(f) : ItemRaises(Body(f)[i], Raisers)
      BY <2>3
    <3>2. ItemRaises(Body(f)[i], R)
      BY <3>1, <2>1, RaisesMonotone
    <3> QED
      BY <3>2, <1>1 DEF Closed
  <2> QED
    BY <2>2, <2>3
<1> QED
  BY <1>1 DEF Raisers, CanRaise

(* A body all of whose constructs are known not to raise cannot raise.           *)
LEMMA SafeBody ==
    ASSUME NEW f \in Fun, ~prog[f].profile, \A i \in DOMAIN Body(f) : GoodItem(Body(f)[i])
    PROVE  f \notin Raisers
<1> DEFINE R == Raisers \ {f}
<1>1. R \subseteq Raisers /\ R \in SUBSET Fun
  BY DEF Raisers
<1>2. ASSUME NEW g \in Fun,
             \/ prog[g].profile
             \/ \E i \in DOMAIN Body(g) : ItemRaises(Body(g)[i], R)
      PROVE  g \in R
  <2>1. CASE prog[g].profile
    <3>1. g \in Raisers
      BY <2>1, RaisersClosed DEF Closed
    <3> QED
      BY <2>1, <3>1
  <2>2. CASE \E i \in DOMAIN Body(g) : ItemRaises(Body(g)[i], R)
    <3>1. PICK i \in DOMAIN Body(g) : ItemRaises(Body(g)[i], R)
      BY <2>2
    <3>2. ItemRaises(Body(g)[i], Raisers)
      BY <3>1, <1>1, RaisesMonotone
    <3>3. g \in Raisers
      BY <3>2, RaisersClosed DEF Closed
    <3>4. g # f
      BY <3>2 DEF GoodItem
    <3> QED
      BY <3>3, <3>4
  <2> QED
    BY <1>2, <2>1, <2>2
<1>3. Closed(R)
  BY <1>2 DEF Closed
<1> QED
  BY <1>1, <1>3 DEF Raisers, CanRaise

-----------------------------------------------------------------------------
(* A call of a function that cannot raise is good if no override can run.       *)
LEMMA GoodCallOf ==
    ASSUME NEW c, c.to \notin Raisers, prog[c.to].spec # "cpp", Lookup = FALSE,
           EntrySafe(c.to) \/ c.via = "direct"
    PROVE  GoodCall(c)
BY DEF GoodCall, CallRaises, MayRunOverride, EntrySafe

LEMMA MarkedCall ==
    ASSUME IInv, Lookup = FALSE, NEW c \in Calls, TypeMarked(c)
    PROVE  GoodCall(c)
BY GoodCallOf DEF IInv, MarkedSafe, TypeMarked

LEMMA FactCall ==
    ASSUME IInv, Lookup = FALSE, NEW c \in Calls, c.via = "direct",
           ExternalFact(c.to, {"entry", "direct"})
    PROVE  GoodCall(c)
<1>1. c.to \in Fun
  BY DEF Calls
<1>2. facts[c.to] # "none"
  BY DEF ExternalFact
<1> QED
  BY <1>1, <1>2, GoodCallOf DEF IInv, FactsSafe

(* What the visitor passes does not raise.                                     *)
LEMMA ItemSafeSound ==
    ASSUME IInv, Lookup = FALSE, NEW x \in Items, ItemSafe(x)
    PROVE  GoodItem(x)
<1>1. CASE x.kind = "plain"
  BY <1>1 DEF GoodItem, ItemRaises
<1>2. CASE x.kind = "call" /\ SafeByType(x)
  <2>1. x \in Calls
    BY <1>2 DEF Items
  <2>2. CASE TypeMarked(x)
    BY <2>1, <2>2, <1>2, MarkedCall DEF GoodItem, ItemRaises, GoodCall
  <2>3. CASE prog[x.to].spec = "noexcept"
    BY <2>3, <1>2 DEF GoodItem, ItemRaises, CallRaises
  <2>4. CASE x.via = "direct" /\ ExternalFact(x.to, {"entry", "direct"})
    BY <2>1, <2>4, <1>2, FactCall DEF GoodItem, ItemRaises, GoodCall
  <2> QED
    BY <1>2, <2>2, <2>3, <2>4 DEF SafeByType
<1>3. CASE x.kind = "call" /\ DispatchSafe(x) /\ memo[x.to] = "safe"
  <2>1. x \in Calls /\ x.to \in Fun
    BY <1>3 DEF Items, Calls
  <2>2. x.to \notin Raisers
    BY <1>3, <2>1 DEF IInv, MemoSafe
  <2>3. prog[x.to].spec # "cpp" /\ (EntrySafe(x.to) \/ x.via = "direct")
    BY <1>3 DEF DispatchSafe, EntrySafe
  <2>4. GoodCall(x)
    BY <2>2, <2>3, GoodCallOf
  <2> QED
    BY <1>3, <2>4 DEF GoodItem, ItemRaises, GoodCall
<1> QED
  BY <1>1, <1>2, <1>3 DEF ItemSafe

-----------------------------------------------------------------------------
(* What depends on the program alone stays as it is.                            *)
LEMMA SameRaisers == ASSUME prog' = prog PROVE Raisers' = Raisers
BY DEF Raisers, CanRaise, Closed, ItemRaises, CallRaises, MayRunOverride, Body

LEMMA SameProgram ==
    ASSUME prog' = prog
    PROVE  /\ \A f : Body(f)' = Body(f) /\ (EntrySafe(f)' <=> EntrySafe(f))
           /\ \A x : GoodItem(x)' <=> GoodItem(x)
           /\ \A c : GoodCall(c)' <=> GoodCall(c)
           /\ \A s : Item(s)' = Item(s)
           /\ \A F : SitesOf(F)' = SitesOf(F)
<1>1. Raisers' = Raisers
  BY SameRaisers
<1>2. \A f : Body(f)' = Body(f) /\ (EntrySafe(f)' <=> EntrySafe(f))
  BY DEF Body, EntrySafe
<1>3. \A c : GoodCall(c)' <=> GoodCall(c)
  BY <1>1 DEF GoodCall, CallRaises, MayRunOverride
<1>4. \A x : GoodItem(x)' <=> GoodItem(x)
  BY <1>1 DEF GoodItem, ItemRaises, CallRaises, MayRunOverride
<1>5. \A s : Item(s)' = Item(s)
  BY DEF Item, Body
<1>6. \A F : SitesOf(F)' = SitesOf(F)
  BY DEF SitesOf, Body
<1> QED
  BY <1>2, <1>3, <1>4, <1>5, <1>6

(* To start the analysis of a body disturbs nothing.                            *)
LEMMA AnalyseStep ==
    ASSUME InferenceTypeOK, VisitedSafe, MemoSafe, NEW f \in Fun, Analyse(f), prog' = prog
    PROVE  /\ stack' \in Seq(Frame)
           /\ memo' \in [Fun -> {"safe", "unsafe", "busy", "new"}]
           /\ VisitedSafe' /\ MemoSafe'
<1>1. stack' = Append(stack, [fun |-> f, at |-> 1]) /\ memo' = [memo EXCEPT ![f] = "busy"]
  BY DEF Analyse
<1>2. [fun |-> f, at |-> 1] \in Frame
  BY DEF Frame
<1>3. stack' \in Seq(Frame)
  BY <1>1, <1>2 DEF InferenceTypeOK
<1>4. memo' \in [Fun -> {"safe", "unsafe", "busy", "new"}]
  BY <1>1 DEF InferenceTypeOK
<1>5. MemoSafe'
  BY <1>1, SameRaisers DEF MemoSafe, InferenceTypeOK
<1>6. VisitedSafe'
  <2> SUFFICES ASSUME NEW k \in DOMAIN stack', NEW i \in DOMAIN Body(stack'[k].fun),
                      i < stack'[k].at
               PROVE  GoodItem(Body(stack'[k].fun)[i])
    BY SameProgram, Zenon DEF VisitedSafe
  <2>1. CASE k \in DOMAIN stack
    <3>1. stack'[k] = stack[k]
      BY <1>1, <1>2, <2>1 DEF InferenceTypeOK
    <3> QED
      BY <3>1, <2>1 DEF VisitedSafe
  <2>2. CASE k \notin DOMAIN stack
    <3>1. stack'[k].at = 1
      BY <1>1, <1>2, <2>2 DEF InferenceTypeOK
    <3>2. stack'[k].fun \in Fun
      <4>1. stack'[k] \in Frame
        BY <1>3
      <4> QED
        BY <4>1 DEF Frame
    <3>3. \A g \in Fun : Body(g) \in Seq(Items)
      BY ProgramType
    <3>4. \A j \in DOMAIN Body(stack'[k].fun) : j \in Nat /\ j >= 1
      BY <3>2, <3>3
    <3> QED
      BY <3>1, <3>4
  <2> QED
    BY <2>1, <2>2
<1> QED
  BY <1>3, <1>4, <1>5, <1>6

LEMMA ConcludeStep ==
    ASSUME InferenceTypeOK, VisitedSafe, MemoSafe, Busy, prog' = prog,
           NEW answer \in {"safe", "unsafe"}, Conclude(answer),
           answer = "safe" => Top.fun \notin Raisers
    PROVE  /\ stack' \in Seq(Frame)
           /\ memo' \in [Fun -> {"safe", "unsafe", "busy", "new"}]
           /\ VisitedSafe' /\ MemoSafe'
<1>1. stack \in Seq(Frame) /\ Len(stack) \in Nat \ {0}
  BY DEF InferenceTypeOK, Busy
<1>2. Top.fun \in Fun
  <2>1. Len(stack) \in DOMAIN stack
    BY <1>1
  <2>2. Top \in Frame
    BY <1>1, <2>1 DEF Top
  <2> QED
    BY <2>2 DEF Frame
<1>3. stack' = SubSeq(stack, 1, Len(stack) - 1) /\ memo' = [memo EXCEPT ![Top.fun] = answer]
  BY DEF Conclude, Below
<1>4. stack' \in Seq(Frame) /\ DOMAIN stack' \subseteq DOMAIN stack
      /\ \A k \in DOMAIN stack' : stack'[k] = stack[k]
  BY <1>1, <1>3
<1>5. memo' \in [Fun -> {"safe", "unsafe", "busy", "new"}]
  BY <1>3 DEF InferenceTypeOK
<1>6. MemoSafe'
  BY <1>2, <1>3, SameRaisers DEF MemoSafe, InferenceTypeOK
<1>7. VisitedSafe'
  <2> SUFFICES ASSUME NEW k \in DOMAIN stack', NEW i \in DOMAIN Body(stack'[k].fun),
                      i < stack'[k].at
               PROVE  GoodItem(Body(stack'[k].fun)[i])
    BY SameProgram, Zenon DEF VisitedSafe
  <2> QED
    BY <1>4 DEF VisitedSafe
<1> QED
  BY <1>4, <1>5, <1>6, <1>7

(* The visitor passes one more construct.                                      *)
LEMMA PassStep ==
    ASSUME IInv, Lookup = FALSE, Busy, prog' = prog, UNCHANGED memo,
           Top.at <= Len(Body(Top.fun)), ItemSafe(Body(Top.fun)[Top.at]),
           stack' = [stack EXCEPT ![Len(stack)].at = @ + 1]
    PROVE  stack' \in Seq(Frame) /\ VisitedSafe'
<1>1. stack \in Seq(Frame) /\ Len(stack) \in Nat \ {0} /\ InferenceTypeOK /\ VisitedSafe
  BY DEF IInv, InferenceTypeOK, Busy
<1>2. Len(stack) \in DOMAIN stack /\ Top \in Frame
  BY <1>1 DEF Top
<1>3. Top.fun \in Fun /\ Top.at \in Nat \ {0}
  BY <1>2 DEF Frame
<1> DEFINE top == [Top EXCEPT !.at = @ + 1]
<1>4. top \in Frame /\ top.fun = Top.fun /\ top.at = Top.at + 1
  BY <1>2, <1>3 DEF Frame
<1>5. Body(Top.fun) \in Seq(Items)
  BY <1>1, <1>3, ProgramType
<1>6. GoodItem(Body(Top.fun)[Top.at])
  <2>1. Top.at \in DOMAIN Body(Top.fun)
    BY <1>3, <1>5
  <2>2. Body(Top.fun)[Top.at] \in Items
    BY <1>5, <2>1
  <2> QED
    BY <2>2, ItemSafeSound
<1>7. /\ stack' \in Seq(Frame) /\ DOMAIN stack' = DOMAIN stack
      /\ stack'[Len(stack)] = top
      /\ \A k \in DOMAIN stack : k # Len(stack) => stack'[k] = stack[k]
  <2>1. stack' = [stack EXCEPT ![Len(stack)] = top]
    BY DEF Top
  <2> HIDE DEF top
  <2> QED
    BY <1>1, <1>2, <1>4, <2>1
<1>8. VisitedSafe'
  <2> SUFFICES ASSUME NEW k \in DOMAIN stack', NEW i \in DOMAIN Body(stack'[k].fun),
                      i < stack'[k].at
               PROVE  GoodItem(Body(stack'[k].fun)[i])
    BY SameProgram, Zenon DEF VisitedSafe
  <2>1. CASE k # Len(stack)
    <3>1. k \in DOMAIN stack /\ stack'[k] = stack[k]
      BY <1>7, <2>1
    <3> QED
      BY <1>1, <3>1 DEF VisitedSafe
  <2>2. CASE k = Len(stack)
    <3>1. stack'[k].fun = Top.fun /\ stack'[k].at = Top.at + 1
      BY <1>4, <1>7, <2>2
    <3>2. i \in DOMAIN Body(Top.fun) /\ i \in Nat /\ i < Top.at + 1
      BY <1>5, <3>1
    <3>3. CASE i = Top.at
      BY <1>6, <3>1, <3>3
    <3>4. CASE i < Top.at
      <4>1. i \in DOMAIN Body(stack[Len(stack)].fun) /\ i < stack[Len(stack)].at
        BY <3>2, <3>4 DEF Top
      <4>2. GoodItem(Body(stack[Len(stack)].fun)[i])
        BY <1>1, <1>2, <4>1 DEF VisitedSafe
      <4> QED
        BY <3>1, <4>2 DEF Top
    <3> QED
      BY <1>3, <3>2, <3>3, <3>4
  <2> QED
    BY <2>1, <2>2
<1> QED
  BY <1>7, <1>8

(* The visitor calls a body safe at its end, when nothing in it can raise.       *)
LEMMA EndOfBody ==
    ASSUME IInv, Busy, ~prog[Top.fun].profile, Top.at > Len(Body(Top.fun))
    PROVE  Top.fun \notin Raisers
<1>1. stack \in Seq(Frame) /\ Len(stack) \in Nat \ {0} /\ InferenceTypeOK /\ VisitedSafe
  BY DEF IInv, InferenceTypeOK, Busy
<1>2. Len(stack) \in DOMAIN stack /\ Top \in Frame
  BY <1>1 DEF Top
<1>3. Top.fun \in Fun /\ Top.at \in Nat \ {0}
  BY <1>2 DEF Frame
<1>4. Body(Top.fun) \in Seq(Items)
  BY <1>1, <1>3, ProgramType
<1>5. ASSUME NEW i \in DOMAIN Body(Top.fun) PROVE GoodItem(Body(Top.fun)[i])
  <2>1. i < Top.at
    BY <1>3, <1>4
  <2> QED
    BY <1>1, <1>2, <2>1 DEF VisitedSafe, Top
<1> QED
  BY <1>3, <1>5, SafeBody

LEMMA VisitStep ==
    ASSUME IInv, Lookup = FALSE, Visit
    PROVE  IInv'
<1>1. /\ Busy /\ prog' = prog
      /\ UNCHANGED <<remaining, sites, marked, facts, patched, unchecked>>
      /\ InferenceTypeOK /\ VisitedSafe /\ MemoSafe
  BY DEF Visit, outcome, IInv
<1>2. Top.fun \in Fun
  <2>1. stack \in Seq(Frame) /\ Len(stack) \in DOMAIN stack
    BY <1>1 DEF InferenceTypeOK, Busy
  <2>2. Top \in Frame
    BY <2>1 DEF Top
  <2> QED
    BY <2>2 DEF Frame
<1> DEFINE Goal == /\ stack' \in Seq(Frame)
                   /\ memo' \in [Fun -> {"safe", "unsafe", "busy", "new"}]
                   /\ VisitedSafe' /\ MemoSafe'
<1>3. Goal
  <2>1. CASE Conclude("unsafe")
    BY <1>1, <2>1, ConcludeStep
  <2>2. CASE ~prog[Top.fun].profile /\ Top.at > Len(Body(Top.fun)) /\ Conclude("safe")
    BY <1>1, <2>2, ConcludeStep, EndOfBody
  <2>3. CASE /\ Top.at <= Len(Body(Top.fun)) /\ ItemSafe(Body(Top.fun)[Top.at])
             /\ stack' = [stack EXCEPT ![Len(stack)].at = @ + 1] /\ UNCHANGED memo
    <3>1. stack' \in Seq(Frame) /\ VisitedSafe'
      BY <1>1, <2>3, PassStep
    <3>2. MemoSafe'
      BY <1>1, <2>3, SameRaisers DEF MemoSafe
    <3>3. memo' \in [Fun -> {"safe", "unsafe", "busy", "new"}]
      BY <1>1, <2>3 DEF InferenceTypeOK
    <3> QED
      BY <3>1, <3>2, <3>3
  <2>4. CASE /\ Top.at <= Len(Body(Top.fun)) /\ NeedsBody(Body(Top.fun)[Top.at])
             /\ Analyse(Body(Top.fun)[Top.at].to)
    <3>1. Body(Top.fun) \in Seq(Items)
      BY <1>1, <1>2, ProgramType
    <3>2. Top.at \in Nat \ {0}
      <4>1. stack \in Seq(Frame) /\ Len(stack) \in DOMAIN stack
        BY <1>1 DEF InferenceTypeOK, Busy
      <4>2. Top \in Frame
        BY <4>1 DEF Top
      <4> QED
        BY <4>2 DEF Frame
    <3>3. Body(Top.fun)[Top.at] \in Items
      BY <2>4, <3>1, <3>2
    <3>4. Body(Top.fun)[Top.at].to \in Fun
      BY <2>4, <3>3 DEF NeedsBody, Items, Calls
    <3> QED
      BY <1>1, <2>4, <3>4, AnalyseStep
  <2>5. Top.at \in Nat /\ Len(Body(Top.fun)) \in Nat
    <3>1. stack \in Seq(Frame) /\ Len(stack) \in DOMAIN stack
      BY <1>1 DEF InferenceTypeOK, Busy
    <3>2. Top \in Frame
      BY <3>1 DEF Top
    <3>3. Body(Top.fun) \in Seq(Items)
      BY <1>1, <1>2, ProgramType
    <3> QED
      BY <3>2, <3>3 DEF Frame
  <2>6. Top.at > Len(Body(Top.fun)) \/ Top.at <= Len(Body(Top.fun))
    BY <2>5
  <2> QED
    BY <2>1, <2>2, <2>3, <2>4, <2>6, Zenon DEF Visit
<1>4. InferenceTypeOK'
  BY <1>1, <1>3, SameProgram DEF InferenceTypeOK
<1>5. MarkedSafe' /\ FactsSafe' /\ CallsSafe'
  BY <1>1, SameProgram, SameRaisers DEF IInv, MarkedSafe, FactsSafe, CallsSafe
<1> QED
  BY <1>3, <1>4, <1>5 DEF IInv

LEMMA ConsiderStep ==
    ASSUME IInv, NEW f \in remaining, Consider(f)
    PROVE  IInv'
<1>1. /\ InferenceTypeOK /\ VisitedSafe /\ MemoSafe /\ MarkedSafe /\ FactsSafe /\ CallsSafe
      /\ prog' = prog /\ UNCHANGED <<sites, unchecked>>
      /\ f \in Fun
  BY DEF Consider, IInv, InferenceTypeOK
<1>2. CASE Candidate(f) /\ Analyse(f) /\ UNCHANGED <<remaining, outcome>>
  <2>1. /\ stack' \in Seq(Frame)
        /\ memo' \in [Fun -> {"safe", "unsafe", "busy", "new"}]
        /\ VisitedSafe' /\ MemoSafe'
    BY <1>1, <1>2, AnalyseStep
  <2>2. InferenceTypeOK'
    BY <1>1, <1>2, <2>1, SameProgram DEF InferenceTypeOK, outcome
  <2>3. MarkedSafe' /\ FactsSafe' /\ CallsSafe'
    BY <1>1, <1>2, SameProgram, SameRaisers DEF MarkedSafe, FactsSafe, CallsSafe, outcome
  <2> QED
    BY <2>1, <2>2, <2>3 DEF IInv
<1>3. CASE /\ remaining' = remaining \ {f} /\ UNCHANGED <<stack, memo, marked, facts, patched>>
  <2>1. InferenceTypeOK'
    BY <1>1, <1>3, SameProgram DEF InferenceTypeOK
  <2>2. VisitedSafe' /\ MemoSafe'
    BY <1>1, <1>3, SameProgram, SameRaisers DEF VisitedSafe, MemoSafe
  <2>3. MarkedSafe' /\ FactsSafe' /\ CallsSafe'
    BY <1>1, <1>3, SameProgram, SameRaisers DEF MarkedSafe, FactsSafe, CallsSafe
  <2> QED
    BY <2>1, <2>2, <2>3 DEF IInv
<1>4. CASE /\ Candidate(f) /\ memo[f] = "safe" /\ remaining' = remaining \ {f} /\ Mark(f)
           /\ UNCHANGED <<stack, memo, patched>>
  <2>1. f \notin Raisers /\ prog[f].spec # "cpp"
    BY <1>1, <1>4 DEF MemoSafe, Candidate, Eligible, UserSpec
  <2>2. /\ marked' = IF EntrySafe(f) THEN marked \cup {f} ELSE marked
        /\ facts' = IF phase = "facts"
                    THEN [facts EXCEPT ![f] = IF EntrySafe(f) THEN "entry" ELSE "direct"]
                    ELSE facts
    BY <1>4 DEF Mark
  <2>3. marked' \subseteq Fun
    BY <1>1, <2>2 DEF InferenceTypeOK
  <2>4. facts' \in [Fun -> {"entry", "direct", "none"}]
    <3>1. CASE phase = "facts" /\ EntrySafe(f)
      BY <1>1, <2>2, <3>1 DEF InferenceTypeOK
    <3>2. CASE phase = "facts" /\ ~EntrySafe(f)
      BY <1>1, <2>2, <3>2 DEF InferenceTypeOK
    <3>3. CASE phase # "facts"
      BY <1>1, <2>2, <3>3 DEF InferenceTypeOK
    <3> QED
      BY <3>1, <3>2, <3>3
  <2>5. InferenceTypeOK'
    BY <1>1, <1>4, <2>3, <2>4, SameProgram DEF InferenceTypeOK
  <2>6. VisitedSafe' /\ MemoSafe'
    BY <1>1, <1>4, SameProgram, SameRaisers DEF VisitedSafe, MemoSafe
  <2>7. CallsSafe'
    BY <1>1, <1>4, SameProgram DEF CallsSafe
  <2>8. MarkedSafe'
    BY <1>1, <2>1, <2>2, SameProgram, SameRaisers DEF MarkedSafe
  <2>9. FactsSafe'
    <3> SUFFICES ASSUME NEW g \in Fun, facts'[g] # "none"
                 PROVE  /\ g \notin Raisers /\ prog[g].spec # "cpp"
                        /\ facts'[g] = "entry" => EntrySafe(g)
      BY <1>1, SameProgram, SameRaisers DEF FactsSafe
    <3>1. CASE g = f /\ phase = "facts"
      BY <1>1, <2>1, <2>2, <3>1 DEF InferenceTypeOK
    <3>2. CASE ~(g = f /\ phase = "facts")
      <4>1. facts'[g] = facts[g]
        BY <1>1, <2>2, <3>2 DEF InferenceTypeOK
      <4> QED
        BY <1>1, <4>1 DEF FactsSafe
    <3> QED
      BY <3>1, <3>2
  <2> QED
    BY <2>5, <2>6, <2>7, <2>8, <2>9 DEF IInv
<1> QED
  BY <1>2, <1>3, <1>4 DEF Consider, visitor, outcome

LEMMA PatchStep ==
    ASSUME IInv, Lookup = FALSE, NEW s \in sites, PatchSite(s)
    PROVE  IInv'
<1> DEFINE c == Item(s)
           own == prog[c.to].mod = current
           yes == IF own THEN memo[c.to] = "safe" /\ Patchable(c)
                  ELSE c.via = "direct" /\ ExternalFact(c.to, {"entry", "direct"})
<1>1. /\ InferenceTypeOK /\ VisitedSafe /\ MemoSafe /\ MarkedSafe /\ FactsSafe /\ CallsSafe
      /\ prog' = prog /\ UNCHANGED <<remaining, marked, facts, unchecked>>
      /\ s \in SitesOf(Fun)
  BY DEF PatchSite, IInv, InferenceTypeOK
<1>2. c \in Calls /\ c.to \in Fun
  BY <1>1, SiteType DEF Calls
<1>3. MarkedSafe' /\ FactsSafe'
  BY <1>1, SameProgram, SameRaisers DEF MarkedSafe, FactsSafe
<1>4. CASE Analyse(c.to) /\ UNCHANGED <<sites, patched>>
  <2>1. /\ stack' \in Seq(Frame)
        /\ memo' \in [Fun -> {"safe", "unsafe", "busy", "new"}]
        /\ VisitedSafe' /\ MemoSafe'
    BY <1>1, <1>2, <1>4, AnalyseStep
  <2>2. InferenceTypeOK'
    BY <1>1, <1>4, <2>1, SameProgram DEF InferenceTypeOK
  <2>3. CallsSafe'
    BY <1>1, <1>4, SameProgram DEF CallsSafe
  <2> QED
    BY <1>3, <2>1, <2>2, <2>3 DEF IInv
<1>5. CASE /\ sites' = sites \ {s} /\ UNCHANGED visitor
           /\ patched' = IF Open(s) /\ yes THEN patched \cup {s} ELSE patched
  <2>1. ASSUME Open(s), yes PROVE GoodCall(c)
    <3>1. prog[c.to].spec # "cpp"
      BY <2>1 DEF Open, UserSpec
    <3>2. CASE own
      <4>1. c.to \notin Raisers
        BY <1>1, <1>2, <2>1, <3>2 DEF MemoSafe
      <4>2. EntrySafe(c.to) \/ c.via = "direct"
        BY <1>1, <2>1, <3>2 DEF Patchable, MarkedSafe
      <4> QED
        BY <3>1, <4>1, <4>2, GoodCallOf
    <3>3. CASE ~own
      BY <1>2, <2>1, <3>3, FactCall
    <3> QED
      BY <3>2, <3>3
  <2>2. CallsSafe'
    <3> HIDE DEF yes
    <3>1. \A r \in patched' \cup unchecked : GoodCall(Item(r))
      BY <1>1, <1>5, <2>1 DEF CallsSafe
    <3> QED
      BY <1>1, <3>1, SameProgram DEF CallsSafe
  <2>3. InferenceTypeOK'
    BY <1>1, <1>5, SameProgram DEF InferenceTypeOK, visitor
  <2>4. VisitedSafe' /\ MemoSafe'
    BY <1>1, <1>5, SameProgram, SameRaisers DEF VisitedSafe, MemoSafe, visitor
  <2> QED
    BY <1>3, <2>2, <2>3, <2>4 DEF IInv
<1> QED
  BY <1>4, <1>5 DEF PatchSite

LEMMA LoadStep ==
    ASSUME IInv, NEW m, NEW ph, Load(m, ph), UNCHANGED <<prog, facts>>, CallsSafe'
    PROVE  IInv'
<1>1. InferenceTypeOK /\ FactsSafe
  BY DEF IInv
<1>2. /\ remaining' \subseteq Fun /\ stack' = <<>> /\ memo' = [f \in Fun |-> "new"]
      /\ marked' \subseteq {f \in Fun : facts[f] = "entry"}
  BY DEF Load, Own
<1>3. sites' \subseteq SitesOf(Fun)
  BY DEF Load, Own, SitesOf
<1>4. InferenceTypeOK'
  BY <1>1, <1>2, <1>3, SameProgram DEF InferenceTypeOK
<1>5. VisitedSafe' /\ MemoSafe'
  BY <1>2 DEF VisitedSafe, MemoSafe
<1>6. FactsSafe'
  BY <1>1, SameProgram, SameRaisers DEF FactsSafe
<1>7. MarkedSafe'
  BY <1>1, <1>2, SameProgram, SameRaisers DEF MarkedSafe, FactsSafe
<1> QED
  BY <1>4, <1>5, <1>6, <1>7 DEF IInv

LEMMA FinishStep ==
    ASSUME IInv, Lookup = FALSE, FinishModule
    PROVE  IInv'
<1>1. prog' = prog /\ facts' = facts /\ InferenceTypeOK /\ CallsSafe
  BY DEF FinishModule, IInv
<1>2. \A s \in unchecked' : GoodCall(Item(s))
  <2>1. ASSUME NEW s \in SitesOf(Own(current)), TypeMarked(Item(s)) PROVE GoodCall(Item(s))
    <3>1. s \in SitesOf(Fun)
      BY DEF SitesOf, Own
    <3>2. Item(s) \in Calls
      BY <1>1, <3>1, SiteType
    <3> QED
      BY <2>1, <3>2, MarkedCall
  <2> QED
    BY <1>1, <2>1 DEF FinishModule, CallsSafe
<1>3. CASE Load(current + 1, phase) \/ Load(1, "compile")
  <2>1. patched' = {}
    BY <1>3 DEF Load
  <2>2. CallsSafe'
    BY <1>1, <1>2, <2>1, SameProgram DEF CallsSafe
  <2> QED
    BY <1>1, <1>3, <2>2, LoadStep
<1>4. CASE UNCHANGED <<current, remaining, sites, stack, memo, marked, patched>>
  <2>1. InferenceTypeOK'
    BY <1>1, <1>4, SameProgram DEF InferenceTypeOK
  <2>2. CallsSafe'
    BY <1>1, <1>2, <1>4, SameProgram DEF CallsSafe
  <2>3. VisitedSafe' /\ MemoSafe' /\ MarkedSafe' /\ FactsSafe'
    BY <1>1, <1>4, SameProgram, SameRaisers
       DEF IInv, VisitedSafe, MemoSafe, MarkedSafe, FactsSafe
  <2> QED
    BY <2>1, <2>2, <2>3 DEF IInv
<1> QED
  BY <1>3, <1>4 DEF FinishModule

-----------------------------------------------------------------------------
LEMMA InitSafe == InferenceInit => IInv
<1> SUFFICES ASSUME InferenceInit PROVE IInv
  OBVIOUS
<1>1. /\ prog \in Program /\ remaining = Own(1) /\ sites = SitesOf(Own(1))
      /\ memo = [f \in Fun |-> "new"] /\ stack = <<>>
      /\ marked = {} /\ patched = {} /\ unchecked = {} /\ facts = [f \in Fun |-> "none"]
  BY DEF InferenceInit
<1>2. sites \subseteq SitesOf(Fun) /\ remaining \subseteq Fun
  BY <1>1 DEF SitesOf, Own
<1>3. InferenceTypeOK
  BY <1>1, <1>2 DEF InferenceTypeOK
<1> QED
  BY <1>1, <1>3 DEF IInv, VisitedSafe, MemoSafe, MarkedSafe, FactsSafe, CallsSafe

LEMMA StepSafe == ASSUME Lookup = FALSE PROVE IInv /\ [InferenceNext]_inferenceVars => IInv'
<1> SUFFICES ASSUME IInv, [InferenceNext]_inferenceVars PROVE IInv'
  OBVIOUS
<1>1. CASE UNCHANGED inferenceVars
  <2>1. prog' = prog /\ UNCHANGED <<remaining, sites, stack, memo, marked, facts, patched, unchecked>>
    BY <1>1 DEF inferenceVars
  <2>2. InferenceTypeOK'
    BY <2>1, SameProgram DEF IInv, InferenceTypeOK
  <2>3. VisitedSafe' /\ MemoSafe' /\ MarkedSafe' /\ FactsSafe' /\ CallsSafe'
    BY <2>1, SameProgram, SameRaisers
       DEF IInv, VisitedSafe, MemoSafe, MarkedSafe, FactsSafe, CallsSafe
  <2> QED
    BY <2>2, <2>3 DEF IInv
<1>2. CASE InferenceNext
  BY <1>2, VisitStep, FinishStep, ConsiderStep, PatchStep DEF InferenceNext
<1> QED
  BY <1>1, <1>2

(* A body that the analysis calls safe cannot raise: the memo of                 *)
(* _BodyRaiseAnalysis, at any time.                                            *)
THEOREM SafeBodies == ASSUME Lookup = FALSE PROVE InferenceSpec => []SafeBodiesDoNotRaise
<1>1. IInv => SafeBodiesDoNotRaise
  BY DEF IInv, MemoSafe, SafeBodiesDoNotRaise, Raisers
<1> QED
  BY <1>1, InitSafe, StepSafe, PTL DEF InferenceSpec

(* A call that can raise is never left without its check in the generated code.  *)
THEOREM UncheckedCalls == ASSUME Lookup = FALSE PROVE InferenceSpec => []UncheckedCallsDoNotRaise
<1>1. IInv => UncheckedCallsDoNotRaise
  BY DEF IInv, CallsSafe, GoodCall, UncheckedCallsDoNotRaise, Raisers
<1> QED
  BY <1>1, InitSafe, StepSafe, PTL DEF InferenceSpec

-----------------------------------------------------------------------------
(***************************************************************************)
(* Completeness: what the first phase found safe, the second finds safe     *)
(* again, and a candidate that cannot raise is only missed across modules   *)
(* and round cycles.  For any programs, with or without the lookup of       *)
(* module functions.                                                       *)
(*                                                                         *)
(* A function is Proven when a finite derivation shows it safe from its own *)
(* module alone.  Of a proven function, and of an Acyclic one, every call   *)
(* is justified by functions of the same kind.  So the visitor could only   *)
(* miss one when it meets a call of a body it is in the middle of; the      *)
(* bodies on the stack, each waiting for the next, would form a cycle.      *)
(***************************************************************************)

(* The call c in the body of f is decided in the module of f.                 *)
Local(f, c) ==
    /\ prog[c.to].mod = prog[f].mod /\ prog[c.to].spec # "cpp"
    /\ EntrySafe(c.to) \/ c.via = "direct"

Justified(f, x, D) ==
    \/ x.kind = "plain"
    \/ x.kind = "call" /\ (prog[x.to].spec = "noexcept" \/ (Local(f, x) /\ x.to \in D))

Supported(f, D) ==
    ~prog[f].profile /\ \A i \in DOMAIN Body(f) : Justified(f, Body(f)[i], D)

Inductive(D) == \A f \in Fun : Supported(f, D) => f \in D

Proven == {f \in Fun : \A D \in SUBSET Fun : Inductive(D) => f \in D}

Acyclic ==
    {f \in Fun : /\ ~CanRaise(f)
                 /\ \A g \in Fun : Reaches(f, g) => prog[g].mod = prog[f].mod /\ ~Reaches(g, g)}

(* The bodies under analysis are the busy ones, and each waits for the next.  *)
StackBusy ==
    /\ \A f \in Fun : memo[f] = "busy" <=> \E k \in DOMAIN stack : stack[k].fun = f
    /\ \A j, k \in DOMAIN stack : stack[j].fun = stack[k].fun => j = k

Waits(f, i, g) ==
    /\ i \in DOMAIN Body(f)
    /\ Body(f)[i].kind = "call" /\ Body(f)[i].to = g /\ prog[g].spec # "noexcept"

StackWaits ==
    \A k \in DOMAIN stack : k < Len(stack) => Waits(stack[k].fun, stack[k].at, stack[k + 1].fun)

StackReaches ==
    \A j, k \in DOMAIN stack : j < k => Reaches(stack[j].fun, stack[k].fun)

(* Only the functions of the module are analysed, and none is missed.         *)
MemoOwn == \A f \in Fun : memo[f] # "new" => prog[f].mod = current

NoneMissed == \A f \in Proven \cup Acyclic : memo[f] # "unsafe"

(* What was considered was concluded, and marked where it could be.           *)
MarkedMemo == \A f \in marked : prog[f].mod = current => memo[f] = "safe"

Considered ==
    /\ remaining \subseteq Own(current)
    /\ \A f \in Own(current) \ remaining :
          Eligible(f) => \/ memo[f] = "unsafe"
                         \/ memo[f] = "safe" /\ (EntrySafe(f) => f \in marked)

(* The first phase calls nothing safe but what is proven.                     *)
MemoProven == \A f \in Fun : memo[f] = "safe" => f \in Proven

MarkedOwn == \A f \in marked : prog[f].mod = current /\ prog[f].spec # "cpp" /\ EntrySafe(f)

StackJustified ==
    \A k \in DOMAIN stack : \A i \in DOMAIN Body(stack[k].fun) :
        i < stack[k].at => Justified(stack[k].fun, Body(stack[k].fun)[i], Proven)

FirstPhase == phase = "facts" => MemoProven /\ MarkedOwn /\ StackJustified

FactsProven ==
    \A f \in Fun : facts[f] # "none" =>
        f \in Proven /\ Eligible(f) /\ (facts[f] = "entry" => EntrySafe(f))

CompleteInv ==
    /\ InferenceTypeOK /\ StackBusy /\ StackWaits /\ StackReaches
    /\ MemoOwn /\ NoneMissed /\ MarkedMemo /\ Considered /\ FirstPhase /\ FactsProven

LEMMA JustifiedMonotone ==
    ASSUME NEW f, NEW x, NEW D, NEW E, D \subseteq E, Justified(f, x, D)
    PROVE  Justified(f, x, E)
BY DEF Justified

LEMMA SupportedMonotone ==
    ASSUME NEW f, NEW D, NEW E, D \subseteq E, Supported(f, D)
    PROVE  Supported(f, E)
BY JustifiedMonotone DEF Supported

(* Proven is the least solution, and every one of its functions is supported.  *)
LEMMA ProvenLeast ==
    ASSUME NEW D \in SUBSET Fun, Inductive(D)
    PROVE  Proven \subseteq D
BY DEF Proven

LEMMA ProvenInductive == Inductive(Proven)
<1> SUFFICES ASSUME NEW f \in Fun, Supported(f, Proven), NEW D \in SUBSET Fun, Inductive(D)
             PROVE  f \in D
  BY DEF Inductive, Proven
<1>1. Supported(f, D)
  BY ProvenLeast, SupportedMonotone
<1> QED
  BY <1>1 DEF Inductive

LEMMA ProvenSupported == \A f \in Proven : Supported(f, Proven)
<1> DEFINE D == {f \in Proven : Supported(f, Proven)}
<1>1. D \in SUBSET Fun /\ D \subseteq Proven
  BY DEF Proven
<1>2. ASSUME NEW f \in Fun, Supported(f, D) PROVE f \in D
  <2>1. Supported(f, Proven)
    BY <1>1, <1>2, SupportedMonotone
  <2> QED
    BY <2>1, ProvenInductive DEF Inductive
<1>3. Inductive(D)
  BY <1>2 DEF Inductive
<1> QED
  BY <1>1, <1>3, ProvenLeast

(* Calls lead from f to whatever its callees lead to.                         *)
LEMMA CalleeReached ==
    ASSUME InferenceTypeOK, NEW f \in Fun, NEW i \in DOMAIN Body(f), Body(f)[i].kind = "call"
    PROVE  Body(f)[i].to \in Fun /\ Body(f)[i].to \in Callees(f) /\ Reaches(f, Body(f)[i].to)
<1>1. <<f, i>> \in SitesOf({f}) /\ Item(<<f, i>>) = Body(f)[i]
  BY DEF SitesOf, Item
<1>2. Body(f)[i].to \in Callees(f)
  BY <1>1 DEF Callees
<1>3. Body(f)[i] \in Calls
  BY ProgramType DEF Items, Calls
<1> QED
  BY <1>2, <1>3 DEF Reaches, Calls

LEMMA ReachesTransitive ==
    ASSUME NEW f \in Fun, NEW g \in Fun, NEW h, Reaches(f, g), Reaches(g, h)
    PROVE  Reaches(f, h)
<1> SUFFICES ASSUME NEW S \in SUBSET Fun, Callees(f) \subseteq S, \A e \in S : Callees(e) \subseteq S
             PROVE  h \in S
  BY DEF Reaches
<1>1. g \in S
  BY DEF Reaches
<1> QED
  BY <1>1 DEF Reaches

LEMMA AcyclicSupported ==
    ASSUME InferenceTypeOK, NEW f \in Acyclic
    PROVE  Supported(f, Acyclic)
<1>1. f \in Fun /\ f \notin Raisers
  BY DEF Acyclic, Raisers
<1>2. ~prog[f].profile
  BY <1>1, RaisersClosed DEF Closed
<1>3. ASSUME NEW i \in DOMAIN Body(f) PROVE Justified(f, Body(f)[i], Acyclic)
  <2> DEFINE x == Body(f)[i]
  <2>1. ~ItemRaises(x, Raisers)
    BY <1>1, RaisersClosed DEF Closed
  <2>2. x \in Items
    BY <1>1, ProgramType
  <2>3. CASE x.kind = "plain"
    BY <2>3 DEF Justified
  <2>4. CASE x.kind = "call" /\ prog[x.to].spec = "noexcept"
    BY <2>4 DEF Justified
  <2>5. CASE x.kind = "call" /\ prog[x.to].spec # "noexcept"
    <3>1. x.to \in Fun /\ Reaches(f, x.to) /\ x \in Calls
      BY <1>1, <2>2, <2>5, CalleeReached DEF Items, Calls
    <3>2. prog[x.to].spec # "cpp" /\ ~MayRunOverride(x) /\ x.to \notin Raisers
      BY <2>1, <2>5 DEF ItemRaises, CallRaises
    <3>3. EntrySafe(x.to) \/ x.via = "direct"
      <4>1. prog[x.to].scope \in Scopes
        BY <3>1, ProgramType DEF Definition
      <4> QED
        BY <3>2, <4>1 DEF MayRunOverride, EntrySafe, Scopes
    <3>4. prog[x.to].mod = prog[f].mod
      BY <3>1 DEF Acyclic
    <3>5. \A g \in Fun : Reaches(x.to, g) => Reaches(f, g)
      BY <1>1, <3>1, ReachesTransitive
    <3>6. x.to \in Acyclic
      BY <3>1, <3>2, <3>4, <3>5 DEF Acyclic, Raisers
    <3> QED
      BY <2>5, <3>2, <3>3, <3>4, <3>6 DEF Justified, Local
  <2> QED
    BY <2>1, <2>2, <2>3, <2>4, <2>5 DEF Items, ItemRaises, Calls
<1> QED
  BY <1>2, <1>3 DEF Supported

-----------------------------------------------------------------------------
(* The stack of the visitor.                                                  *)
LEMMA StackType ==
    ASSUME InferenceTypeOK
    PROVE  /\ stack \in Seq(Frame) /\ Len(stack) \in Nat /\ DOMAIN stack = 1..Len(stack)
           /\ \A k \in DOMAIN stack : stack[k].fun \in Fun /\ stack[k].at \in Nat \ {0}
           /\ Busy => Len(stack) \in DOMAIN stack /\ Top = stack[Len(stack)] /\ Top.fun \in Fun
                      /\ Top.at \in Nat \ {0}
<1>1. stack \in Seq(Frame) /\ Len(stack) \in Nat /\ DOMAIN stack = 1..Len(stack)
  BY DEF InferenceTypeOK
<1>2. \A k \in DOMAIN stack : stack[k] \in Frame
  BY <1>1
<1>3. \A k \in DOMAIN stack : stack[k].fun \in Fun /\ stack[k].at \in Nat \ {0}
  BY <1>2 DEF Frame
<1>4. Busy => Len(stack) \in DOMAIN stack
  BY <1>1 DEF Busy
<1> QED
  BY <1>1, <1>3, <1>4 DEF Top

(* A proven body is not waited for by itself: the bodies from it to the top    *)
(* of the stack could be left out of every derivation.                        *)
LEMMA NoProvenCycle ==
    ASSUME CompleteInv, Busy, NEW k \in DOMAIN stack, Waits(Top.fun, Top.at, stack[k].fun)
    PROVE  stack[k].fun \notin Proven
<1> DEFINE B == {stack[j].fun : j \in k..Len(stack)}
           D == Proven \ B
<1>1. InferenceTypeOK /\ StackWaits
  BY DEF CompleteInv
<1>2. Len(stack) \in Nat /\ DOMAIN stack = 1..Len(stack) /\ Top = stack[Len(stack)]
  BY <1>1, StackType
<1>3. stack[k].fun \in B
  BY <1>2
<1>4. ASSUME NEW f \in B PROVE \E i, g : Waits(f, i, g) /\ g \in B
  <2>1. PICK j \in k..Len(stack) : f = stack[j].fun
    BY <1>4
  <2>2. CASE j = Len(stack)
    BY <1>2, <1>3, <2>1, <2>2
  <2>3. CASE j # Len(stack)
    <3>1. j \in DOMAIN stack /\ j < Len(stack) /\ j + 1 \in k..Len(stack)
      BY <1>2, <2>1, <2>3
    <3>2. Waits(f, stack[j].at, stack[j + 1].fun)
      BY <1>1, <2>1, <3>1 DEF StackWaits
    <3> QED
      BY <3>1, <3>2
  <2> QED
    BY <2>2, <2>3
<1>5. D \in SUBSET Fun /\ D \subseteq Proven /\ D \cap B = {}
  BY DEF Proven
<1> HIDE DEF B, D
<1>6. ASSUME NEW f \in Fun, Supported(f, D) PROVE f \notin B
  <2> SUFFICES ASSUME f \in B PROVE FALSE
    OBVIOUS
  <2>1. PICK i, g : Waits(f, i, g) /\ g \in B
    BY <1>4
  <2>2. Justified(f, Body(f)[i], D)
    BY <1>6, <2>1 DEF Supported, Waits
  <2>3. g \in D
    BY <2>1, <2>2 DEF Justified, Waits
  <2> QED
    BY <1>5, <2>1, <2>3
<1>7. ASSUME NEW f \in Fun, Supported(f, D) PROVE f \in D
  <2>1. Supported(f, Proven)
    BY <1>5, <1>7, SupportedMonotone
  <2>2. f \in Proven
    BY <2>1, ProvenInductive DEF Inductive
  <2> QED
    BY <1>6, <1>7, <2>2 DEF D
<1>8. Proven \subseteq D
  BY <1>5, <1>7, ProvenLeast DEF Inductive
<1> QED
  BY <1>3, <1>5, <1>8

LEMMA NoAcyclicCycle ==
    ASSUME CompleteInv, Busy, NEW k \in DOMAIN stack, Waits(Top.fun, Top.at, stack[k].fun)
    PROVE  Top.fun \notin Acyclic
<1>1. InferenceTypeOK /\ StackReaches
  BY DEF CompleteInv
<1>2. /\ Len(stack) \in DOMAIN stack /\ DOMAIN stack = 1..Len(stack) /\ Len(stack) \in Nat
      /\ Top = stack[Len(stack)] /\ Top.fun \in Fun /\ stack[k].fun \in Fun
  BY <1>1, StackType
<1>3. Reaches(Top.fun, stack[k].fun)
  BY <1>1, <1>2, CalleeReached DEF Waits
<1>4. Reaches(stack[k].fun, stack[k].fun)
  <2>1. CASE k = Len(stack)
    BY <1>2, <1>3, <2>1
  <2>2. CASE k < Len(stack)
    <3>1. Reaches(stack[k].fun, Top.fun)
      BY <1>1, <1>2, <2>2 DEF StackReaches
    <3> QED
      BY <1>2, <1>3, <3>1, ReachesTransitive
  <2> QED
    BY <1>2, <2>1, <2>2
<1> QED
  BY <1>2, <1>3, <1>4 DEF Acyclic

(* The visitor never gives up on a proven or an acyclic body.                  *)
LEMMA NeverGivesUp ==
    ASSUME CompleteInv, Busy, Top.at <= Len(Body(Top.fun)), NEW A, A = Proven \/ A = Acyclic,
           Top.fun \in A
    PROVE  ItemSafe(Body(Top.fun)[Top.at]) \/ NeedsBody(Body(Top.fun)[Top.at])
<1> DEFINE x == Body(Top.fun)[Top.at]
<1> SUFFICES ASSUME ~ItemSafe(x), ~NeedsBody(x) PROVE FALSE
  OBVIOUS
<1>1. InferenceTypeOK /\ StackBusy /\ MemoOwn /\ NoneMissed
  BY DEF CompleteInv
<1>2. Top.fun \in Fun /\ Top.at \in Nat \ {0} /\ Len(stack) \in DOMAIN stack /\ Top = stack[Len(stack)]
  BY <1>1, StackType
<1>3. Top.at \in DOMAIN Body(Top.fun)
  <2>1. Body(Top.fun) \in Seq(Items)
    BY <1>1, <1>2, ProgramType
  <2> QED
    BY <1>2, <2>1
<1>4. Justified(Top.fun, x, A)
  <2>1. Supported(Top.fun, A)
    BY <1>1, ProvenSupported, AcyclicSupported
  <2> QED
    BY <1>3, <2>1 DEF Supported
<1>5. x.kind = "call" /\ ~SafeByType(x) /\ prog[x.to].spec # "noexcept"
  BY <1>4 DEF Justified, ItemSafe, SafeByType
<1>6. Local(Top.fun, x) /\ x.to \in A
  BY <1>4, <1>5 DEF Justified, ItemSafe
<1>7. memo[Top.fun] = "busy" /\ prog[Top.fun].mod = current
  BY <1>1, <1>2 DEF StackBusy, MemoOwn
<1>8. DispatchSafe(x)
  BY <1>6, <1>7 DEF DispatchSafe, Local, EntrySafe
<1>9. x.to \in Fun /\ memo[x.to] = "busy"
  <2>1. x.to \in Fun
    BY <1>6 DEF Proven, Acyclic
  <2>2. memo[x.to] \in {"safe", "unsafe", "busy", "new"}
    BY <1>1, <2>1 DEF InferenceTypeOK
  <2>3. memo[x.to] # "unsafe"
    BY <1>1, <1>6 DEF NoneMissed
  <2> QED
    BY <1>5, <1>8, <2>1, <2>2, <2>3 DEF ItemSafe, NeedsBody
<1>10. PICK k \in DOMAIN stack : stack[k].fun = x.to
  BY <1>1, <1>9 DEF StackBusy
<1>11. Waits(Top.fun, Top.at, stack[k].fun)
  BY <1>3, <1>5, <1>10 DEF Waits
<1> QED
  BY <1>6, <1>10, <1>11, NoProvenCycle, NoAcyclicCycle

-----------------------------------------------------------------------------
(* What depends on the program alone stays as it is.                          *)
LEMMA SameDerivations ==
    ASSUME prog' = prog
    PROVE  /\ Proven' = Proven /\ Acyclic' = Acyclic
           /\ \A f, g : Reaches(f, g)' <=> Reaches(f, g)
           /\ \A f, i, g : Waits(f, i, g)' <=> Waits(f, i, g)
           /\ \A f, x, D : Justified(f, x, D)' <=> Justified(f, x, D)
           /\ \A f : (Eligible(f)' <=> Eligible(f)) /\ (EntrySafe(f)' <=> EntrySafe(f))
           /\ \A m : Own(m)' = Own(m)
           /\ \A f : Body(f)' = Body(f)
           /\ \A F : SitesOf(F)' = SitesOf(F)
<1>1. \A f : Body(f)' = Body(f) /\ (EntrySafe(f)' <=> EntrySafe(f))
  BY DEF Body, EntrySafe
<1>2. \A F : SitesOf(F)' = SitesOf(F)
  BY DEF SitesOf, Body
<1>3. \A f : Callees(f)' = Callees(f)
  BY DEF Callees, SitesOf, Item, Body
<1>4. \A f, g : Reaches(f, g)' <=> Reaches(f, g)
  BY <1>3 DEF Reaches
<1>5. \A f, i, g : Waits(f, i, g)' <=> Waits(f, i, g)
  BY DEF Waits, Body
<1>6. \A f, x, D : Justified(f, x, D)' <=> Justified(f, x, D)
  BY DEF Justified, Local, EntrySafe
<1>7. \A D : Inductive(D)' <=> Inductive(D)
  BY <1>1, <1>6 DEF Inductive, Supported
<1>8. Proven' = Proven
  BY <1>7 DEF Proven
<1>9. Acyclic' = Acyclic
  BY <1>4, SameRaisers DEF Acyclic, Raisers
<1>10. \A f : Eligible(f)' <=> Eligible(f)
  BY DEF Eligible, UserSpec
<1>11. \A m : Own(m)' = Own(m)
  BY DEF Own
<1> QED
  BY <1>1, <1>2, <1>4, <1>5, <1>6, <1>8, <1>9, <1>10, <1>11

LEMMA JustifiedNow ==
    ASSUME prog' = prog,
           \A k \in DOMAIN stack' : \A i \in DOMAIN Body(stack'[k].fun) :
               i < stack'[k].at => Justified(stack'[k].fun, Body(stack'[k].fun)[i], Proven)
    PROVE  StackJustified'
BY SameDerivations DEF StackJustified, Justified, Local, EntrySafe, Body

(* What was concluded stays so, and so what was considered.                   *)
LEMMA SettledStep ==
    ASSUME CompleteInv, UNCHANGED <<prog, current, remaining, marked>>,
           \A f \in Fun : memo[f] \in {"safe", "unsafe"} => memo'[f] = memo[f]
    PROVE  MarkedMemo' /\ Considered'
<1>1. MarkedMemo /\ Considered /\ marked \subseteq Fun
  BY DEF CompleteInv, InferenceTypeOK
<1>2. Own(current) \subseteq Fun
  BY DEF Own
<1>3. MarkedMemo'
  BY <1>1 DEF MarkedMemo
<1>4. Own(current)' = Own(current)
  BY DEF Own
<1>5. Considered'
  BY <1>1, <1>2, <1>4, SameDerivations DEF Considered
<1> QED
  BY <1>3, <1>5

(* The analysis of a body starts: of a candidate, or of one that the innermost *)
(* body calls.                                                                *)
LEMMA AnalyseKeeps ==
    ASSUME CompleteInv, UNCHANGED <<prog, phase, current, remaining, marked, facts>>,
           sites' \subseteq SitesOf(Fun),
           NEW f \in Fun, Analyse(f), prog[f].mod = current,
           Busy => Waits(Top.fun, Top.at, f)
    PROVE  CompleteInv'
<1>1. /\ InferenceTypeOK /\ StackBusy /\ StackWaits /\ StackReaches
      /\ MemoOwn /\ NoneMissed /\ FirstPhase /\ FactsProven
  BY DEF CompleteInv
<1>2. /\ memo[f] = "new" /\ memo' = [memo EXCEPT ![f] = "busy"]
      /\ stack' = Append(stack, [fun |-> f, at |-> 1])
  BY DEF Analyse
<1> DEFINE fr == [fun |-> f, at |-> 1]
           n == Len(stack)
<1>3. fr \in Frame /\ fr.fun = f /\ fr.at = 1
  BY DEF Frame
<1>4. stack \in Seq(Frame) /\ n \in Nat /\ DOMAIN stack = 1..n
      /\ \A k \in DOMAIN stack : stack[k].fun \in Fun
  BY <1>1, StackType
<1> HIDE DEF fr
<1>5. /\ stack' \in Seq(Frame) /\ Len(stack') = n + 1 /\ DOMAIN stack' = 1..(n + 1)
      /\ stack'[n + 1] = fr /\ \A k \in 1..n : stack'[k] = stack[k]
  BY <1>2, <1>3, <1>4 DEF fr
<1>6. memo' \in [Fun -> {"safe", "unsafe", "busy", "new"}]
      /\ \A g \in Fun : memo'[g] = IF g = f THEN "busy" ELSE memo[g]
  BY <1>1, <1>2 DEF InferenceTypeOK
<1>7. InferenceTypeOK'
  BY <1>1, <1>5, <1>6, SameDerivations DEF InferenceTypeOK
<1>8. \A k \in DOMAIN stack : stack[k].fun # f
  BY <1>1, <1>2, <1>4 DEF StackBusy
<1>9. StackBusy'
  <2>1. ASSUME NEW g \in Fun
        PROVE  memo'[g] = "busy" <=> \E k \in DOMAIN stack' : stack'[k].fun = g
    <3>1. CASE g = f
      BY <1>3, <1>4, <1>5, <1>6, <3>1
    <3>2. CASE g # f
      <4>1. memo[g] = "busy" <=> \E k \in DOMAIN stack : stack[k].fun = g
        BY <1>1 DEF StackBusy
      <4> QED
        BY <1>3, <1>4, <1>5, <1>6, <3>2, <4>1
    <3> QED
      BY <3>1, <3>2
  <2>2. ASSUME NEW j \in DOMAIN stack', NEW k \in DOMAIN stack', stack'[j].fun = stack'[k].fun
        PROVE  j = k
    <3>1. j \in 1..n /\ k \in 1..n => j = k
      BY <1>1, <1>4, <1>5, <2>2 DEF StackBusy
    <3> QED
      BY <1>3, <1>4, <1>5, <1>8, <2>2, <3>1
  <2> QED
    BY <2>1, <2>2 DEF StackBusy
<1>10. n # 0 => Busy /\ Top = stack[n] /\ n \in DOMAIN stack
  BY <1>4 DEF Busy, Top
<1>11. StackWaits'
  <2> SUFFICES ASSUME NEW k \in DOMAIN stack', k < Len(stack')
               PROVE  Waits(stack'[k].fun, stack'[k].at, stack'[k + 1].fun)
    BY SameDerivations, Zenon DEF StackWaits
  <2>1. k \in 1..n /\ stack'[k] = stack[k]
    BY <1>4, <1>5
  <2>2. CASE k < n
    <3>1. stack'[k + 1] = stack[k + 1]
      BY <1>4, <1>5, <2>1, <2>2
    <3> QED
      BY <1>1, <1>4, <2>1, <2>2, <3>1 DEF StackWaits
  <2>3. CASE k = n
    BY <1>3, <1>4, <1>5, <1>10, <2>1, <2>3
  <2> QED
    BY <1>4, <2>1, <2>2, <2>3
<1>12. StackReaches'
  <2> SUFFICES ASSUME NEW j \in DOMAIN stack', NEW k \in DOMAIN stack', j < k
               PROVE  Reaches(stack'[j].fun, stack'[k].fun)
    BY SameDerivations, Zenon DEF StackReaches
  <2>1. j \in 1..n /\ stack'[j] = stack[j]
    BY <1>4, <1>5
  <2>2. CASE k \in 1..n
    BY <1>1, <1>4, <1>5, <2>1, <2>2 DEF StackReaches
  <2>3. CASE k = n + 1
    <3>1. n \in DOMAIN stack /\ Top = stack[n] /\ Waits(Top.fun, Top.at, f)
      BY <1>4, <1>10, <2>1
    <3>2. Reaches(stack[n].fun, f)
      BY <1>1, <1>4, <3>1, CalleeReached DEF Waits
    <3>3. CASE j = n
      BY <1>3, <1>5, <2>1, <2>3, <3>2, <3>3
    <3>4. CASE j < n
      <4>1. Reaches(stack[j].fun, stack[n].fun)
        BY <1>1, <1>4, <2>1, <3>1, <3>4 DEF StackReaches
      <4>2. Reaches(stack[j].fun, f)
        BY <1>4, <2>1, <3>1, <3>2, <4>1, ReachesTransitive
      <4> QED
        BY <1>3, <1>5, <2>1, <2>3, <4>2
    <3> QED
      BY <1>4, <2>1, <3>3, <3>4
  <2> QED
    BY <1>5, <2>2, <2>3
<1>13. MemoOwn' /\ NoneMissed'
  <2>1. MemoOwn'
    BY <1>1, <1>6 DEF MemoOwn
  <2>2. Proven \cup Acyclic \subseteq Fun
    BY DEF Proven, Acyclic
  <2>3. NoneMissed'
    BY <1>1, <1>6, <2>2, SameDerivations DEF NoneMissed
  <2> QED
    BY <2>1, <2>3
<1>14. MarkedMemo' /\ Considered'
  BY <1>2, <1>6, SettledStep
<1>15. FactsProven'
  BY <1>1, SameDerivations DEF FactsProven
<1>16. FirstPhase'
  <2> SUFFICES ASSUME phase = "facts" PROVE MemoProven' /\ MarkedOwn' /\ StackJustified'
    BY DEF FirstPhase
  <2>0. MemoProven /\ MarkedOwn /\ StackJustified
    BY <1>1 DEF FirstPhase
  <2>1. MemoProven' /\ MarkedOwn'
    BY <1>6, <2>0, SameDerivations DEF MemoProven, MarkedOwn
  <2>2. ASSUME NEW k \in DOMAIN stack', NEW i \in DOMAIN Body(stack'[k].fun), i < stack'[k].at
        PROVE  Justified(stack'[k].fun, Body(stack'[k].fun)[i], Proven)
    <3>1. CASE k \in 1..n
      BY <1>4, <1>5, <2>0, <2>2, <3>1 DEF StackJustified
    <3>2. CASE k = n + 1
      <4>1. Body(f) \in Seq(Items)
        BY <1>1, ProgramType
      <4>2. i \in 1..Len(Body(f)) /\ i < 1
        BY <1>3, <1>5, <2>2, <3>2, <4>1
      <4> QED
        BY <4>2
    <3> QED
      BY <1>5, <3>1, <3>2
  <2>3. StackJustified'
    BY <2>2, JustifiedNow
  <2> QED
    BY <2>1, <2>3
<1> QED
  BY <1>7, <1>9, <1>11, <1>12, <1>13, <1>14, <1>15, <1>16 DEF CompleteInv

(* The analysis of the innermost body ends.                                   *)
LEMMA ConcludeKeeps ==
    ASSUME CompleteInv, UNCHANGED <<prog, phase, current, remaining, sites, marked, facts>>, Busy,
           NEW answer \in {"safe", "unsafe"}, Conclude(answer),
           answer = "unsafe" => Top.fun \notin Proven \cup Acyclic,
           answer = "safe" /\ phase = "facts" => Top.fun \in Proven
    PROVE  CompleteInv'
<1>1. /\ InferenceTypeOK /\ StackBusy /\ StackWaits /\ StackReaches
      /\ MemoOwn /\ NoneMissed /\ FirstPhase /\ FactsProven
  BY DEF CompleteInv
<1> DEFINE n == Len(stack)
<1>2. /\ stack \in Seq(Frame) /\ n \in Nat \ {0} /\ DOMAIN stack = 1..n /\ Top = stack[n]
      /\ Top.fun \in Fun
      /\ \A k \in DOMAIN stack : stack[k].fun \in Fun
  BY <1>1, StackType DEF Busy
<1>3. stack' = SubSeq(stack, 1, n - 1) /\ memo' = [memo EXCEPT ![Top.fun] = answer]
  BY DEF Conclude, Below
<1>4. /\ stack' \in Seq(Frame) /\ Len(stack') = n - 1 /\ DOMAIN stack' = 1..(n - 1)
      /\ \A k \in 1..(n - 1) : stack'[k] = stack[k]
  BY <1>2, <1>3
<1>5. /\ memo' \in [Fun -> {"safe", "unsafe", "busy", "new"}]
      /\ \A g \in Fun : memo'[g] = IF g = Top.fun THEN answer ELSE memo[g]
  BY <1>1, <1>3 DEF InferenceTypeOK
<1>6. memo[Top.fun] = "busy"
  BY <1>1, <1>2 DEF StackBusy
<1>7. InferenceTypeOK'
  BY <1>1, <1>4, <1>5, SameDerivations DEF InferenceTypeOK
<1>8. StackBusy'
  <2>1. ASSUME NEW g \in Fun
        PROVE  memo'[g] = "busy" <=> \E k \in DOMAIN stack' : stack'[k].fun = g
    <3>1. \A k \in 1..(n - 1) : stack[k].fun # Top.fun
      BY <1>1, <1>2 DEF StackBusy
    <3>2. CASE g = Top.fun
      BY <1>4, <1>5, <3>1, <3>2
    <3>3. CASE g # Top.fun
      <4>1. memo[g] = "busy" <=> \E k \in DOMAIN stack : stack[k].fun = g
        BY <1>1 DEF StackBusy
      <4>2. (\E k \in 1..n : stack[k].fun = g) <=> \E k \in 1..(n - 1) : stack[k].fun = g
        BY <1>2, <3>3
      <4> QED
        BY <1>2, <1>4, <1>5, <3>3, <4>1, <4>2
    <3> QED
      BY <3>2, <3>3
  <2>2. \A j, k \in DOMAIN stack' : stack'[j].fun = stack'[k].fun => j = k
    BY <1>1, <1>2, <1>4 DEF StackBusy
  <2> QED
    BY <2>1, <2>2 DEF StackBusy
<1>9. StackWaits'
  <2> SUFFICES ASSUME NEW k \in DOMAIN stack', k < Len(stack')
               PROVE  Waits(stack'[k].fun, stack'[k].at, stack'[k + 1].fun)
    BY SameDerivations, Zenon DEF StackWaits
  <2>1. k \in DOMAIN stack /\ k < n /\ stack'[k] = stack[k] /\ stack'[k + 1] = stack[k + 1]
    BY <1>2, <1>4
  <2> QED
    BY <1>1, <2>1 DEF StackWaits
<1>10. StackReaches'
  <2> SUFFICES ASSUME NEW j \in DOMAIN stack', NEW k \in DOMAIN stack', j < k
               PROVE  Reaches(stack'[j].fun, stack'[k].fun)
    BY SameDerivations, Zenon DEF StackReaches
  <2> QED
    BY <1>1, <1>2, <1>4 DEF StackReaches
<1>11. MemoOwn' /\ NoneMissed'
  <2>1. MemoOwn'
    BY <1>1, <1>2, <1>5, <1>6 DEF MemoOwn
  <2>2. Proven \cup Acyclic \subseteq Fun
    BY DEF Proven, Acyclic
  <2>3. NoneMissed'
    BY <1>1, <1>5, <2>2, SameDerivations DEF NoneMissed
  <2> QED
    BY <2>1, <2>3
<1>12. MarkedMemo' /\ Considered'
  BY <1>5, <1>6, SettledStep
<1>13. FactsProven'
  BY <1>1, SameDerivations DEF FactsProven
<1>14. FirstPhase'
  <2> SUFFICES ASSUME phase = "facts" PROVE MemoProven' /\ MarkedOwn' /\ StackJustified'
    BY DEF FirstPhase
  <2>0. MemoProven /\ MarkedOwn /\ StackJustified
    BY <1>1 DEF FirstPhase
  <2>1. MemoProven' /\ MarkedOwn'
    BY <1>5, <2>0, SameDerivations DEF MemoProven, MarkedOwn
  <2>2. \A k \in DOMAIN stack' : \A i \in DOMAIN Body(stack'[k].fun) :
            i < stack'[k].at => Justified(stack'[k].fun, Body(stack'[k].fun)[i], Proven)
    BY <1>2, <1>4, <2>0 DEF StackJustified
  <2>3. StackJustified'
    BY <2>2, JustifiedNow
  <2> QED
    BY <2>1, <2>3
<1> QED
  BY <1>7, <1>8, <1>9, <1>10, <1>11, <1>12, <1>13, <1>14 DEF CompleteInv

(* In the first phase the visitor passes only what is justified.              *)
LEMMA PassedJustified ==
    ASSUME CompleteInv, phase = "facts", NEW f \in Fun, prog[f].mod = current,
           NEW x \in Items, ItemSafe(x)
    PROVE  Justified(f, x, Proven)
<1>1. FirstPhase /\ MarkedMemo
  BY DEF CompleteInv
<1>2. CASE x.kind = "plain"
  BY <1>2 DEF Justified
<1>3. CASE x.kind = "call"
  <2>1. x.to \in Fun
    BY <1>3 DEF Items, Calls
  <2>2. CASE prog[x.to].spec = "noexcept"
    BY <1>3, <2>2 DEF Justified
  <2>3. CASE TypeMarked(x)
    <3>1. x.to \in marked
      BY <2>3 DEF TypeMarked
    <3>2. prog[x.to].mod = current /\ prog[x.to].spec # "cpp" /\ EntrySafe(x.to)
      BY <1>1, <3>1 DEF FirstPhase, MarkedOwn
    <3>3. x.to \in Proven
      BY <1>1, <2>1, <3>1, <3>2 DEF FirstPhase, MemoProven, MarkedMemo
    <3> QED
      BY <1>3, <3>2, <3>3 DEF Justified, Local
  <2>4. CASE DispatchSafe(x) /\ memo[x.to] = "safe"
    <3>1. x.to \in Proven
      BY <1>1, <2>1, <2>4 DEF FirstPhase, MemoProven
    <3> QED
      BY <1>3, <2>4, <3>1 DEF Justified, Local, DispatchSafe, EntrySafe
  <2> QED
    BY <1>3, <2>2, <2>3, <2>4 DEF ItemSafe, SafeByType, ExternalFact
<1> QED
  BY <1>2, <1>3 DEF ItemSafe

(* The visitor passes one more construct.                                     *)
LEMMA PassKeeps ==
    ASSUME CompleteInv, Busy,
           UNCHANGED <<prog, phase, current, remaining, sites, marked, facts, memo>>,
           Top.at <= Len(Body(Top.fun)), ItemSafe(Body(Top.fun)[Top.at]),
           stack' = [stack EXCEPT ![Len(stack)].at = @ + 1]
    PROVE  CompleteInv'
<1>1. /\ InferenceTypeOK /\ StackBusy /\ StackWaits /\ StackReaches
      /\ MemoOwn /\ NoneMissed /\ FirstPhase /\ FactsProven
  BY DEF CompleteInv
<1> DEFINE n == Len(stack)
           top == [Top EXCEPT !.at = @ + 1]
<1>2. /\ stack \in Seq(Frame) /\ n \in Nat \ {0} /\ DOMAIN stack = 1..n /\ Top = stack[n]
      /\ Top.fun \in Fun /\ Top.at \in Nat \ {0} /\ Top \in Frame
      /\ \A k \in DOMAIN stack : stack[k].fun \in Fun
  <2>1. /\ stack \in Seq(Frame) /\ n \in Nat \ {0} /\ DOMAIN stack = 1..n /\ Top = stack[n]
        /\ Top.fun \in Fun /\ Top.at \in Nat \ {0}
        /\ \A k \in DOMAIN stack : stack[k].fun \in Fun
    BY <1>1, StackType DEF Busy
  <2>2. Top \in Frame
    BY <2>1
  <2> QED
    BY <2>1, <2>2
<1>3. top \in Frame /\ top.fun = Top.fun /\ top.at = Top.at + 1
  BY <1>2 DEF Frame
<1>4. /\ stack' \in Seq(Frame) /\ Len(stack') = n /\ DOMAIN stack' = 1..n
      /\ stack'[n] = top
      /\ \A k \in 1..n : k # n => stack'[k] = stack[k]
  <2>1. stack' = [stack EXCEPT ![n] = top]
    BY <1>2
  <2> HIDE DEF top
  <2> QED
    BY <1>2, <1>3, <2>1
<1> HIDE DEF top
<1>5. \A k \in 1..n : stack'[k].fun = stack[k].fun /\ (k < n => stack'[k] = stack[k])
  BY <1>2, <1>3, <1>4
<1>6. InferenceTypeOK'
  BY <1>1, <1>4, SameDerivations DEF InferenceTypeOK
<1>7. StackBusy'
  BY <1>1, <1>2, <1>4, <1>5 DEF StackBusy
<1>8. StackWaits'
  <2> SUFFICES ASSUME NEW k \in DOMAIN stack', k < Len(stack')
               PROVE  Waits(stack'[k].fun, stack'[k].at, stack'[k + 1].fun)
    BY SameDerivations, Zenon DEF StackWaits
  <2>1. k \in DOMAIN stack /\ k < n /\ stack'[k] = stack[k] /\ stack'[k + 1].fun = stack[k + 1].fun
    BY <1>2, <1>4, <1>5
  <2> QED
    BY <1>1, <2>1 DEF StackWaits
<1>9. StackReaches'
  <2> SUFFICES ASSUME NEW j \in DOMAIN stack', NEW k \in DOMAIN stack', j < k
               PROVE  Reaches(stack'[j].fun, stack'[k].fun)
    BY SameDerivations, Zenon DEF StackReaches
  <2> QED
    BY <1>1, <1>2, <1>4, <1>5 DEF StackReaches
<1>10. MemoOwn' /\ NoneMissed' /\ FactsProven'
  BY <1>1, SameDerivations DEF MemoOwn, NoneMissed, FactsProven
<1>11. MarkedMemo' /\ Considered'
  BY SettledStep
<1>12. Body(Top.fun) \in Seq(Items)
  BY <1>1, <1>2, ProgramType
<1>13. phase = "facts" => Justified(Top.fun, Body(Top.fun)[Top.at], Proven)
  <2>1. memo[Top.fun] = "busy"
    BY <1>1, <1>2 DEF StackBusy
  <2>2. prog[Top.fun].mod = current
    BY <1>1, <1>2, <2>1 DEF MemoOwn
  <2>3. Body(Top.fun)[Top.at] \in Items
    BY <1>2, <1>12
  <2> QED
    BY <1>2, <2>2, <2>3, PassedJustified
<1>14. FirstPhase'
  <2> SUFFICES ASSUME phase = "facts" PROVE StackJustified'
    BY <1>1, SameDerivations DEF FirstPhase, MemoProven, MarkedOwn
  <2>0. StackJustified
    BY <1>1 DEF FirstPhase
  <2>1. ASSUME NEW k \in DOMAIN stack', NEW i \in DOMAIN Body(stack'[k].fun), i < stack'[k].at
        PROVE  Justified(stack'[k].fun, Body(stack'[k].fun)[i], Proven)
    <3>1. CASE k < n
      BY <1>2, <1>4, <1>5, <2>0, <2>1, <3>1 DEF StackJustified
    <3>2. CASE k = n
      <4>1. stack'[k].fun = Top.fun /\ stack'[k].at = Top.at + 1
        BY <1>3, <1>4, <3>2
      <4>2. i \in DOMAIN Body(Top.fun) /\ i \in Nat /\ i < Top.at + 1
        BY <1>12, <2>1, <4>1
      <4>3. CASE i = Top.at
        BY <1>13, <4>1, <4>3
      <4>4. CASE i < Top.at
        BY <1>2, <2>0, <4>1, <4>2, <4>4 DEF StackJustified
      <4> QED
        BY <1>2, <4>2, <4>3, <4>4
    <3> QED
      BY <1>2, <1>4, <3>1, <3>2
  <2> QED
    BY <2>1, JustifiedNow
<1> QED
  BY <1>6, <1>7, <1>8, <1>9, <1>10, <1>11, <1>14 DEF CompleteInv

LEMMA VisitKeeps == ASSUME CompleteInv, Visit PROVE CompleteInv'
<1>1. /\ UNCHANGED <<prog, phase, current, remaining, sites, marked, facts>>
      /\ Busy /\ InferenceTypeOK /\ StackBusy /\ MemoOwn /\ FirstPhase
      /\ Top.fun \in Fun /\ Top.at \in Nat \ {0} /\ Len(stack) \in DOMAIN stack /\ Top = stack[Len(stack)]
  BY StackType DEF Visit, CompleteInv, outcome
<1>2. Body(Top.fun) \in Seq(Items) /\ Body(Top.fun) = prog[Top.fun].body
  BY <1>1, ProgramType DEF Body
<1> DEFINE x == Body(Top.fun)[Top.at]
<1>3. memo[Top.fun] = "busy" /\ prog[Top.fun].mod = current
  BY <1>1 DEF StackBusy, MemoOwn
<1>4. CASE prog[Top.fun].profile /\ Conclude("unsafe")
  <2>1. Top.fun \notin Proven \cup Acyclic
    BY <1>1, <1>4, ProvenSupported, AcyclicSupported DEF Supported
  <2> QED
    BY <1>1, <1>4, <2>1, ConcludeKeeps
<1>5. CASE ~prog[Top.fun].profile /\ Top.at > Len(Body(Top.fun)) /\ Conclude("safe")
  <2>1. ASSUME phase = "facts" PROVE Top.fun \in Proven
    <3>1. \A i \in DOMAIN Body(Top.fun) : i < Top.at
      BY <1>1, <1>2, <1>5
    <3>2. Supported(Top.fun, Proven)
      BY <1>1, <1>5, <2>1, <3>1 DEF FirstPhase, StackJustified, Supported
    <3> QED
      BY <1>1, <3>2, ProvenInductive DEF Inductive
  <2> QED
    BY <1>1, <1>5, <2>1, ConcludeKeeps
<1>6. CASE Top.at <= Len(Body(Top.fun)) /\ ItemSafe(x) /\ UNCHANGED memo
           /\ stack' = [stack EXCEPT ![Len(stack)].at = @ + 1]
  BY <1>1, <1>6, PassKeeps
<1>7. CASE Top.at <= Len(Body(Top.fun)) /\ NeedsBody(x) /\ Analyse(x.to)
  <2>1. Top.at \in DOMAIN Body(Top.fun)
    BY <1>1, <1>2, <1>7
  <2>2. x.kind = "call" /\ prog[x.to].spec # "noexcept" /\ prog[x.to].mod = current
    BY <1>7 DEF NeedsBody, SafeByType, DispatchSafe
  <2>3. x.to \in Fun /\ Waits(Top.fun, Top.at, x.to)
    BY <1>1, <2>1, <2>2, CalleeReached DEF Waits
  <2> HIDE DEF x
  <2>4. sites' \subseteq SitesOf(Fun)
    BY <1>1 DEF InferenceTypeOK
  <2> QED
    BY <1>1, <1>7, <2>2, <2>3, <2>4, AnalyseKeeps
<1>8. CASE Top.at <= Len(Body(Top.fun)) /\ ~ItemSafe(x) /\ ~NeedsBody(x) /\ Conclude("unsafe")
  <2>1. Top.fun \notin Proven \cup Acyclic
    BY <1>1, <1>8, NeverGivesUp
  <2> QED
    BY <1>1, <1>8, <2>1, ConcludeKeeps
<1>9. Len(Body(Top.fun)) \in Nat
  BY <1>2
<1> QED
  BY <1>1, <1>4, <1>5, <1>6, <1>7, <1>8, <1>9 DEF Visit

(* A candidate is considered.                                                 *)
LEMMA ConsiderKeeps == ASSUME CompleteInv, NEW f \in remaining, Consider(f) PROVE CompleteInv'
<1>1. /\ UNCHANGED <<prog, phase, current, sites>> /\ ~Busy
      /\ InferenceTypeOK /\ StackBusy /\ StackWaits /\ StackReaches
      /\ MemoOwn /\ NoneMissed /\ MarkedMemo /\ Considered /\ FirstPhase /\ FactsProven
      /\ f \in Fun /\ prog[f].mod = current
  BY DEF Consider, CompleteInv, InferenceTypeOK, Considered, Own
<1>2. CASE Analyse(f) /\ UNCHANGED <<remaining, outcome>>
  <2>1. sites' \subseteq SitesOf(Fun)
    BY <1>1 DEF InferenceTypeOK
  <2> QED
    BY <1>1, <1>2, <2>1, AnalyseKeeps DEF outcome
<1>3. ASSUME UNCHANGED visitor, remaining' = remaining \ {f},
             marked \subseteq marked', marked' \subseteq marked \cup {f},
             f \in marked' => memo[f] = "safe" /\ EntrySafe(f) /\ prog[f].spec # "cpp",
             Eligible(f) => memo[f] = "unsafe" \/ (memo[f] = "safe" /\ (EntrySafe(f) => f \in marked')),
             facts' \in [Fun -> {"entry", "direct", "none"}],
             \A g \in Fun : g # f => facts'[g] = facts[g],
             facts'[f] # "none" => /\ f \in Proven /\ Eligible(f)
                                   /\ facts'[f] = "entry" => EntrySafe(f)
      PROVE  CompleteInv'
  <2>1. InferenceTypeOK'
    BY <1>1, <1>3, SameDerivations DEF InferenceTypeOK, visitor
  <2>2. StackBusy' /\ MemoOwn'
    BY <1>1, <1>3 DEF StackBusy, MemoOwn, visitor
  <2>3. StackWaits' /\ StackReaches'
    BY <1>1, <1>3, SameDerivations DEF StackWaits, StackReaches, visitor
  <2>4. NoneMissed'
    BY <1>1, <1>3, SameDerivations DEF NoneMissed, visitor
  <2>5. MarkedMemo'
    BY <1>1, <1>3 DEF MarkedMemo, visitor
  <2>6. Considered'
    <3>1. Own(current)' = Own(current) /\ Own(current) \subseteq Fun
      BY <1>1 DEF Own
    <3>2. remaining' \subseteq Own(current)
      BY <1>1, <1>3 DEF Considered
    <3>3. ASSUME NEW g \in Own(current) \ remaining', Eligible(g)
          PROVE  \/ memo[g] = "unsafe"
                 \/ memo[g] = "safe" /\ (EntrySafe(g) => g \in marked')
      <4>1. CASE g = f
        BY <1>3, <3>3, <4>1
      <4>2. CASE g # f
        BY <1>1, <1>3, <3>3, <4>2 DEF Considered
      <4> QED
        BY <4>1, <4>2
    <3> QED
      BY <1>1, <1>3, <3>1, <3>2, <3>3, SameDerivations DEF Considered, visitor
  <2>7. FirstPhase'
    <3> SUFFICES ASSUME phase = "facts" PROVE MemoProven' /\ MarkedOwn' /\ StackJustified'
      BY <1>1 DEF FirstPhase
    <3>0. MemoProven /\ MarkedOwn /\ StackJustified
      BY <1>1 DEF FirstPhase
    <3>1. MemoProven'
      BY <1>1, <1>3, <3>0, SameDerivations DEF MemoProven, visitor
    <3>2. MarkedOwn'
      BY <1>1, <1>3, <3>0, SameDerivations DEF MarkedOwn
    <3>3. StackJustified'
      BY <1>1, <1>3, <3>0, JustifiedNow DEF StackJustified, visitor
    <3> QED
      BY <3>1, <3>2, <3>3
  <2>8. FactsProven'
    <3> SUFFICES ASSUME NEW g \in Fun, facts'[g] # "none"
                 PROVE  g \in Proven /\ Eligible(g) /\ (facts'[g] = "entry" => EntrySafe(g))
      BY <1>1, SameDerivations DEF FactsProven
    <3> QED
      BY <1>1, <1>3 DEF FactsProven
  <2> QED
    BY <2>1, <2>2, <2>3, <2>4, <2>5, <2>6, <2>7, <2>8 DEF CompleteInv
<1>4. facts \in [Fun -> {"entry", "direct", "none"}]
      /\ (facts[f] # "none" => f \in Proven /\ Eligible(f) /\ (facts[f] = "entry" => EntrySafe(f)))
      /\ marked \subseteq Fun
  BY <1>1 DEF InferenceTypeOK, FactsProven
<1>5. CASE (~Candidate(f) \/ memo[f] = "unsafe") /\ remaining' = remaining \ {f}
           /\ UNCHANGED <<visitor, outcome>>
  <2>1. CASE f \in marked
    <3>1. memo[f] = "safe"
      BY <1>1, <2>1 DEF MarkedMemo
    <3> HIDE DEF visitor
    <3>2. MarkedOwn \/ phase # "facts"
      BY <1>1 DEF FirstPhase
    <3>3. InferenceTypeOK'
      BY <1>1, <1>5, SameDerivations DEF InferenceTypeOK, visitor, outcome
    <3>4. StackBusy' /\ MemoOwn' /\ MarkedMemo'
      BY <1>1, <1>5 DEF StackBusy, MemoOwn, MarkedMemo, visitor, outcome
    <3>5. StackWaits' /\ StackReaches' /\ NoneMissed' /\ FactsProven'
      BY <1>1, <1>5, SameDerivations
         DEF StackWaits, StackReaches, NoneMissed, FactsProven, visitor, outcome
    <3>6. Considered'
      <4>1. Own(current)' = Own(current)
        BY <1>1 DEF Own
      <4>2. remaining' \subseteq Own(current) /\ UNCHANGED <<memo, marked>>
        BY <1>1, <1>5 DEF Considered, visitor, outcome
      <4>3. \A g \in Own(current) \ remaining' :
               Eligible(g) => \/ memo[g] = "unsafe"
                              \/ memo[g] = "safe" /\ (EntrySafe(g) => g \in marked)
        BY <1>1, <1>5, <2>1, <3>1 DEF Considered
      <4> QED
        BY <1>1, <4>1, <4>2, <4>3, SameDerivations DEF Considered
    <3>7. FirstPhase'
      <4> SUFFICES ASSUME phase = "facts" PROVE MemoProven' /\ MarkedOwn' /\ StackJustified'
        BY <1>1 DEF FirstPhase
      <4>0. MemoProven /\ MarkedOwn /\ StackJustified
        BY <1>1 DEF FirstPhase
      <4>1. MemoProven' /\ MarkedOwn'
        BY <1>1, <1>5, <4>0, SameDerivations DEF MemoProven, MarkedOwn, visitor, outcome
      <4>2. StackJustified'
        BY <1>1, <1>5, <4>0, JustifiedNow DEF StackJustified, visitor
      <4> QED
        BY <4>1, <4>2
    <3> QED
      BY <3>3, <3>4, <3>5, <3>6, <3>7 DEF CompleteInv
  <2>2. CASE f \notin marked
    BY <1>3, <1>4, <1>5, <2>2 DEF outcome, Candidate
  <2> QED
    BY <2>1, <2>2
<1>6. CASE Candidate(f) /\ memo[f] = "safe" /\ remaining' = remaining \ {f} /\ Mark(f)
           /\ UNCHANGED <<visitor, patched>>
  <2>1. Eligible(f) /\ prog[f].spec # "cpp" /\ f \notin marked
    BY <1>6 DEF Candidate, Eligible, UserSpec
  <2>2. marked' = IF EntrySafe(f) THEN marked \cup {f} ELSE marked
    BY <1>6 DEF Mark
  <2>3. CASE phase = "facts"
    <3>1. facts' = [facts EXCEPT ![f] = IF EntrySafe(f) THEN "entry" ELSE "direct"]
      BY <1>6, <2>3 DEF Mark
    <3>2. f \in Proven
      BY <1>1, <1>6, <2>3 DEF FirstPhase, MemoProven
    <3> QED
      BY <1>1, <1>3, <1>4, <1>6, <2>1, <2>2, <3>1, <3>2
  <2>4. CASE phase # "facts"
    <3>1. facts' = facts
      BY <1>6, <2>4 DEF Mark
    <3> QED
      BY <1>1, <1>3, <1>4, <1>6, <2>1, <2>2, <3>1
  <2> QED
    BY <2>3, <2>4
<1> QED
  BY <1>2, <1>5, <1>6 DEF Consider

(* A step that changes neither the candidates nor the visitor.                *)
LEMMA NothingKeeps ==
    ASSUME CompleteInv, UNCHANGED <<prog, current, remaining, stack, memo, marked, facts>>,
           sites' \subseteq SitesOf(Fun), phase' = phase \/ phase' # "facts"
    PROVE  CompleteInv'
<1>1. /\ InferenceTypeOK /\ StackBusy /\ StackWaits /\ StackReaches
      /\ MemoOwn /\ NoneMissed /\ FirstPhase /\ FactsProven
  BY DEF CompleteInv
<1>2. InferenceTypeOK'
  BY <1>1, SameDerivations DEF InferenceTypeOK
<1>3. StackBusy' /\ MemoOwn'
  BY <1>1 DEF StackBusy, MemoOwn
<1>4. StackWaits' /\ StackReaches' /\ NoneMissed' /\ FactsProven'
  BY <1>1, SameDerivations DEF StackWaits, StackReaches, NoneMissed, FactsProven
<1>5. MarkedMemo' /\ Considered'
  BY SettledStep
<1>6. FirstPhase'
  <2> SUFFICES ASSUME phase = "facts" PROVE MemoProven' /\ MarkedOwn' /\ StackJustified'
    BY DEF FirstPhase
  <2>0. MemoProven /\ MarkedOwn /\ StackJustified
    BY <1>1 DEF FirstPhase
  <2>1. MemoProven' /\ MarkedOwn'
    BY <2>0, SameDerivations DEF MemoProven, MarkedOwn
  <2>2. StackJustified'
    BY <2>0, JustifiedNow DEF StackJustified
  <2> QED
    BY <2>1, <2>2
<1> QED
  BY <1>2, <1>3, <1>4, <1>5, <1>6 DEF CompleteInv

LEMMA PatchKeeps == ASSUME CompleteInv, NEW s \in sites, PatchSite(s) PROVE CompleteInv'
<1>1. /\ UNCHANGED <<prog, phase, current, remaining, marked, facts>> /\ ~Busy
      /\ InferenceTypeOK /\ s \in SitesOf(Fun) /\ sites \subseteq SitesOf(Fun)
  BY DEF PatchSite, CompleteInv, InferenceTypeOK
<1>2. Item(s) \in Calls /\ Item(s).to \in Fun
  BY <1>1, SiteType DEF Calls
<1>3. CASE prog[Item(s).to].mod = current /\ Analyse(Item(s).to) /\ sites' = sites
  <2>1. sites' \subseteq SitesOf(Fun)
    BY <1>1, <1>3
  <2> QED
    BY <1>1, <1>2, <1>3, <2>1, AnalyseKeeps
<1>4. CASE sites' = sites \ {s} /\ UNCHANGED visitor
  BY <1>1, <1>4, NothingKeeps DEF visitor
<1> QED
  BY <1>3, <1>4 DEF PatchSite

(* A module starts with nothing known.                                        *)
LEMMA StartKeeps ==
    ASSUME UNCHANGED <<prog, facts>>, InferenceTypeOK, FactsProven, NEW m, NEW ph, Load(m, ph)
    PROVE  CompleteInv'
<1>1. /\ remaining' = Own(m) /\ stack' = <<>> /\ memo' = [f \in Fun |-> "new"] /\ current' = m
      /\ phase' = ph /\ sites' = SitesOf(Own(m))
      /\ marked' = IF ph = "compile" THEN {f \in Fun \ Own(m) : facts[f] = "entry"} ELSE {}
  BY DEF Load
<1>2. remaining' \subseteq Fun /\ sites' \subseteq SitesOf(Fun) /\ marked' \subseteq Fun
  BY <1>1 DEF Own, SitesOf
<1>3. InferenceTypeOK'
  BY <1>1, <1>2, SameDerivations DEF InferenceTypeOK
<1>4. DOMAIN stack' = {} /\ stack' \in Seq(Frame)
  BY <1>1
<1>5. StackBusy' /\ StackWaits' /\ StackReaches' /\ MemoOwn'
  BY <1>1, <1>4 DEF StackBusy, StackWaits, StackReaches, MemoOwn
<1>6. NoneMissed'
  <2>1. Proven \cup Acyclic \subseteq Fun
    BY DEF Proven, Acyclic
  <2> QED
    BY <1>1, <2>1, SameDerivations DEF NoneMissed
<1>7. MarkedMemo'
  BY <1>1 DEF MarkedMemo, Own
<1>8. Considered'
  BY <1>1 DEF Considered, Own
<1>9. FirstPhase'
  BY <1>1, <1>4 DEF FirstPhase, MemoProven, MarkedOwn, StackJustified
<1>10. FactsProven'
  BY SameDerivations DEF FactsProven
<1> QED
  BY <1>3, <1>5, <1>6, <1>7, <1>8, <1>9, <1>10 DEF CompleteInv

LEMMA FinishKeeps == ASSUME CompleteInv, FinishModule PROVE CompleteInv'
<1>1. UNCHANGED <<prog, facts>> /\ InferenceTypeOK /\ FactsProven
  BY DEF FinishModule, CompleteInv
<1>2. CASE Load(current + 1, phase) \/ Load(1, "compile")
  BY <1>1, <1>2, StartKeeps
<1>3. CASE phase' = "done" /\ UNCHANGED <<current, remaining, sites, stack, memo, marked, patched>>
  <2>1. sites' \subseteq SitesOf(Fun)
    BY <1>1, <1>3 DEF InferenceTypeOK
  <2> QED
    BY <1>1, <1>3, <2>1, NothingKeeps
<1> QED
  BY <1>2, <1>3 DEF FinishModule

LEMMA InitComplete == InferenceInit => CompleteInv
<1> SUFFICES ASSUME InferenceInit PROVE CompleteInv
  OBVIOUS
<1>1. /\ memo = [f \in Fun |-> "new"] /\ stack = <<>> /\ marked = {} /\ remaining = Own(1)
      /\ current = 1 /\ facts = [f \in Fun |-> "none"]
  BY DEF InferenceInit
<1>2. InferenceTypeOK
  BY InitSafe DEF IInv
<1>3. DOMAIN stack = {} /\ Proven \cup Acyclic \subseteq Fun
  BY <1>1 DEF Proven, Acyclic
<1>4. StackBusy /\ StackWaits /\ StackReaches /\ MemoOwn /\ NoneMissed /\ MarkedMemo
  BY <1>1, <1>3 DEF StackBusy, StackWaits, StackReaches, MemoOwn, NoneMissed, MarkedMemo
<1>5. Considered /\ FactsProven
  BY <1>1 DEF Considered, FactsProven
<1>6. FirstPhase
  BY <1>1, <1>3 DEF FirstPhase, MemoProven, MarkedOwn, StackJustified
<1> QED
  BY <1>2, <1>4, <1>5, <1>6 DEF CompleteInv

LEMMA NextComplete == CompleteInv /\ [InferenceNext]_inferenceVars => CompleteInv'
<1> SUFFICES ASSUME CompleteInv, [InferenceNext]_inferenceVars PROVE CompleteInv'
  OBVIOUS
<1>1. CASE UNCHANGED inferenceVars
  <2>1. UNCHANGED <<prog, phase, current, remaining, sites, stack, memo, marked, facts>>
    BY <1>1 DEF inferenceVars
  <2>2. sites' \subseteq SitesOf(Fun)
    BY <2>1 DEF CompleteInv, InferenceTypeOK
  <2> QED
    BY <2>1, <2>2, NothingKeeps
<1>2. CASE InferenceNext
  BY <1>2, VisitKeeps, FinishKeeps, ConsiderKeeps, PatchKeeps DEF InferenceNext
<1> QED
  BY <1>1, <1>2

THEOREM InferenceComplete == InferenceSpec => []CompleteInv
BY InitComplete, NextComplete, PTL DEF InferenceSpec

(* When a module's code is generated its own analysis has found every function   *)
(* safe that other modules were told is safe, and has marked the entries they    *)
(* were told are marked: the two phases cannot disagree, in whatever order the   *)
(* modules, functions and calls are visited.                                  *)
THEOREM TwoPhasesAgree == InferenceSpec => []FactsKept
<1>1. CompleteInv => FactsKept
  <2> SUFFICES ASSUME CompleteInv, remaining = {}, NEW f \in Own(current), facts[f] # "none"
               PROVE  memo[f] = "safe" /\ (facts[f] = "entry" => f \in marked)
    BY DEF FactsKept
  <2>1. f \in Fun /\ NoneMissed /\ Considered /\ FactsProven
    BY DEF CompleteInv, Own
  <2>2. f \in Proven /\ Eligible(f) /\ (facts[f] = "entry" => EntrySafe(f))
    BY <2>1 DEF FactsProven
  <2>3. memo[f] # "unsafe"
    BY <2>1, <2>2 DEF NoneMissed
  <2> QED
    BY <2>1, <2>2, <2>3 DEF Considered
<1> QED
  BY <1>1, InferenceComplete, PTL

(* A candidate that cannot raise is only missed when its calls lead to another   *)
(* module or round a cycle.                                                   *)
THEOREM NoCandidateLost == InferenceSpec => []NothingLost
<1>1. CompleteInv => NothingLost
  <2> SUFFICES ASSUME CompleteInv, remaining = {}, NEW f \in Own(current),
                      Eligible(f), EntrySafe(f), ~CanRaise(f),
                      \A g \in Fun : Reaches(f, g) => prog[g].mod = current /\ ~Reaches(g, g)
               PROVE  f \in marked
    BY DEF NothingLost
  <2>1. f \in Acyclic /\ NoneMissed /\ Considered
    BY DEF CompleteInv, Own, Acyclic
  <2>2. memo[f] # "unsafe"
    BY <2>1 DEF NoneMissed
  <2> QED
    BY <2>1, <2>2 DEF Considered
<1> QED
  BY <1>1, InferenceComplete, PTL
=============================================================================
