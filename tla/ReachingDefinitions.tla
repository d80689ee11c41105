------------------------ MODULE ReachingDefinitions ------------------------
(***************************************************************************)
(* The data flow analysis of Cython/Compiler/FlowControl.py: which          *)
(* assignments of a name may have happened last when control enters a       *)
(* block.  ControlFlow.reaching_definitions() sweeps over all blocks, in    *)
(* the order of a Python set, until a sweep changes nothing.  After it the  *)
(* program runs: a walk through the graph that carries the definition of    *)
(* one name.                                                                *)
(***************************************************************************)
EXTENDS Integers, FiniteSets

CONSTANT Def    \* definitions: the assignments, and "not assigned" of each name

Nodes(g) == g.blocks \cup {g.entry}

(* A flow graph after normalize() and initialize(): the entry point is not    *)
(* among the blocks that are swept, and nothing leads back to it.             *)
IsFlowGraph(g) ==
    /\ g.entry \notin g.blocks
    /\ g.edges \subseteq Nodes(g) \X g.blocks
    /\ g.gen \in [Nodes(g) -> SUBSET Def]
    /\ g.kill \in [Nodes(g) -> SUBSET Def]

VARIABLES flow,      \* the graph
          i_input, i_output,
          dirty,     \* the flag of the sweep
          todo,      \* blocks the current sweep has still to visit
          at, def    \* the program: the node it is in, the definition it carries

analysis == <<i_input, i_output, dirty, todo>>
program == <<at, def>>

vars == <<flow, i_input, i_output, dirty, todo, at, def>>

Parents(b) == {p \in Nodes(flow) : <<p, b>> \in flow.edges}

Init ==
    /\ IsFlowGraph(flow)
    /\ i_input = [b \in flow.blocks |-> {}]
    /\ i_output = flow.gen
    /\ dirty = TRUE
    /\ todo = {}
    /\ at = flow.entry
    /\ def \in flow.gen[flow.entry]

NextSweep ==
    /\ todo = {} /\ dirty
    /\ dirty' = FALSE
    /\ todo' = flow.blocks
    /\ UNCHANGED <<flow, i_input, i_output, program>>

Incoming(b) == UNION {i_output[p] : p \in Parents(b)}
Through(b, defs) == (defs \ flow.kill[b]) \cup flow.gen[b]

(* Mutant: only a change against the block's own definitions is noticed.       *)
UpdateComparesGen(b) ==
    /\ b \in todo
    /\ todo' = todo \ {b}
    /\ i_input' = [i_input EXCEPT ![b] = Incoming(b)]
    /\ i_output' = [i_output EXCEPT ![b] = Through(b, Incoming(b))]
    /\ dirty' = (dirty \/ Through(b, Incoming(b)) # flow.gen[b])
    /\ UNCHANGED <<flow, program>>

(* Mutant: the flag says whether the last block changed.                      *)
UpdateForgetsDirty(b) ==
    /\ b \in todo
    /\ todo' = todo \ {b}
    /\ i_input' = [i_input EXCEPT ![b] = Incoming(b)]
    /\ i_output' = [i_output EXCEPT ![b] = Through(b, Incoming(b))]
    /\ dirty' = (Through(b, Incoming(b)) # i_output[b])
    /\ UNCHANGED <<flow, program>>

Update(b) ==
    /\ b \in todo
    /\ todo' = todo \ {b}
    /\ i_input' = [i_input EXCEPT ![b] = Incoming(b)]
    /\ i_output' = [i_output EXCEPT ![b] = Through(b, Incoming(b))]
    /\ dirty' = (dirty \/ Through(b, Incoming(b)) # i_output[b])
    /\ UNCHANGED <<flow, program>>

Converged == todo = {} /\ ~dirty

(* A step of the compiled program, into block b: what the block defines of     *)
(* the name replaces the definition the program came with.                    *)
Walk(b) ==
    /\ Converged
    /\ <<at, b>> \in flow.edges
    /\ at' = b
    /\ def' \in IF def \in flow.kill[b] THEN flow.gen[b] ELSE {def}
    /\ UNCHANGED <<flow, analysis>>

Next ==
    \/ NextSweep
    \/ \E b \in flow.blocks : Update(b) \/ Walk(b)

Spec == Init /\ [][Next]_vars

-----------------------------------------------------------------------------
(* The type invariant.                                                       *)
TypeOK ==
    /\ IsFlowGraph(flow)
    /\ i_input \in [flow.blocks -> SUBSET Def]
    /\ i_output \in [Nodes(flow) -> SUBSET Def]
    /\ dirty \in BOOLEAN
    /\ todo \subseteq flow.blocks
    /\ at \in Nodes(flow) /\ def \in Def

(* The blocks a clean sweep has left behind satisfy the flow equations.        *)
CleanBehind ==
    ~dirty => \A b \in flow.blocks \ todo :
                 /\ i_input[b] = Incoming(b)
                 /\ i_output[b] = Through(b, Incoming(b))

EntryKept == i_output[flow.entry] = flow.gen[flow.entry]

(* Every step of every execution is foreseen: when the analysis has stopped,   *)
(* whatever path the program takes, the definition it carries out of a block is *)
(* one of those the analysis has computed for the block.                      *)
ReachingSound == Converged => def \in i_output[at]

(* The inductive invariant.                                                  *)
FlowInv ==
    /\ TypeOK /\ CleanBehind /\ EntryKept /\ ReachingSound
    /\ ~Converged => at = flow.entry /\ def \in flow.gen[flow.entry]
=============================================================================
