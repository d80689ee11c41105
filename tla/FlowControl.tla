---------------------------- MODULE FlowControl ----------------------------
(***************************************************************************)
(* ControlFlowAnalysis of Cython/Compiler/FlowControl.py: the visitor that  *)
(* turns a function body into a flow graph, normalize(), initialize(), and  *)
(* the states check_definitions() reads off the analysed graph.  The code   *)
(* generator leaves out the test for an unbound variable where the analysis *)
(* says it is bound, and refuses to compile a read it says is unbound.      *)
(*                                                                         *)
(* A body is a sequence of statements (records with a field "kind"); one    *)
(* variable, x, is followed; "other" is an assignment to another one, and   *)
(* every expression may raise.  A node of the tree is named by its path.    *)
(***************************************************************************)
EXTENDS ReachingDefinitions, Statements

CONSTANTS Program,    \* the function bodies
          AnyOrder    \* graphs of at most so many blocks are swept in every order

VARIABLE body

None == 0

(* The state of the visitor: number of blocks, current block, the graph, and the *)
(* stacks of loop and exception descriptors.                                 *)
EntryPoint == 1
ExitPoint == 2
NewFlow == [count |-> 2, block |-> EntryPoint, edges |-> {},
            stats |-> (EntryPoint :> <<>>) @@ (ExitPoint :> <<>>),
            loops |-> <<>>, exceptions |-> <<>>]

AddChild(f, parent, child) == [f EXCEPT !.edges = @ \cup {<<parent, child>>}]
Link(f, child) == IF f.block = None THEN f ELSE AddChild(f, f.block, child)

Newblock(f) == [f EXCEPT !.count = @ + 1, !.stats = @ @@ (f.count + 1 :> <<>>)]
At(f, b) == [f EXCEPT !.block = b]
ChildOf(f, parent) == At(AddChild(Newblock(f), parent, f.count + 1), f.count + 1)
Nextblock(f) == IF f.block = None THEN At(Newblock(f), f.count + 1) ELSE ChildOf(f, f.block)

(* "if next_block.parents: self.flow.block = next_block"                     *)
Resume(f, next) == At(f, IF \E e \in f.edges : e[2] = next THEN next ELSE None)

Mark(f, kind, path) ==
    IF f.block = None THEN f
    ELSE [f EXCEPT !.stats[f.block] = Append(@, [kind |-> kind, path |-> path])]

(* The edge to the innermost exception handler.                             *)
LinkHandler(f) ==
    IF f.exceptions = <<>> THEN f ELSE Link(f, Last(f.exceptions).entry)

SplitForHandler(f) == IF f.exceptions = <<>> THEN f ELSE Nextblock(LinkHandler(f))

(* Mutant: an exception is expected before the assignment only.               *)
MarkAssignmentBefore(f, kind, path) ==
    IF f.block = None THEN f ELSE Mark(SplitForHandler(f), kind, path)

MarkAssignment(f, kind, path) ==
    IF f.block = None THEN f
    ELSE SplitForHandler(Mark(SplitForHandler(f), kind, path))

-----------------------------------------------------------------------------
(* The visitors of the statements.                                          *)
RECURSIVE VisitBody(_, _, _)

VisitDel(f, path) == Mark(Mark(f, "use", path), "del", path)

Branch(f, parent, stats, path, next) ==
    Link(VisitBody(ChildOf(f, parent), stats, path), next)

VisitIf(f, s, path) ==
    LET next == f.count + 1
        condition == Nextblock(Newblock(f))
        then == Branch(condition, condition.block, s.then, Append(path, Then), next)
        rest == IF s.else = <<>> THEN AddChild(then, condition.block, next)
                ELSE Branch(then, condition.block, s.else, Append(path, Else), next)
    IN Resume(rest, next)

(* while and for: a block for the condition or the iterator, the body, and the *)
(* else clause, which a break jumps over.                                     *)
VisitLoop(f, s, path) ==
    LET next == f.count + 2
        condition == Newblock(Nextblock(f))
        head == condition.block
        tested == IF s.kind = "while" /\ s.reads THEN Mark(condition, "use", path) ELSE condition
        entered == Nextblock([tested EXCEPT !.loops =
                                 Append(@, [next |-> next, head |-> head, exceptions |-> <<>>])])
        target == IF s.kind = "while" THEN entered
                  ELSE Nextblock(MarkAssignment(entered, s.target, path))
        done == [VisitBody(target, s.then, Append(path, Then)) EXCEPT !.loops = Front(@)]
        again == IF s.kind = "while" THEN Link(Link(done, head), next) ELSE Link(done, head)
        rest == IF s.else = <<>> THEN AddChild(again, head, next)
                ELSE Branch(again, head, s.else, Append(path, Else), next)
    IN Resume(rest, next)

VisitTryExcept(f, s, path) ==
    LET next == f.count + 1
        entry == f.count + 2
        before == Nextblock(Newblock(Newblock(f)))
        tried == VisitBody(
                    Nextblock(AddChild([before EXCEPT !.exceptions =
                        Append(@, [entry |-> entry, enter |-> None, exit |-> None])], before.block, entry)),
                    s.then, Append(path, Then))
        outer == [tried EXCEPT !.exceptions = f.exceptions]
        succeeded == IF outer.block # None /\ s.else # <<>>
                     THEN VisitBody(Nextblock(outer), s.else, Append(path, Else)) ELSE outer
        unmatched == succeeded.count + 1
        clause == ChildOf(AddChild(Newblock(Link(succeeded, next)), entry, unmatched), entry)
        handled == Link(VisitBody(clause, s.handler, Append(path, Handler)), next)
    IN Resume(LinkHandler(At(handled, unmatched)), next)

(* Both copies of the clause are visited before the body.                    *)
VisitTryFinally(f, s, path) ==
    LET start == Nextblock(f)
        entry == start.count + 1
        raised == LinkHandler(VisitBody(At(Newblock(start), entry), s.finally, Append(path, FinallyExcept)))
        enter == raised.count + 1
        normal == VisitBody(At(Newblock(raised), enter), s.finally, Append(path, Finally))
        descr == [entry |-> entry, enter |-> enter, exit |-> normal.block]
        inside == [normal EXCEPT
                      !.exceptions = Append(@, descr),
                      !.loops = IF @ = <<>> THEN @
                                ELSE [@ EXCEPT ![Len(@)].exceptions = Append(@, descr)]]
        tried == VisitBody(Nextblock(AddChild(At(inside, start.block), start.block, entry)),
                           s.then, Append(path, Then))
        after == [tried EXCEPT !.exceptions = f.exceptions, !.loops = f.loops]
    IN IF after.block = None THEN after
       ELSE IF descr.exit = None THEN At(Link(after, enter), None)
       ELSE ChildOf(Link(after, enter), descr.exit)

Terminate(f) == At(f, None)

IsFinally(d) == d.enter # None

(* return, break and continue run the innermost finally clause on their way.  *)
Jump(f, descrs, target) ==
    LET clauses == SelectSeq(descrs, IsFinally)
    IN Terminate(
         IF clauses = <<>> THEN Link(f, target)
         ELSE LET d == Last(clauses)
                  entered == Link(f, d.enter)
              IN IF d.exit = None THEN entered ELSE AddChild(entered, d.exit, target))

VisitReturn(f) ==
    LET clauses == SelectSeq(f.exceptions, IsFinally)
    IN Jump(f, f.exceptions,
            IF Len(clauses) < 2 THEN ExitPoint ELSE clauses[Len(clauses) - 1].enter)
VisitBreak(f) == Jump(f, Last(f.loops).exceptions, Last(f.loops).next)
VisitContinue(f) == Jump(f, Last(f.loops).exceptions, Last(f.loops).head)
VisitRaise(f) == Terminate(LinkHandler(f))

Visit(f, s, path) ==
    CASE s.kind = "assign"   -> MarkAssignment(f, "assign", path)
      [] s.kind = "other"    -> MarkAssignment(f, "other", path)
      [] s.kind = "use"      -> Mark(f, "use", path)
      [] s.kind = "del"      -> VisitDel(f, path)
      [] s.kind = "if"       -> VisitIf(f, s, path)
      [] s.kind \in {"while", "for"} -> VisitLoop(f, s, path)
      [] s.kind = "tryexcept" -> VisitTryExcept(f, s, path)
      [] s.kind = "tryfinally" -> VisitTryFinally(f, s, path)
      [] s.kind = "return"   -> VisitReturn(f)
      [] s.kind = "break"    -> VisitBreak(f)
      [] s.kind = "continue" -> VisitContinue(f)
      [] s.kind = "raise"    -> VisitRaise(f)

(* Statements after one that does not end normally are not visited.           *)
VisitBody(f, stats, path) ==
    FoldLeft(LAMBDA g, i : IF g.block = None THEN g ELSE Visit(g, stats[i], Append(path, i)),
             f, [i \in DOMAIN stats |-> i])

(* visit_FuncDefNode                                                         *)
VisitFunction(stats) == Link(VisitBody(Nextblock(NewFlow), stats, <<>>), ExitPoint)

-----------------------------------------------------------------------------
(* normalize(): unreachable blocks go, the parents of an empty block adopt its *)
(* children.  initialize(): what a block generates and kills of x.             *)

RECURSIVE Reachable(_, _)
Reachable(edges, S) ==
    LET more == S \cup {e[2] : e \in {d \in edges : d[1] \in S}}
    IN IF more = S THEN S ELSE Reachable(edges, more)

Bypass(b, edges) ==
    {e \in edges : b \notin {e[1], e[2]}}
        \cup {<<d[1], e[2]>> : d \in {d \in edges : d[2] = b /\ d[1] # b},
                               e \in {e \in edges : e[1] = b /\ e[2] # b}}

IsBinding(stat) == stat.kind \in {"assign", "del"}
Bound(stat) == IF stat.kind = "del" THEN Uninitialized ELSE stat.path

(* The definitions that leave a sequence of statements entered with "defs".    *)
Flowing(stats, defs) ==
    LET bindings == SelectSeq(stats, IsBinding)
    IN IF bindings = <<>> THEN defs ELSE {Bound(Last(bindings))}

Initialized(f) ==
    LET visited == Reachable(f.edges, {EntryPoint}) \ {EntryPoint}
        empty == {b \in visited : f.stats[b] = <<>> /\ b # ExitPoint}
        blocks == visited \ empty
        nodes == blocks \cup {EntryPoint}
        all == {Uninitialized} \cup
                   UNION {{st.path : st \in {st \in Range(f.stats[b]) : st.kind = "assign"}} : b \in blocks}
    IN [entry |-> EntryPoint,
        blocks |-> blocks,
        edges |-> FoldSet(Bypass, {e \in f.edges : e[1] \in visited \cup {EntryPoint}}, empty),
        gen |-> [b \in nodes |-> IF b = EntryPoint THEN {Uninitialized}
                                 ELSE Flowing(f.stats[b], {})],
        kill |-> [b \in nodes |-> IF b # EntryPoint /\ Flowing(f.stats[b], {}) # {}
                                  THEN all ELSE {}],
        stats |-> [b \in nodes |-> f.stats[b]]]

FlowOf(stats) == Initialized(VisitFunction(stats))

(* check_definitions(): the states of the references to x, as pairs of a        *)
(* reference and a definition that may reach it.                              *)
CfState ==
    UNION {UNION {{<<flow.stats[b][i].path, d>> :
                      d \in Flowing(SubSeq(flow.stats[b], 1, i - 1), i_input[b])} :
                  i \in {i \in DOMAIN flow.stats[b] : flow.stats[b][i].kind = "use"}} :
           b \in flow.blocks}

-----------------------------------------------------------------------------
FlowInit ==
    /\ body \in Program
    /\ flow \in {FlowOf(body)}
    /\ Init

(* The sweeps take the blocks of a large graph in one order only.               *)
InOrder(b) == Cardinality(flow.blocks) <= AnyOrder \/ \A c \in todo : b <= c

FlowNext ==
    /\ \/ NextSweep
       \/ \E b \in flow.blocks : (InOrder(b) /\ Update(b)) \/ Walk(b)
    /\ UNCHANGED body

FlowSpec == FlowInit /\ [][FlowNext]_<<vars, body>>
FairFlowSpec == FlowSpec /\ WF_<<vars, body>>(FlowNext)

-----------------------------------------------------------------------------
(* "Uninitialized variables are no longer initialized to None and accessing them *)
(* has the same semantics as standard Python" (CHANGES.rst): the binding of x,    *)
(* or its absence, that an execution finds at a reference is among those the      *)
(* analysis has found for it.  Otherwise the code is compiled without the test   *)
(* for an unbound variable, or rejected although the variable is bound.  This is   *)
(* not so for what an execution carries along a way that the visitor has no edge    *)
(* for (MarkOf), until it binds x again: from a del in a try block to the handler     *)
(* (FlowControl.py 914), into the third finally clause of a return (1436) and the     *)
(* second one of a break or continue (1452), and out of a finally clause that can     *)
(* end in a jump to the handlers around it (1374).                                 *)
CfStateSound ==
    Converged /\ at = EntryPoint =>
        \A r \in Run(body).reads : MarkOf(r[2]) # Unforeseen => <<r[1], Unmarked(r[2])>> \in CfState

(* The sweeps come to an end.                                               *)
AnalysisEnds == <>Converged
=============================================================================
