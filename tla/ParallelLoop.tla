---------------------------- MODULE ParallelLoop ----------------------------
(***************************************************************************)
(* How the threads of an OpenMP team leave a prange() or a                    *)
(* "with parallel()" block together: the C code that ParallelStatNode and its  *)
(* subclasses in Cython/Compiler/Nodes.py put around the body, which notes the  *)
(* way out (__pyx_parallel_why), keeps one exception (__pyx_parallel_exc_type)     *)
(* and lets the calling thread go on when all have arrived.                    *)
(*                                                                         *)
(* Three forms are modelled: "for i in prange()", "with parallel()", and a     *)
(* prange between other statements of such a block ("nested"), whose loop has     *)
(* variables of its own in each thread.  The body is what a program may do in    *)
(* it: go on, break, return or raise.  Thread scheduling and the share of the      *)
(* iterations a thread is given are those of the OpenMP runtime: any.            *)
(***************************************************************************)
EXTENDS Naturals, FiniteSets, FiniteSetsExt

CONSTANTS Thread,    \* the team
          Caller,    \* its first thread, which called the function
          MaxShare,  \* bound: iterations one thread is given
          MaxSteps,  \* bound: iterations of the loop
          Nobody     \* no thread, no exception

ASSUME CallerAssumption == Caller \in Thread
ASSUME BoundAssumption == {MaxShare, MaxSteps} \subseteq Nat

Form == {"prange", "parallel", "nested"}

(* The variables of the region, and those of the loop of one thread in a block.    *)
Region == "region"
Scope == Thread \cup {Region}

ASSUME NobodyAssumption == Nobody \notin Thread \cup Nat /\ Region \notin Thread

VARIABLES form,     \* the construct
          freeThreaded, \* a build without a GIL, with __pyx_parallel_freethreading_mutex
          attached, \* whether the function was called with the GIL
          at,       \* where each thread is
          scope,    \* per thread: where it notes how it leaves
          left,     \* per thread: iterations still to come
          why,      \* __pyx_parallel_why: 1 continue, 2 break, 3 return, 4 error
          view,     \* the value of the shared one each thread saw last
          kept,     \* __pyx_parallel_exc_*, per scope
          pending,  \* the exception in the state of each thread
          lock,     \* who has the GIL, or the mutex of a free-threaded build
          raised,   \* how many exceptions there were: 1..raised
          released, \* those that are gone
          exits,    \* what was noted for the region
          leavers,     \* the threads that have noted a break, a return or an exception
          late,     \* per thread: bodies of a prange in no block begun when there were leavers
          outcome   \* how the caller goes on

program == <<form, freeThreaded, attached>>
exceptions == <<kept, pending, raised, released>>
noted == <<exits, leavers>>
vars == <<program, at, scope, left, why, view, exceptions, lock, noted, late, outcome>>

Init ==
    /\ form \in Form /\ freeThreaded \in BOOLEAN /\ attached \in BOOLEAN
    /\ attached => ~freeThreaded
    /\ at = [t \in Thread |-> "outside"]
    /\ scope = [t \in Thread |-> Region]
    /\ left \in [Thread -> 0..MaxShare]
    /\ MapThenSumSet(LAMBDA t : left[t], Thread) <= MaxSteps
    /\ form = "parallel" <=> \A t \in Thread : left[t] = 0
    /\ why = [s \in Scope |-> 0] /\ view = [t \in Thread |-> 0]
    /\ kept = [s \in Scope |-> Nobody] /\ pending = [t \in Thread |-> Nobody]
    /\ lock = IF attached THEN Caller ELSE Nobody
    /\ raised = 0 /\ released = {} /\ exits = {} /\ leavers = {} /\ late = [t \in Thread |-> 0]
    /\ outcome = "none"

-----------------------------------------------------------------------------
Goto(t, place) == at' = [at EXCEPT ![t] = place]

CanAttach(t) == freeThreaded \/ lock \in {Nobody, t}

Release(e) == released' = released \cup ({e} \ {Nobody})

(* An exception is raised in the thread, in a "with gil" block.                    *)
Raise(t) ==
    /\ CanAttach(t)
    /\ raised' = raised + 1
    /\ pending' = [pending EXCEPT ![t] = raised + 1] /\ Release(pending[t])
    /\ Goto(t, "raising")
    /\ UNCHANGED <<kept, why, view, noted>>

(* trap_parallel_exit(): the label of a way out.                                 *)
Note(t, w) ==
    /\ why' = [why EXCEPT ![scope[t]] = w]
    /\ exits' = IF scope[t] = Region THEN exits \cup {w} ELSE exits
    /\ leavers' = IF w < 2 THEN leavers ELSE leavers \cup {t}

-----------------------------------------------------------------------------
(* Mutant: a nogil function keeps the GIL it was called with.                     *)
EnterAttached ==
    /\ \A t \in Thread : at[t] = "outside"
    /\ at' = [t \in Thread |-> "entering"]
    /\ UNCHANGED <<program, scope, left, why, view, exceptions, lock, noted, late, outcome>>

(* The "with nogil" around the construct, and the fork of the team.                *)
Enter ==
    /\ \A t \in Thread : at[t] = "outside"
    /\ at' = [t \in Thread |-> "entering"]
    /\ lock' = Nobody
    /\ UNCHANGED <<program, scope, left, why, view, exceptions, noted, late, outcome>>

(* Each thread makes sure that it has a thread state and lets the GIL go again.     *)
Begin(t) ==
    /\ at[t] = "entering" /\ CanAttach(t)
    /\ Goto(t, CASE form = "prange" -> "loop"
                 [] form = "parallel" -> "block"
                 [] OTHER -> "before")
    /\ UNCHANGED <<program, scope, left, why, view, exceptions, lock, noted, late, outcome>>

(* The statements of a "with parallel()" block in front of its prange.  A thread that *)
(* leaves the block there skips the loop, and does not come to the loop's barrier.   *)
BlockStart(t) ==
    /\ at[t] = "before"
    /\ \/ /\ Goto(t, "loop") /\ scope' = [scope EXCEPT ![t] = t]
          /\ UNCHANGED <<why, noted, exceptions>>
       \/ \E w \in 1..3 : Note(t, w) /\ Goto(t, "joining") /\ UNCHANGED <<scope, exceptions>>
       \/ Raise(t) /\ UNCHANGED scope
    /\ UNCHANGED <<program, left, view, lock, late, outcome>>

(* The guard "if (__pyx_parallel_why < 2)" of an iteration.  A thread may not yet   *)
(* see what another one has written since its own last flush.                    *)
Iterate(t) ==
    /\ at[t] = "loop" /\ left[t] > 0
    /\ left' = [left EXCEPT ![t] = @ - 1]
    /\ LET now == why[scope[t]]
       IN  \E seen \in IF scope[t] = Region THEN {now, view[t]} ELSE {now} :
              /\ view' = [view EXCEPT ![t] = seen]
              /\ IF seen < 2
                 THEN /\ Goto(t, "body")
                      /\ late' = [late EXCEPT ![t] = IF form # "prange" \/ leavers = {} THEN @ ELSE @ + 1]
                 ELSE UNCHANGED <<at, late>>
    /\ UNCHANGED <<program, scope, why, exceptions, lock, noted, outcome>>

(* Mutant: a body that goes on does not flush.                                   *)
StaleView(t) == view[t]

FlushedView(t) == why[scope[t]]

Body(t) ==
    /\ at[t] = "body"
    /\ \/ /\ Goto(t, "loop")
          /\ view' = [view EXCEPT ![t] = FlushedView(t)]
          /\ UNCHANGED <<why, noted, exceptions>>
       \/ \E w \in {2, 3} :
             /\ Note(t, w) /\ view' = [view EXCEPT ![t] = w]
             /\ Goto(t, "loop") /\ UNCHANGED exceptions
       \/ Raise(t)
    /\ UNCHANGED <<program, scope, left, lock, late, outcome>>

-----------------------------------------------------------------------------
(* Mutant: nobody locks.                                                       *)
LockNothing(t) ==
    /\ at[t] = "raising" /\ Goto(t, "locked")
    /\ UNCHANGED <<program, scope, left, why, view, exceptions, lock, noted, late, outcome>>

(* fetch_parallel_exception(): under the GIL or the mutex, the first exception of   *)
(* the scope is moved out of the thread state, any other stays there.              *)
Lock(t) ==
    /\ at[t] = "raising" /\ lock = Nobody
    /\ lock' = t /\ Goto(t, "locked")
    /\ UNCHANGED <<program, scope, left, why, view, exceptions, noted, late, outcome>>

LookForOther(t) ==
    /\ at[t] = "locked"
    /\ Goto(t, IF kept[scope[t]] = Nobody THEN "storing" ELSE "noting")
    /\ UNCHANGED <<program, scope, left, why, view, exceptions, lock, noted, late, outcome>>

Keep(t) ==
    /\ at[t] = "storing" /\ Goto(t, "noting")
    /\ kept' = [kept EXCEPT ![scope[t]] = pending[t]]
    /\ pending' = [pending EXCEPT ![t] = Nobody]
    /\ UNCHANGED <<program, scope, left, why, view, lock, raised, released, noted, late, outcome>>

NoteError(t) ==
    /\ at[t] = "noting"
    /\ lock' = Nobody
    /\ Note(t, 4) /\ view' = [view EXCEPT ![t] = 4]
    /\ Goto(t, IF form # "prange" /\ scope[t] = Region THEN "joining" ELSE "loop")
    /\ UNCHANGED <<program, scope, left, exceptions, late, outcome>>

-----------------------------------------------------------------------------
(* The end of "#pragma omp for": everyone waits for everyone.                     *)
Arrive(t) ==
    /\ at[t] = "loop" /\ left[t] = 0
    /\ Goto(t, "barrier")
    /\ UNCHANGED <<program, scope, left, why, view, exceptions, lock, noted, late, outcome>>

Barrier ==
    /\ \A t \in Thread : at[t] = "barrier"
    /\ at' = [t \in Thread |-> "left"]
    /\ UNCHANGED <<program, scope, left, why, view, exceptions, lock, noted, late, outcome>>

(* Mutant: what was noted last wins.                                           *)
LastNoted(s) == why[s]

(* "This may have been overridden by a continue, break or return in another        *)
(* thread.  Prefer the error."                                                *)
WayOut(s) == IF kept[s] # Nobody THEN 4 ELSE why[s]

(* restore_parallel_exception()                                                 *)
Restore(t, s) ==
    /\ pending' = [pending EXCEPT ![t] = kept[s]] /\ Release(pending[t])
    /\ kept' = [kept EXCEPT ![s] = Nobody]
    /\ UNCHANGED raised

(* After the loop: in a block each thread does what its own loop noted, but break   *)
(* and return both just leave the loop.                                          *)
AfterLoop(t) ==
    /\ at[t] = "left"
    /\ \/ form = "prange" /\ Goto(t, "joining") /\ UNCHANGED <<scope, exceptions>>
       \/ /\ form # "prange"
          /\ scope' = [scope EXCEPT ![t] = Region]
          /\ IF WayOut(t) = 4
             THEN lock = Nobody /\ Restore(t, t) /\ Goto(t, "raising")
             ELSE Goto(t, "block") /\ UNCHANGED exceptions
    /\ UNCHANGED <<program, left, why, view, lock, noted, late, outcome>>

(* The rest of a "with parallel()" block.                                        *)
Block(t) ==
    /\ at[t] = "block"
    /\ \/ Goto(t, "joining") /\ UNCHANGED <<why, view, noted, exceptions>>
       \/ \E w \in 1..3 : Note(t, w) /\ Goto(t, "joining") /\ UNCHANGED <<view, exceptions>>
       \/ Raise(t)
    /\ UNCHANGED <<program, scope, left, lock, late, outcome>>

(* end_parallel_block(): all but the caller give up their thread state, and with it  *)
(* an exception that was not kept.                                              *)
Join(t) ==
    /\ at[t] = "joining" /\ CanAttach(t)
    /\ Goto(t, "ended")
    /\ IF t = Caller THEN UNCHANGED <<pending, released>>
       ELSE pending' = [pending EXCEPT ![t] = Nobody] /\ Release(pending[t])
    /\ UNCHANGED <<program, scope, left, why, view, kept, lock, raised, noted, late, outcome>>

(* What the switch at the end of the control flow block has a case for: a prange     *)
(* for errors only, in front of which its else clause stands.                      *)
GoesOn(w) ==
    CASE w = 4 -> "error"
      [] form = "prange" /\ w # 4 -> IF why[Region] < 2 THEN "else" ELSE "next"
      [] form # "prange" /\ w = 3 -> "return"
      [] form # "prange" /\ w = 2 -> "break"
      [] form # "prange" /\ w = 1 -> "continue"
      [] OTHER -> "next"

(* end_parallel_control_flow_block()                                            *)
Resume ==
    /\ outcome = "none" /\ lock = Nobody
    /\ \A t \in Thread : at[t] = "ended"
    /\ outcome' = GoesOn(WayOut(Region))
    /\ IF WayOut(Region) = 4 THEN Restore(Caller, Region) ELSE UNCHANGED exceptions
    /\ lock' = IF attached THEN Caller ELSE Nobody
    /\ UNCHANGED <<program, at, scope, left, why, view, noted, late>>

Step(t) ==
    \/ Begin(t) \/ BlockStart(t) \/ Iterate(t) \/ Body(t)
    \/ Lock(t) \/ LookForOther(t) \/ Keep(t) \/ NoteError(t)
    \/ Arrive(t) \/ AfterLoop(t) \/ Block(t) \/ Join(t)

Next == Enter \/ Barrier \/ Resume \/ \E t \in Thread : Step(t)

(* The operating system runs every thread, and bodies end.                        *)
Spec ==
    /\ Init /\ [][Next]_vars
    /\ WF_vars(Enter) /\ WF_vars(Barrier) /\ WF_vars(Resume)
    /\ \A t \in Thread : WF_vars(Step(t))

-----------------------------------------------------------------------------
Place == {"outside", "entering", "before", "loop", "body", "raising", "locked", "storing", "noting",
          "barrier", "left", "block", "joining", "ended"}

TypeOK ==
    /\ form \in Form /\ freeThreaded \in BOOLEAN /\ attached \in BOOLEAN
    /\ at \in [Thread -> Place] /\ scope \in [Thread -> Scope]
    /\ left \in [Thread -> Nat] /\ late \in [Thread -> Nat]
    /\ why \in [Scope -> 0..4] /\ view \in [Thread -> 0..4] /\ exits \subseteq 1..4
    /\ leavers \subseteq Thread
    /\ raised \in Nat /\ released \subseteq 1..raised
    /\ kept \in [Scope -> 1..raised \cup {Nobody}]
    /\ pending \in [Thread -> 1..raised \cup {Nobody}]
    /\ lock \in Thread \cup {Nobody}
    /\ outcome \in {"none", "error", "else", "next", "return", "break", "continue"}

(* Every exception is owned exactly once: by the state of one thread, by one set of  *)
(* __pyx_parallel_exc_* variables, or it has been released.  None is lost when      *)
(* several threads raise at once, none is released twice, and when the region is     *)
(* over no other is left than the one the caller raises.                          *)
OwnedOnce ==
    /\ \A e \in 1..raised :
          Cardinality({t \in Thread : pending[t] = e}) + Cardinality({s \in Scope : kept[s] = e})
             + (IF e \in released THEN 1 ELSE 0) = 1
    /\ outcome # "none" =>
          /\ \A e \in 1..raised : e \notin released => pending[Caller] = e
          /\ \A s \in Scope : kept[s] = Nobody

(* The caller raises an exception exactly if some thread raised one, whatever the     *)
(* others did meanwhile.  Otherwise, behind a "with parallel()" block it goes on in a  *)
(* way that a thread left the block by.  Behind a prange it just goes on, after the    *)
(* else clause exactly if no thread noted a break or a return: a return, too, ends no  *)
(* more than the loop, although parallelism.rst 214 lists it with break.             *)
OutcomeMatches ==
    outcome # "none" =>
       /\ (outcome = "error") = (raised > 0) /\ (outcome = "error") = (pending[Caller] # Nobody)
       /\ outcome # "error" =>
             IF form = "prange" THEN outcome = (IF exits = {} THEN "else" ELSE "next")
             ELSE IF exits = {} THEN outcome = "next"
             ELSE outcome \in {<<"continue", "break", "return">>[w] : w \in exits}

(* A thread that has noted its way out begins no body any more.  In a prange that is   *)
(* not in a block, a thread begins at most one after any other has noted one ("the     *)
(* loop body is skipped after the first break, return or exception for any subsequent  *)
(* iteration in any thread", parallelism.rst 218).  In a prange in a block the latter    *)
(* does not hold, whatever the bound: there a thread does not learn of the others'.    *)
OneLateBody ==
    \A t \in Thread : /\ at[t] = "body" => t \notin leavers
                      /\ form = "prange" => late[t] <= 1

(* The region ends, also for a caller that had the GIL: no thread waits for a GIL or    *)
(* for the mutex for ever, nor for the others at the barrier, unless one of them has   *)
(* left a "with parallel()" block in front of its prange and never comes there.       *)
Stranded == {at[t] : t \in Thread} = {"barrier", "ended"}
RegionEnds == <>(outcome # "none" \/ Stranded)
=============================================================================
