------------------------ MODULE GeneratorProperties ------------------------
(* What generators and coroutines promise.                                   *)
EXTENDS Generator

(* The activations of all threads.                                           *)
Places == UNION {{t} \X DOMAIN stack[t] : t \in Thread}
FrameAt(p) == stack[p[1]][p[2]]
Inside(g) == {p \in Places : FrameAt(p).gen = g /\ FrameAt(p).op # "body"
                                                /\ FrameAt(p).pc # "start"}
Bodies(g) == {p \in Places : FrameAt(p).gen = g /\ FrameAt(p).op = "body"}

(* "They can't be run simultaneously from multiple threads so as long as we      *)
(* track this correctly": the flag is set exactly while one activation is past   *)
(* the test, whichever way it is left, and a body runs at most once.            *)
RunningExact ==
    \A g \in Gen :
       /\ Cardinality(Inside(g)) = is_running[g]
       /\ Cardinality(Bodies(g)) <= is_running[g]

(* "We assume that gen->yieldfrom cannot change as long as gen->is_running is    *)
(* set": the delegate that is being called is still the one stored, so that its  *)
(* borrowed reference stays valid through the call.                           *)
DelegateStable ==
    \A p \in Places :
       FrameAt(p).pc \in {"delegate", "closing"} => yieldfrom[FrameAt(p).gen] = FrameAt(p).of

(* The generator whose body is the last one among the first n activations of s.    *)
LastBody(s, n, g) ==
    \/ g = NoGen /\ \A i \in 1..n : s[i].op # "body"
    \/ \E i \in 1..n : /\ s[i].op = "body" /\ s[i].gen = g
                      /\ \A j \in (i + 1)..n : s[j].op # "body"

(* The stack of handled exceptions of a thread lists the generator bodies it is    *)
(* executing, the innermost first, and a suspended generator is in no such list.   *)
ExcStackMatchesCalls ==
    /\ \A t \in Thread : LastBody(stack[t], Len(stack[t]), exc_info[t])
    /\ \A p \in Places :
          FrameAt(p).op = "body" => LastBody(stack[p[1]], p[2] - 1, previous_item[FrameAt(p).gen])
    /\ \A g \in Gen : Bodies(g) = {} => previous_item[g] = NoGen

(* PEP 479, in modules with generator_stop: a call ends in StopIteration only       *)
(* because the object was exhausted before, never because its body let one escape. *)
StopIterationOnlyFromExhausted ==
    [][\A t \in Thread :
          GeneratorStop /\ ret'[t] = Raised("StopIteration") /\ ret[t] # ret'[t]
             => resume_label[Top(t).gen] = "done"]_vars

(* A step of thread t that resumes a body with a StopIteration to raise.           *)
ResumesWithStopIteration(t) ==
    /\ Len(stack'[t]) > Len(stack[t])
    /\ Top(t)'.op = "body" /\ Top(t)'.arg = Raised("StopIteration")

(* What is left of "yield from ends with a value" in every build: a body is         *)
(* resumed with a StopIteration only when a caller throws it at an object that     *)
(* delegates to nobody, or, with am_send (the default of CPython), when send() or   *)
(* next() reaches a delegate that has ended.  A delegate that ends in this very call *)
(* answers with its value and never with StopIteration                            *)
(* (StopIterationOnlyFromExhausted), so it was driven to its end or closed by       *)
(* somebody else since the outer object was suspended: SendToDelegate               *)
(* passes the StopIteration on where FinishDelegation, which serves throw() and     *)
(* the other builds, fetches a value from it.                                    *)
DelegationEndsWithValue ==
    [][\A t \in Thread :
          ResumesWithStopIteration(t) =>
             \/ /\ At(t, "switch") /\ Top(t).op = "throw"
                /\ yieldfrom[Top(t).gen] = NoGen
             \/ /\ UseAmSend /\ At(t, "delegate") /\ Top(t).op = "send"
                /\ resume_label[Top(t).of] = "done"]_vars
=============================================================================
