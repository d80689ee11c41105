----------------------------- MODULE AsyncGen -----------------------------
(***************************************************************************)
(* One asynchronous generator and the awaitable objects of its methods        *)
(* __anext__(), asend(), athrow() and aclose() (Cython/Utility/AsyncGen.c).   *)
(*                                                                         *)
(* Tasks of one event loop await these objects: they send None, or throw when  *)
(* they are cancelled, until the object raises; they can be closed themselves  *)
(* in the middle, and await an object again later.  Each call of a method is    *)
(* one step, as under the GIL: it resumes the body of the generator up to the   *)
(* next point where that awaits something, yields a value or ends.            *)
(***************************************************************************)
EXTENDS FiniteSets

CONSTANTS Awaitable, \* the awaitable objects
          Reused     \* the kinds that are awaited again after their end

Kind == {"anext", "asend", "athrow", "athrow without arguments", "aclose"}

VARIABLES body,    \* where the body is: "start", "inAwait", "atYield", "done"
          running, \* ag_running_async
          closed,  \* ag_closed
          hooked,  \* ag_hooks_inited
          kind,    \* per object, its kind, or "none" when it is free
          state,   \* per object: "INIT", "ITER" or "CLOSED"
          task,    \* what is awaiting it: "new", "waiting", "answered", "gone"
          answer,  \* the last thing it raised in the task, or "nothing"
          leaked   \* some call gave up without clearing ag_running_async

generator == <<body, running, closed, hooked>>
agVars == <<generator, kind, state, task, answer, leaked>>

AGInit ==
    /\ body = "start" /\ running = FALSE /\ closed = FALSE /\ hooked = FALSE
    /\ kind = [a \in Awaitable |-> "none"]
    /\ state = [a \in Awaitable |-> "CLOSED"]
    /\ task = [a \in Awaitable |-> "new"]
    /\ answer = [a \in Awaitable |-> "nothing"]
    /\ leaked = FALSE

-----------------------------------------------------------------------------
(* The generator below: what a send or throw leads to.  A body that has not begun *)
(* takes None only, one that has ended answers a send with StopAsyncIteration.    *)
Outcomes(input) ==
    CASE body = "done"  -> {IF input \in {"exit", "error"} THEN input ELSE "stop"}
      [] body = "start" /\ input # "None" -> {IF input = "exit" THEN "exit" ELSE "error"}
      [] OTHER          -> {"await", "value", "stop", "exit", "error"}

BodyAfter(outcome) ==
    IF outcome = "await" THEN "inAwait" ELSE IF outcome = "value" THEN "atYield" ELSE "done"

(* Mutant: only values and ends clear the flag, errors do not.                   *)
KeptOnError(outcome) == outcome \in {"await", "error"}

(* __Pyx_async_gen_unwrap_value(): everything but an await goes to the asker.      *)
Kept(outcome) == outcome = "await"

Unwrap(outcome) ==
    /\ running' = Kept(outcome)
    /\ closed' = (closed \/ outcome \in {"stop", "exit"})

(* What the task is told, and whether it goes on waiting.                        *)
Tell(a, what) ==
    /\ answer' = [answer EXCEPT ![a] = what]
    /\ task' = [task EXCEPT ![a] = IF what = "await" THEN "waiting" ELSE "answered"]

Refuse(a, what) == Tell(a, what) /\ UNCHANGED <<body, running, closed>>

Becomes(a, s) == state' = [state EXCEPT ![a] = s]

(* Mutant: an object that has answered can go on.                               *)
AlwaysIter(outcome) == "ITER"

ASendAfter(outcome) == IF outcome = "await" THEN "ITER" ELSE "CLOSED"

(* Mutant: nobody looks at the flag.                                            *)
NeverBusy(a) == FALSE

Busy(a) == state[a] = "INIT" /\ running

-----------------------------------------------------------------------------
(* __anext__(), asend(), athrow() and aclose(): the first of them runs the hooks,  *)
(* which may fail.                                                             *)
New(a, k) ==
    /\ kind[a] = "none"
    /\ kind' = [kind EXCEPT ![a] = k]
    /\ state' = [state EXCEPT ![a] = "INIT"]
    /\ task' = [task EXCEPT ![a] = "new"]
    /\ answer' = [answer EXCEPT ![a] = "nothing"]
    /\ hooked' = TRUE
    /\ UNCHANGED <<body, running, closed, leaked>>

HookFails ==
    /\ ~hooked /\ hooked' = TRUE
    /\ UNCHANGED <<body, running, closed, kind, state, task, answer, leaked>>

(* __Pyx_async_gen_asend_send_impl()                                            *)
ASendSend(a) ==
    /\ kind[a] \in {"anext", "asend"}
    /\ \/ state[a] = "CLOSED" /\ Refuse(a, "reused") /\ UNCHANGED state
       \/ Busy(a) /\ Refuse(a, "busy") /\ UNCHANGED state
       \/ /\ state[a] # "CLOSED" /\ ~Busy(a)
          /\ \E outcome \in Outcomes(IF state[a] = "INIT" /\ kind[a] = "asend" THEN "value" ELSE "None") :
                /\ body' = BodyAfter(outcome) /\ Unwrap(outcome)
                /\ Becomes(a, ASendAfter(outcome)) /\ Tell(a, outcome)
    /\ UNCHANGED leaked

(* __Pyx_async_gen_asend_throw()                                                *)
ASendThrow(a, exc) ==
    /\ kind[a] \in {"anext", "asend"}
    /\ \/ state[a] = "CLOSED" /\ Refuse(a, "reused") /\ UNCHANGED state
       \/ /\ state[a] # "CLOSED"
          /\ \E outcome \in Outcomes(exc) :
                /\ body' = BodyAfter(outcome) /\ Unwrap(outcome)
                /\ state' = [state EXCEPT ![a] = IF outcome = "await" THEN @ ELSE "CLOSED"]
                /\ Tell(a, outcome)
    /\ UNCHANGED leaked

(* Mutant: a body that yields is taken for one that has ended.                   *)
AcloseSatisfied(outcome) ==
    IF outcome \in {"stop", "exit", "value"} THEN "finished" ELSE outcome

(* How aclose() reports what the body did with GeneratorExit.                     *)
AcloseAnswer(outcome) ==
    CASE outcome \in {"stop", "exit"} -> "finished"
      [] outcome = "value" -> "ignored"
      [] OTHER -> outcome

(* aclose(): the labels yield_close and check_error.                              *)
AcloseResumed(a, outcome) ==
    /\ body' = BodyAfter(outcome) /\ closed' = TRUE
    /\ running' = (outcome = "await")
    /\ Becomes(a, IF outcome = "await" THEN "ITER" ELSE "CLOSED")
    /\ Tell(a, AcloseAnswer(outcome))

(* The first send to athrow() or aclose().                                       *)
AThrowBegin(a) ==
    \/ body = "done" /\ Refuse(a, "finished") /\ Becomes(a, "CLOSED") /\ UNCHANGED leaked
    \/ body # "done" /\ Busy(a) /\ Refuse(a, "busy") /\ Becomes(a, "CLOSED") /\ UNCHANGED leaked
    \/ /\ body # "done" /\ ~Busy(a) /\ closed
       /\ Refuse(a, "stop") /\ Becomes(a, "CLOSED") /\ UNCHANGED leaked
    \/ /\ body # "done" /\ ~Busy(a) /\ ~closed
       /\ \/ /\ kind[a] = "aclose"
             /\ \E outcome \in Outcomes("exit") : AcloseResumed(a, outcome)
             /\ UNCHANGED leaked
          \/ /\ kind[a] = "athrow"
             /\ \E outcome \in Outcomes("error") :
                   /\ body' = BodyAfter(outcome) /\ Unwrap(outcome)
                   /\ Becomes(a, IF outcome = "await" THEN "ITER" ELSE "CLOSED")
                   /\ Tell(a, outcome)
             /\ UNCHANGED leaked
          \/ /\ kind[a] = "athrow without arguments"
             /\ running' = TRUE /\ leaked' = TRUE /\ UNCHANGED <<body, closed>>
             /\ Becomes(a, "ITER") /\ Tell(a, "error")

(* A later one: athrow() does not note its own end.                               *)
AThrowGoOn(a) ==
    \/ body = "done" /\ Refuse(a, "finished") /\ Becomes(a, "CLOSED") /\ UNCHANGED leaked
    \/ /\ body # "done" /\ UNCHANGED leaked
       /\ \E outcome \in Outcomes("None") :
             \/ kind[a] = "aclose" /\ AcloseResumed(a, outcome)
             \/ /\ kind[a] # "aclose"
                /\ body' = BodyAfter(outcome) /\ Unwrap(outcome)
                /\ Tell(a, outcome) /\ UNCHANGED state

(* __Pyx_async_gen_athrow_send_impl()                                            *)
AThrowSend(a) ==
    /\ kind[a] \in {"athrow", "athrow without arguments", "aclose"}
    /\ \/ state[a] = "CLOSED" /\ Refuse(a, "reused") /\ UNCHANGED <<state, leaked>>
       \/ state[a] = "INIT" /\ AThrowBegin(a)
       \/ state[a] = "ITER" /\ AThrowGoOn(a)

(* __Pyx_async_gen_athrow_throw(): an exception that ends the body of aclose()      *)
(* leaves flag and state as they are.  A body that awaits again: the code compares   *)
(* an exception that is not set; here the comparison answers no and the await goes on. *)
AThrowThrow(a, exc) ==
    /\ kind[a] \in {"athrow", "athrow without arguments", "aclose"}
    /\ \/ state[a] = "CLOSED" /\ Refuse(a, "reused") /\ UNCHANGED <<state, leaked>>
       \/ /\ state[a] # "CLOSED"
          /\ \E outcome \in Outcomes(exc) :
                /\ body' = BodyAfter(outcome)
                /\ \/ /\ kind[a] # "aclose" /\ Unwrap(outcome) /\ Tell(a, outcome)
                      /\ UNCHANGED <<state, leaked>>
                   \/ /\ kind[a] = "aclose" /\ Tell(a, AcloseAnswer(outcome))
                      /\ leaked' = (leaked \/ outcome \in {"stop", "exit", "error"})
                      /\ running' = (running /\ outcome # "value")
                      /\ state' = [state EXCEPT ![a] = IF outcome = "value" THEN "CLOSED" ELSE @]
                      /\ UNCHANGED closed

(* asend_close() and athrow_close(), when the task that waits is closed or freed;   *)
(* the flag stays set.                                                           *)
Close(a) ==
    /\ Becomes(a, "CLOSED")
    /\ task' = [task EXCEPT ![a] = "gone"]
    /\ leaked' = TRUE
    /\ UNCHANGED <<generator, kind, answer>>

Free(a) ==
    /\ kind[a] # "none" /\ task[a] # "waiting"
    /\ kind' = [kind EXCEPT ![a] = "none"]
    /\ state' = [state EXCEPT ![a] = "CLOSED"]
    /\ task' = [task EXCEPT ![a] = "new"]
    /\ answer' = [answer EXCEPT ![a] = "nothing"]
    /\ UNCHANGED <<generator, leaked>>

-----------------------------------------------------------------------------
(* "await": an object is sent None until it raises, thrown at only while it is     *)
(* waited for, and awaited again by a task of its own.                            *)
Await(a) ==
    /\ \/ task[a] \in {"new", "waiting"}
       \/ task[a] \in {"answered", "gone"} /\ kind[a] \in Reused
    /\ ASendSend(a) \/ AThrowSend(a)
    /\ UNCHANGED <<kind, hooked>>

Cancel(a, exc) ==
    /\ task[a] = "waiting"
    /\ ASendThrow(a, exc) \/ AThrowThrow(a, exc)
    /\ UNCHANGED <<kind, hooked>>

AGNext ==
    \/ HookFails
    \/ \E a \in Awaitable :
          \/ \E k \in Kind : New(a, k)
          \/ Await(a)
          \/ \E exc \in {"exit", "error"} : Cancel(a, exc)
          \/ task[a] = "waiting" /\ Close(a)
          \/ Free(a)

AGSpec == AGInit /\ [][AGNext]_agVars

-----------------------------------------------------------------------------
TypeOK ==
    /\ body \in {"start", "inAwait", "atYield", "done"}
    /\ running \in BOOLEAN /\ closed \in BOOLEAN /\ hooked \in BOOLEAN /\ leaked \in BOOLEAN
    /\ kind \in [Awaitable -> Kind \cup {"none"}]
    /\ state \in [Awaitable -> {"INIT", "ITER", "CLOSED"}]
    /\ task \in [Awaitable -> {"new", "waiting", "answered", "gone"}]
    /\ answer \in [Awaitable -> {"nothing", "await", "value", "stop", "exit", "error",
                               "busy", "reused", "finished", "ignored"}]

Waiting == {a \in Awaitable : task[a] = "waiting"}

(* At most one task waits for the generator at any time; while it does, the body is  *)
(* where that task left it, and the flag keeps the others away.                   *)
OneAtATime ==
    /\ \A a, b \in Waiting : a = b
    /\ Waiting # {} => body = "inAwait" /\ running

(* A generator refuses a task only because another one is waiting, as long as no     *)
(* task was closed while it waited, none was cancelled out of an aclose(), and no     *)
(* athrow() was called without arguments: each of these leaves the flag set.         *)
FlagReleased == running => Waiting # {} \/ leaked

(* An aclose() that ends without an exception has ended the body, however often the  *)
(* body awaited something, and whatever was thrown into it, on its way out.          *)
AcloseMeansDone ==
    \A a \in Awaitable : kind[a] = "aclose" /\ answer[a] = "finished" => body = "done"

(* An object that has answered, or whose task is gone, never waits for the generator  *)
(* again and never takes a value from it, however often it is awaited; only one that  *)
(* was refused because the generator was busy may try again.                       *)
AnsweredOnce ==
    [][\A a \in Awaitable :
          task[a] \in {"answered", "gone"} /\ answer[a] # "busy" /\ kind'[a] = kind[a] =>
             /\ task'[a] # "waiting"
             /\ answer'[a] # answer[a] => answer'[a] # "value"]_agVars
=============================================================================
