----------------------------- MODULE Generator -----------------------------
(***************************************************************************)
(* Generators and coroutines (Cython/Utility/Coroutine.c): send, throw and  *)
(* close on objects that run a compiled body, suspend in it, and may         *)
(* delegate to one another with "yield from" or "await".                     *)
(*                                                                         *)
(* Every thread has a stack of C activations.  A call activation (op "send",  *)
(* "throw", "close") moves through the pcs "start", "switch", then            *)
(* "delegate" or "closing" while its delegate is called, and "body" while the *)
(* body runs; next() is send(None).  A body activation (op "body") is user    *)
(* code: it chooses freely what to do next, which includes calling any        *)
(* generator, itself among them.                                             *)
(***************************************************************************)
EXTENDS Naturals, Sequences, FiniteSets

CONSTANTS Gen,         \* the generator and coroutine objects
          Coroutine,   \* those of them made by "async def"
          Thread,
          NoGen,       \* NULL for yieldfrom; the thread's own exc_info item
          Thrown,      \* the exceptions callers throw
          Uncaught,    \* the exceptions the code of bodies ends with
          UseAmSend,   \* CYTHON_USE_AM_SEND
          GeneratorStop, \* the future directive generator_stop
          Gil          \* FALSE in a free-threaded build

ASSUME GeneratorAssumption ==
    /\ Coroutine \subseteq Gen /\ NoGen \notin Gen
    /\ UseAmSend \in BOOLEAN /\ GeneratorStop \in BOOLEAN /\ Gil \in BOOLEAN

VARIABLES resume_label,  \* "fresh" (0), "paused" (a yield label), "done" (-1)
          is_running,
          yieldfrom,
          previous_item, \* of gi_exc_state: the handled-exception stack
          exc_info,      \* per thread, the top of that stack
          stack,         \* per thread, the activations, the newest last
          ret            \* per thread, what the last call returned

object == <<resume_label, is_running, yieldfrom, previous_item>>
vars == <<resume_label, is_running, yieldfrom, previous_item, exc_info, stack, ret>>

Nothing == [k |-> "none", x |-> "None"]
Yielded == [k |-> "next", x |-> "None"]
Returned(v) == [k |-> "return", x |-> v]
Raised(e) == [k |-> "error", x |-> e]
Value == {"None", "value"}

Frame(op, g, arg) == [op |-> op, gen |-> g, arg |-> arg, pc |-> "start", of |-> NoGen]

(* A call that goes on to pc: its argument has been passed on.                *)
PassOn(f, pc, of) == [f EXCEPT !.pc = pc, !.of = of, !.arg = Nothing]

Top(t) == stack[t][Len(stack[t])]
At(t, pc) == stack[t] # <<>> /\ Top(t).pc = pc
InCode(t) == At(t, "code")
Below(t) == SubSeq(stack[t], 1, Len(stack[t]) - 1)

(* The GIL is only handed over in user code.                                *)
MayStep(t) == Gil => \A u \in Thread \ {t} : stack[u] = <<>> \/ InCode(u)

Init ==
    /\ resume_label = [g \in Gen |-> "fresh"]
    /\ is_running = [g \in Gen |-> 0]
    /\ yieldfrom = [g \in Gen |-> NoGen]
    /\ previous_item = [g \in Gen |-> NoGen]
    /\ exc_info = [t \in Thread |-> NoGen]
    /\ stack = [t \in Thread |-> <<>>]
    /\ ret = [t \in Thread |-> Nothing]

-----------------------------------------------------------------------------
(* The stack operations: all of them clear or set the returned result.       *)
Push(t, top, f) ==
    /\ stack' = [stack EXCEPT ![t] = Append(Append(Below(t), top), f)]
    /\ ret' = [ret EXCEPT ![t] = Nothing]

Replace(t, top, r) ==
    /\ stack' = [stack EXCEPT ![t] = Append(Below(t), top)]
    /\ ret' = [ret EXCEPT ![t] = r]

Pop(t, r) ==
    /\ stack' = [stack EXCEPT ![t] = Below(t)]
    /\ ret' = [ret EXCEPT ![t] = r]

Calls == [op : {"send"}, gen : Gen, arg : {Returned(v) : v \in Value}]
   \cup [op : {"throw"}, gen : Gen, arg : {Raised(e) : e \in Thrown}]
   \cup [op : {"close"}, gen : Gen, arg : {Raised("GeneratorExit")}]

(* A thread calls a method from outside every generator.                     *)
CallFromOutside(t) ==
    /\ stack[t] = <<>>
    /\ \E c \in Calls : stack' = [stack EXCEPT ![t] = <<Frame(c.op, c.gen, c.arg)>>]
    /\ ret' = [ret EXCEPT ![t] = Nothing]
    /\ UNCHANGED <<object, exc_info>>

-----------------------------------------------------------------------------
(* __Pyx_Coroutine_test_and_set_is_running, and the error return after it.    *)
TestAndSet(t) ==
    /\ At(t, "start") /\ Top(t).op # "body"
    /\ \/ /\ is_running[Top(t).gen] = 1
          /\ Pop(t, Raised("already executing"))
          /\ UNCHANGED is_running
       \/ /\ is_running[Top(t).gen] = 0
          /\ is_running' = [is_running EXCEPT ![Top(t).gen] = 1]
          /\ Replace(t, [Top(t) EXCEPT !.pc = "switch"], Nothing)
    /\ UNCHANGED <<resume_label, yieldfrom, previous_item, exc_info>>

(* What a terminated object answers: the error set by AlreadyTerminatedError,  *)
(* or the one that is already pending.                                        *)
AlreadyTerminatedError(f, input) ==
    IF f.gen \in Coroutine /\ f.op # "close" THEN Raised("cannot reuse")
    ELSE IF input.k = "return" THEN Raised("StopIteration")
    ELSE input

(* __Pyx_Coroutine_SendEx up to the call of the body.                         *)
SendEx(t, f, input) ==
    \/ /\ resume_label[f.gen] = "done"
       /\ Replace(t, PassOn(f, "body", NoGen), AlreadyTerminatedError(f, input))
       /\ UNCHANGED <<previous_item, exc_info>>
    \/ /\ resume_label[f.gen] # "done"
       /\ Push(t, PassOn(f, "body", NoGen), Frame("body", f.gen, input))
       /\ previous_item' = [previous_item EXCEPT ![f.gen] = exc_info[t]]
       /\ exc_info' = [exc_info EXCEPT ![t] = f.gen]

(* Mutant: Undelegate comes before the call of the delegate.                  *)
SwitchUndelegated(t) ==
    /\ At(t, "switch")
    /\ LET f == Top(t)
           yf == yieldfrom[f.gen]
           closing == f.op = "close" \/ f.arg = Raised("GeneratorExit")
       IN \/ yf = NoGen /\ SendEx(t, f, f.arg)
          \/ /\ yf # NoGen
             /\ Push(t, PassOn(f, IF closing THEN "closing" ELSE "delegate", yf),
                     Frame(IF closing THEN "close" ELSE f.op, yf, f.arg))
             /\ UNCHANGED <<previous_item, exc_info>>
    /\ yieldfrom' = [yieldfrom EXCEPT ![Top(t).gen] = NoGen]
    /\ UNCHANGED <<resume_label, is_running>>

(* Send, Throw and Close once the flag is set: into the delegate or the body.   *)
Switch(t) ==
    /\ At(t, "switch")
    /\ LET f == Top(t)
           yf == yieldfrom[f.gen]
           closing == f.op = "close" \/ f.arg = Raised("GeneratorExit")
       IN \/ yf = NoGen /\ SendEx(t, f, f.arg)
          \/ /\ yf # NoGen
             /\ IF closing
                THEN Push(t, PassOn(f, "closing", yf),
                          Frame("close", yf, Raised("GeneratorExit")))
                ELSE Push(t, PassOn(f, "delegate", yf),
                          Frame(f.op, yf, f.arg))
             /\ UNCHANGED <<previous_item, exc_info>>
    /\ UNCHANGED <<resume_label, is_running, yieldfrom>>

(* Mutant: a StopIteration is never turned into the value of "yield from".    *)
FinishedUnfetched(op, r) == r

(* What the body is resumed with when the delegate did not yield.  With am_send *)
(* (SendToDelegate) a StopIteration error is passed on as it is, FinishDelegation *)
(* turns it into a value.                                                    *)
Finished(op, r) ==
    IF r = Raised("StopIteration") /\ (op = "throw" \/ ~UseAmSend)
    THEN Returned("None") ELSE r

(* Mutant: the path of a delegate that yields forgets to reset the flag.       *)
ReturnFromDelegateRunning(t) ==
    /\ At(t, "delegate") /\ ret[t] # Nothing
    /\ IF ret[t] = Yielded
       THEN Pop(t, Yielded) /\ UNCHANGED <<yieldfrom, previous_item, exc_info>>
       ELSE /\ yieldfrom' = [yieldfrom EXCEPT ![Top(t).gen] = NoGen]
            /\ SendEx(t, Top(t), Finished(Top(t).op, ret[t]))
    /\ UNCHANGED <<is_running, resume_label>>

ReturnFromDelegate(t) ==
    /\ At(t, "delegate") /\ ret[t] # Nothing
    /\ IF ret[t] = Yielded
       THEN /\ is_running' = [is_running EXCEPT ![Top(t).gen] = 0]
            /\ Pop(t, Yielded)
            /\ UNCHANGED <<yieldfrom, previous_item, exc_info>>
       ELSE /\ yieldfrom' = [yieldfrom EXCEPT ![Top(t).gen] = NoGen]
            /\ SendEx(t, Top(t), Finished(Top(t).op, ret[t]))
            /\ UNCHANGED is_running
    /\ UNCHANGED resume_label

(* Close and Throw(GeneratorExit) after __Pyx_Coroutine_CloseIter.             *)
ReturnFromCloseIter(t) ==
    /\ At(t, "closing") /\ ret[t] # Nothing
    /\ yieldfrom' = [yieldfrom EXCEPT ![Top(t).gen] = NoGen]
    /\ SendEx(t, Top(t), IF ret[t].k = "error" THEN ret[t] ELSE Raised("GeneratorExit"))
    /\ UNCHANGED <<resume_label, is_running>>

(* What close() makes of the outcome of the body.                            *)
CloseOutcome(r) ==
    IF r \in {Raised("GeneratorExit"), Raised("StopIteration"), Returned("None")}
    THEN Returned("None")
    ELSE IF r.k = "error" THEN r ELSE Raised("ignored GeneratorExit")

(* The rest of Send, Throw and Close after SendEx.                            *)
ReturnFromBody(t) ==
    /\ At(t, "body") /\ ret[t] # Nothing
    /\ is_running' = [is_running EXCEPT ![Top(t).gen] = 0]
    /\ Pop(t, IF Top(t).op = "close" THEN CloseOutcome(ret[t]) ELSE ret[t])
    /\ UNCHANGED <<resume_label, yieldfrom, previous_item, exc_info>>

-----------------------------------------------------------------------------
(* The body: the generated switch over resume_label, user code, and the exit.   *)

(* Mutant: the caller's item is not put back.                                 *)
LeaveBodyItemKept(t, label, r) ==
    /\ resume_label' = [resume_label EXCEPT ![Top(t).gen] = label]
    /\ UNCHANGED exc_info
    /\ previous_item' = [previous_item EXCEPT ![Top(t).gen] = NoGen]
    /\ Pop(t, r)

(* The body returns to SendEx, which restores the exception stack.             *)
LeaveBody(t, label, r) ==
    /\ resume_label' = [resume_label EXCEPT ![Top(t).gen] = label]
    /\ exc_info' = [exc_info EXCEPT ![t] = previous_item[Top(t).gen]]
    /\ previous_item' = [previous_item EXCEPT ![Top(t).gen] = NoGen]
    /\ Pop(t, r)

(* Mutant: the exception leaves the body as it is.                            *)
ReplaceNothing(e) == e

(* __Pyx_Generator_Replace_StopIteration (PEP 479), compiled in with the future    *)
(* directive, which language level 3 turns on.                                *)
Replace_StopIteration(e) ==
    IF GeneratorStop /\ e = "StopIteration" THEN "raised StopIteration" ELSE e

(* The exit of the body: resume_label = -1 and __Pyx_Coroutine_clear.           *)
ExitBody(t, r) ==
    /\ LeaveBody(t, "done", IF r.k = "error" THEN Raised(Replace_StopIteration(r.x)) ELSE r)
    /\ yieldfrom' = [yieldfrom EXCEPT ![Top(t).gen] = NoGen]

(* Resuming: user code continues with the value or the exception, but a fresh   *)
(* body is left at once unless it was sent None.                              *)
ResumeBody(t) ==
    /\ At(t, "start") /\ Top(t).op = "body"
    /\ LET fresh == resume_label[Top(t).gen] = "fresh"
           input == Top(t).arg
       IN \/ /\ fresh => input = Returned("None")
             /\ Replace(t, [Top(t) EXCEPT !.pc = "code", !.arg = Nothing], Nothing)
             /\ UNCHANGED <<resume_label, yieldfrom, previous_item, exc_info>>
          \/ /\ fresh /\ input # Returned("None")
             /\ ExitBody(t, IF input.k = "error" THEN input ELSE Raised("non-None to fresh"))
    /\ UNCHANGED is_running

(* "yield": coroutines only suspend by awaiting something.                     *)
YieldValue(t) ==
    /\ InCode(t) /\ Top(t).gen \notin Coroutine
    /\ LeaveBody(t, "paused", Yielded)
    /\ UNCHANGED <<is_running, yieldfrom>>

EndBody(t) ==
    /\ InCode(t)
    /\ \E r \in {Returned(v) : v \in Value} \cup {Raised(e) : e \in Uncaught} : ExitBody(t, r)
    /\ UNCHANGED is_running

(* User code calls a method of some generator.                                *)
CallFromBody(t) ==
    /\ InCode(t)
    /\ \E c \in Calls : Push(t, [Top(t) EXCEPT !.pc = "call"], Frame(c.op, c.gen, c.arg))
    /\ UNCHANGED <<object, exc_info>>

(* __Pyx_Coroutine_Yield_From_Coroutine refuses a coroutine that is suspended   *)
(* in an await of its own.                                                   *)
MayAwait(g, s) == g \in Coroutine /\ s \in Coroutine => yieldfrom[s] = NoGen

(* "yield from" and "await": the first next() on the source.                   *)
Yield_From(t) ==
    /\ InCode(t)
    /\ \E s \in Gen :
          /\ MayAwait(Top(t).gen, s)
          /\ Push(t, [Top(t) EXCEPT !.pc = "yieldfrom", !.of = s],
                  Frame("send", s, Returned("None")))
    /\ UNCHANGED <<object, exc_info>>

(* User code goes on with what the call returned; a source that yielded          *)
(* becomes the delegate (__Pyx_Coroutine_Set_Owned_Yield_From) and the body yields. *)
ReturnToCode(t) ==
    /\ At(t, "call") \/ At(t, "yieldfrom")
    /\ ret[t] # Nothing
    /\ IF At(t, "yieldfrom") /\ ret[t] = Yielded
       THEN /\ yieldfrom' = [yieldfrom EXCEPT ![Top(t).gen] = Top(t).of]
            /\ LeaveBody(t, "paused", Yielded)
       ELSE /\ Replace(t, [Top(t) EXCEPT !.pc = "code", !.of = NoGen], Nothing)
            /\ UNCHANGED <<resume_label, yieldfrom, previous_item, exc_info>>
    /\ UNCHANGED is_running

BodyStep(t) ==
    \/ ResumeBody(t) \/ YieldValue(t) \/ EndBody(t)
    \/ CallFromBody(t) \/ Yield_From(t) \/ ReturnToCode(t)

MethodStep(t) ==
    \/ TestAndSet(t) \/ Switch(t) \/ ReturnFromDelegate(t)
    \/ ReturnFromCloseIter(t) \/ ReturnFromBody(t)

Next == \E t \in Thread :
           MayStep(t) /\ (CallFromOutside(t) \/ MethodStep(t) \/ BodyStep(t))

Spec == Init /\ [][Next]_vars
=============================================================================
