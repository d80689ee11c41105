--------------------------- MODULE CoroutineProofs ---------------------------
(***************************************************************************)
(* Proofs about asynchronous generators and about the generators and        *)
(* coroutines below them.                                                   *)
(***************************************************************************)
EXTENDS GeneratorProperties, AsyncGen, FiniteSetTheorems, TLAPS

(***************************************************************************)
(* Proofs about AsyncGen, for any number of awaitable objects, when the       *)
(* objects of athrow() are awaited once.                                     *)
(***************************************************************************)

(* What holds of each object: a new one has not begun, one that is waited for has,   *)
(* and one that was awaited to its end cannot resume the body, unless it belongs to   *)
(* an athrow().                                                                *)
ObjectOK(a) ==
    /\ kind[a] = "none" => task[a] = "new"
    /\ task[a] = "new" => state[a] = "INIT" \/ kind[a] = "none"
    /\ task[a] = "waiting" => state[a] = "ITER"
    /\ task[a] \in {"answered", "gone"} =>
          \/ state[a] = "CLOSED"
          \/ state[a] = "INIT" /\ answer[a] = "busy"
          \/ state[a] = "ITER" /\ (kind[a] \in {"athrow", "athrow without arguments"} \/ body = "done")
    /\ kind[a] = "aclose" /\ answer[a] = "finished" => body = "done"

(* The place of the body, the flag and the states of the objects, together.   *)
AGInvariant ==
    /\ TypeOK
    /\ OneAtATime
    /\ FlagReleased
    /\ \A a \in Awaitable : ObjectOK(a)

(* Objects of athrow() are not awaited again after they have answered.        *)
OnceOnly == Reused \subseteq {"anext", "asend", "aclose"}

(* Object a gets the kind k, the state s, the task t and the answer w.              *)
Touch(a, k, s, t, w) ==
    /\ kind' = [kind EXCEPT ![a] = k]
    /\ state' = [state EXCEPT ![a] = s]
    /\ task' = [task EXCEPT ![a] = t]
    /\ answer' = [answer EXCEPT ![a] = w]

(* What may happen to the generator when object a is touched.                      *)
Fits(a, k, s, t, w) ==
    /\ Waiting \ {a} # {} => body' = body /\ running' = running /\ t # "waiting"
    /\ body = "done" => body' = "done"
    /\ t = "waiting" => body' = "inAwait" /\ running' /\ s = "ITER"
    /\ running' => t = "waiting" \/ leaked' \/ Waiting \ {a} # {}
    /\ k = "none" => t = "new"
    /\ t = "new" => s = "INIT" \/ k = "none"
    /\ t \in {"answered", "gone"} =>
          \/ s = "CLOSED"
          \/ s = "INIT" /\ w = "busy"
          \/ s = "ITER" /\ (k \in {"athrow", "athrow without arguments"} \/ body' = "done")
    /\ k = "aclose" /\ w = "finished" => body' = "done"

(* A step that touches one object and fits keeps the invariant.                     *)
LEMMA TouchKeeps ==
    ASSUME AGInvariant, TypeOK', NEW a \in Awaitable, NEW k, NEW s, NEW t, NEW w,
           Touch(a, k, s, t, w), Fits(a, k, s, t, w)
    PROVE  AGInvariant'
<1>1. /\ kind'[a] = k /\ state'[a] = s /\ task'[a] = t /\ answer'[a] = w
      /\ \A b \in Awaitable \ {a} : /\ kind'[b] = kind[b] /\ state'[b] = state[b]
                                     /\ task'[b] = task[b] /\ answer'[b] = answer[b]
  BY DEF AGInvariant, TypeOK, Touch
<1>2. Waiting' = (Waiting \ {a}) \cup (IF t = "waiting" THEN {a} ELSE {})
  BY <1>1 DEF Waiting
<1>3. OneAtATime'
  <2>1. CASE Waiting \ {a} = {}
    BY <2>1, <1>2 DEF OneAtATime, Fits
  <2>2. CASE Waiting \ {a} # {}
    <3>1. Waiting' = Waiting \ {a} /\ Waiting # {}
      BY <2>2, <1>2 DEF Fits
    <3>2. body' = body /\ running' = running
      BY <2>2 DEF Fits
    <3> QED
      BY <3>1, <3>2 DEF OneAtATime, AGInvariant
  <2> QED
    BY <2>1, <2>2
<1>4. FlagReleased'
  BY <1>2 DEF FlagReleased, Fits
<1>5. ASSUME NEW b \in Awaitable PROVE ObjectOK(b)'
  <2>1. CASE b = a
    BY <1>1, <2>1 DEF ObjectOK, Fits
  <2>2. CASE b # a
    <3>1. kind'[b] = kind[b] /\ state'[b] = state[b] /\ task'[b] = task[b] /\ answer'[b] = answer[b]
      BY <1>1, <2>2
    <3>2. ObjectOK(b) /\ (body = "done" => body' = "done")
      BY DEF AGInvariant, Fits
    <3> QED
      BY <3>1, <3>2 DEF ObjectOK
  <2> QED
    BY <2>1, <2>2
<1> QED
  BY <1>3, <1>4, <1>5 DEF AGInvariant

-----------------------------------------------------------------------------
(* What the body can do, and what it cannot once it has ended.                      *)
BodyOutcome == {"await", "value", "stop", "exit", "error"}

LEMMA OutcomeFacts ==
    ASSUME NEW input \in {"None", "value", "exit", "error"}, NEW outcome \in Outcomes(input)
    PROVE  /\ outcome \in BodyOutcome
           /\ body = "done" => outcome \in {"stop", "exit", "error"}
<1>1. CASE body = "done"
  BY <1>1 DEF Outcomes, BodyOutcome
<1>2. CASE body = "start" /\ input # "None"
  BY <1>2 DEF Outcomes, BodyOutcome
<1>3. CASE ~(body = "done") /\ ~(body = "start" /\ input # "None")
  BY <1>3 DEF Outcomes, BodyOutcome
<1> QED
  BY <1>1, <1>2, <1>3

LEMMA BodyAfterFacts ==
    ASSUME NEW outcome \in BodyOutcome
    PROVE  /\ BodyAfter(outcome) \in {"inAwait", "atYield", "done"}
           /\ outcome = "await" => BodyAfter(outcome) = "inAwait"
           /\ outcome \in {"stop", "exit", "error"} => BodyAfter(outcome) = "done"
  BY DEF BodyAfter, BodyOutcome

LEMMA AcloseAnswerFacts ==
    ASSUME NEW outcome \in BodyOutcome
    PROVE  /\ AcloseAnswer(outcome) \in {"await", "finished", "ignored", "error"}
           /\ AcloseAnswer(outcome) = "await" <=> outcome = "await"
           /\ AcloseAnswer(outcome) = "finished" => outcome \in {"stop", "exit"}
           /\ AcloseAnswer(outcome) = "ignored" <=> outcome = "value"
<1>1. CASE outcome \in {"stop", "exit"}
  BY <1>1 DEF AcloseAnswer
<1>2. CASE outcome = "value"
  BY <1>2 DEF AcloseAnswer
<1>3. CASE outcome \in {"await", "error"}
  BY <1>3 DEF AcloseAnswer
<1> QED
  BY <1>1, <1>2, <1>3 DEF BodyOutcome

(* A task that is about to resume the body is alone.                               *)
MayBeAwaited(a) ==
    \/ task[a] \in {"new", "waiting"}
    \/ task[a] \in {"answered", "gone"} /\ kind[a] \in Reused

(* An object that may be awaited, and takes the flag, finds that no other     *)
(* waits.                                                                     *)
LEMMA Alone ==
    ASSUME AGInvariant, OnceOnly, NEW a \in Awaitable, kind[a] # "none", MayBeAwaited(a),
           state[a] # "CLOSED", ~Busy(a)
    PROVE  Waiting \ {a} = {}
<1>1. ObjectOK(a) /\ OneAtATime /\ TypeOK
  BY DEF AGInvariant
<1>2. CASE task[a] = "waiting"
  BY <1>1, <1>2 DEF OneAtATime, Waiting
<1>3. CASE state[a] = "INIT"
  BY <1>1, <1>3 DEF OneAtATime, Busy
<1>4. CASE task[a] \in {"answered", "gone"} /\ state[a] = "ITER"
  <2>1. body = "done"
    BY <1>1, <1>4 DEF ObjectOK, MayBeAwaited, OnceOnly
  <2> QED
    BY <2>1, <1>1 DEF OneAtATime
<1>5. task[a] = "new" => state[a] = "INIT"
  BY <1>1 DEF ObjectOK
<1>6. state[a] \in {"INIT", "ITER"} /\ task[a] \in {"new", "waiting", "answered", "gone"}
  BY <1>1 DEF TypeOK
<1> QED
  BY <1>2, <1>3, <1>4, <1>5, <1>6

(* While an object waits, no other does.                                      *)
LEMMA WaitingAlone ==
    ASSUME AGInvariant, NEW a \in Awaitable, task[a] = "waiting"
    PROVE  Waiting \ {a} = {} /\ state[a] = "ITER" /\ body = "inAwait" /\ running
  BY DEF AGInvariant, OneAtATime, Waiting, ObjectOK

-----------------------------------------------------------------------------
(* The steps, one by one.  Each touches one object and fits.                        *)
Answers == {"nothing", "await", "value", "stop", "exit", "error",
            "busy", "reused", "finished", "ignored"}

(* Touching an object with values of the right sort keeps the types.               *)
LEMMA TouchTypes ==
    ASSUME TypeOK, NEW a \in Awaitable, NEW k \in Kind \cup {"none"},
           NEW s \in {"INIT", "ITER", "CLOSED"},
           NEW t \in {"new", "waiting", "answered", "gone"}, NEW w \in Answers,
           Touch(a, k, s, t, w),
           body' \in {"start", "inAwait", "atYield", "done"},
           running' \in BOOLEAN, closed' \in BOOLEAN, hooked' \in BOOLEAN, leaked' \in BOOLEAN
    PROVE  TypeOK'
  BY DEF TypeOK, Touch, Answers

(* A call that is refused leaves the generator alone.                               *)
LEMMA RefuseKeeps ==
    ASSUME AGInvariant, NEW a \in Awaitable, NEW w \in {"busy", "reused", "finished", "stop"},
           NEW s \in {"INIT", "CLOSED"}, kind[a] # "none",
           UNCHANGED <<kind, hooked, leaked>>, Refuse(a, w), Becomes(a, s),
           task[a] # "waiting" \/ body = "done",
           s = "INIT" => w = "busy", w = "finished" => body = "done"
    PROVE  AGInvariant'
<1>1. TypeOK /\ OneAtATime /\ FlagReleased
  BY DEF AGInvariant
<1>2. task[a] # "waiting"
  BY <1>1 DEF OneAtATime, Waiting
<1>3. w # "await" /\ w \in Answers /\ kind[a] \in Kind
  BY <1>1 DEF Answers, TypeOK
<1>4. Touch(a, kind[a], s, "answered", w)
  BY <1>1, <1>3 DEF Touch, Refuse, Tell, Becomes, TypeOK
<1>5. UNCHANGED <<body, running, closed>>
  BY DEF Refuse
<1>6. Waiting \ {a} = Waiting
  BY <1>2 DEF Waiting
<1>7. Fits(a, kind[a], s, "answered", w)
  BY <1>1, <1>5, <1>6 DEF Fits, FlagReleased
<1>8. TypeOK'
  BY <1>1, <1>3, <1>4, <1>5, TouchTypes DEF TypeOK
<1> QED
  BY <1>4, <1>7, <1>8, TouchKeeps

(* A call that resumes the body, and tells the task w.                              *)
LEMMA ResumeKeeps ==
    ASSUME AGInvariant, NEW a \in Awaitable, kind[a] # "none", Waiting \ {a} = {},
           NEW outcome \in BodyOutcome, NEW w \in Answers, NEW s \in {"INIT", "ITER", "CLOSED"},
           body = "done" => outcome \in {"stop", "exit", "error"},
           body' = BodyAfter(outcome), Becomes(a, s), Tell(a, w),
           UNCHANGED <<kind, hooked>>,
           running' \in BOOLEAN, closed' \in BOOLEAN, leaked' \in BOOLEAN,
           w = "await" <=> outcome = "await",
           outcome = "await" => running' /\ s = "ITER",
           running' => outcome = "await" \/ leaked',
           \/ outcome = "await" \/ s = "CLOSED"
           \/ s = "ITER" /\ (kind[a] \in {"athrow", "athrow without arguments"} \/ body' = "done"),
           kind[a] = "aclose" /\ w = "finished" => body' = "done"
    PROVE  AGInvariant'
<1> DEFINE t == IF w = "await" THEN "waiting" ELSE "answered"
<1>1. TypeOK /\ kind[a] \in Kind \cup {"none"}
  BY DEF AGInvariant, TypeOK
<1>2. Touch(a, kind[a], s, t, w)
  BY <1>1 DEF Touch, Tell, Becomes, TypeOK
<1>3. /\ body' \in {"inAwait", "atYield", "done"}
      /\ outcome = "await" => body' = "inAwait"
      /\ body = "done" => body' = "done"
  BY BodyAfterFacts
<1>4. Fits(a, kind[a], s, t, w)
  BY <1>3 DEF Fits
<1>5. t \in {"new", "waiting", "answered", "gone"} /\ hooked' \in BOOLEAN
  BY <1>1 DEF TypeOK
<1>6. TypeOK'
  BY <1>1, <1>2, <1>3, <1>5, TouchTypes
<1> QED
  BY <1>2, <1>4, <1>6, TouchKeeps

(* Unwrapping keeps the flag for an await only.                                     *)
LEMMA UnwrapFacts ==
    ASSUME TypeOK, NEW outcome \in BodyOutcome, Unwrap(outcome)
    PROVE  running' = (outcome = "await") /\ running' \in BOOLEAN /\ closed' \in BOOLEAN
  BY DEF Unwrap, Kept, TypeOK, BodyOutcome

LEMMA ASendSendKeeps ==
    ASSUME AGInvariant, OnceOnly, NEW a \in Awaitable, MayBeAwaited(a), ASendSend(a), UNCHANGED <<kind, hooked>>
    PROVE  AGInvariant'
<1>1. TypeOK /\ ObjectOK(a) /\ kind[a] # "none" /\ kind[a] # "aclose" /\ UNCHANGED leaked
  BY DEF AGInvariant, ASendSend
<1>2. CASE state[a] = "CLOSED" /\ Refuse(a, "reused") /\ UNCHANGED state
  <2>1. Becomes(a, "CLOSED") /\ task[a] # "waiting"
    BY <1>1, <1>2 DEF Becomes, ObjectOK, TypeOK
  <2> QED
    BY <1>1, <1>2, <2>1, RefuseKeeps
<1>3. CASE Busy(a) /\ Refuse(a, "busy") /\ UNCHANGED state
  <2>1. Becomes(a, "INIT") /\ task[a] # "waiting"
    BY <1>1, <1>3 DEF Becomes, ObjectOK, TypeOK, Busy
  <2> QED
    BY <1>1, <1>3, <2>1, RefuseKeeps
<1>4. ASSUME state[a] # "CLOSED", ~Busy(a),
             NEW outcome \in Outcomes(IF state[a] = "INIT" /\ kind[a] = "asend" THEN "value" ELSE "None"),
             body' = BodyAfter(outcome), Unwrap(outcome),
             Becomes(a, ASendAfter(outcome)), Tell(a, outcome)
      PROVE  AGInvariant'
  <2>1. Waiting \ {a} = {}
    BY <1>1, <1>4, Alone
  <2>2. outcome \in BodyOutcome /\ (body = "done" => outcome \in {"stop", "exit", "error"})
    BY <1>4, OutcomeFacts
  <2>3. running' = (outcome = "await") /\ running' \in BOOLEAN /\ closed' \in BOOLEAN /\ leaked' \in BOOLEAN
    BY <1>1, <1>4, <2>2, UnwrapFacts DEF TypeOK
  <2>4. ASendAfter(outcome) = IF outcome = "await" THEN "ITER" ELSE "CLOSED"
    BY DEF ASendAfter
  <2>5. outcome \in Answers
    BY <2>2 DEF BodyOutcome, Answers
  <2>6. CASE outcome = "await"
    <3>1. Becomes(a, "ITER")
      BY <1>4, <2>4, <2>6
    <3> QED
      BY <1>1, <1>4, <2>1, <2>2, <2>3, <2>5, <2>6, <3>1, ResumeKeeps
  <2>7. CASE outcome # "await"
    <3>1. Becomes(a, "CLOSED")
      BY <1>4, <2>4, <2>7
    <3> QED
      BY <1>1, <1>4, <2>1, <2>2, <2>3, <2>5, <2>7, <3>1, ResumeKeeps
  <2> QED
    BY <2>6, <2>7
<1> QED
  BY <1>2, <1>3, <1>4 DEF ASendSend

LEMMA ASendThrowKeeps ==
    ASSUME AGInvariant, NEW a \in Awaitable, NEW exc \in {"exit", "error"}, task[a] = "waiting",
           ASendThrow(a, exc), UNCHANGED <<kind, hooked>>
    PROVE  AGInvariant'
<1>1. TypeOK /\ kind[a] # "none" /\ kind[a] # "aclose" /\ UNCHANGED leaked
  BY DEF AGInvariant, ASendThrow
<1>2. Waiting \ {a} = {} /\ state[a] = "ITER"
  BY WaitingAlone
<1>3. PICK outcome \in Outcomes(exc) :
         /\ body' = BodyAfter(outcome) /\ Unwrap(outcome)
         /\ state' = [state EXCEPT ![a] = IF outcome = "await" THEN @ ELSE "CLOSED"]
         /\ Tell(a, outcome)
  BY <1>2 DEF ASendThrow
<1>4. outcome \in BodyOutcome /\ (body = "done" => outcome \in {"stop", "exit", "error"})
  BY <1>3, OutcomeFacts
<1>5. running' = (outcome = "await") /\ running' \in BOOLEAN /\ closed' \in BOOLEAN /\ leaked' \in BOOLEAN
  BY <1>1, <1>3, <1>4, UnwrapFacts DEF TypeOK
<1>6. outcome \in Answers
  BY <1>4 DEF BodyOutcome, Answers
<1>7. CASE outcome = "await"
  <2>1. Becomes(a, "ITER")
    BY <1>1, <1>2, <1>3, <1>7 DEF Becomes, TypeOK
  <2> QED
    BY <1>1, <1>2, <1>3, <1>4, <1>5, <1>6, <1>7, <2>1, ResumeKeeps
<1>8. CASE outcome # "await"
  <2>1. Becomes(a, "CLOSED")
    BY <1>1, <1>2, <1>3, <1>8 DEF Becomes, TypeOK
  <2> QED
    BY <1>1, <1>2, <1>3, <1>4, <1>5, <1>6, <1>8, <2>1, ResumeKeeps
<1> QED
  BY <1>7, <1>8

LEMMA AcloseKeeps ==
    ASSUME AGInvariant, NEW a \in Awaitable, kind[a] = "aclose", Waiting \ {a} = {},
           NEW outcome \in BodyOutcome, body = "done" => outcome \in {"stop", "exit", "error"},
           AcloseResumed(a, outcome), UNCHANGED <<kind, hooked, leaked>>
    PROVE  AGInvariant'
<1> DEFINE w == AcloseAnswer(outcome)
<1>1. /\ w \in Answers /\ (w = "await" <=> outcome = "await")
      /\ w = "finished" => outcome \in {"stop", "exit"}
  BY AcloseAnswerFacts DEF Answers
<1>2. outcome \in {"stop", "exit"} => BodyAfter(outcome) = "done"
  BY BodyAfterFacts
<1>3. /\ body' = BodyAfter(outcome) /\ closed' \in BOOLEAN /\ running' = (outcome = "await")
      /\ running' \in BOOLEAN /\ leaked' \in BOOLEAN /\ Tell(a, w)
  BY DEF AcloseResumed, AGInvariant, TypeOK
<1>4. CASE outcome = "await"
  <2>1. Becomes(a, "ITER")
    BY <1>4 DEF AcloseResumed
  <2> QED
    BY <1>1, <1>2, <1>3, <1>4, <2>1, ResumeKeeps
<1>5. CASE outcome # "await"
  <2>1. Becomes(a, "CLOSED")
    BY <1>5 DEF AcloseResumed
  <2> QED
    BY <1>1, <1>2, <1>3, <1>5, <2>1, ResumeKeeps
<1> QED
  BY <1>4, <1>5

LEMMA AThrowBeginKeeps ==
    ASSUME AGInvariant, OnceOnly, NEW a \in Awaitable, MayBeAwaited(a), state[a] = "INIT",
           kind[a] \in {"athrow", "athrow without arguments", "aclose"},
           AThrowBegin(a), UNCHANGED <<kind, hooked>>
    PROVE  AGInvariant'
<1>1. TypeOK /\ ObjectOK(a) /\ task[a] # "waiting" /\ kind[a] # "none"
  BY DEF AGInvariant, ObjectOK
<1>2. CASE body = "done" /\ Refuse(a, "finished") /\ Becomes(a, "CLOSED") /\ UNCHANGED leaked
  BY <1>1, <1>2, RefuseKeeps
<1>3. CASE Busy(a) /\ Refuse(a, "busy") /\ Becomes(a, "CLOSED") /\ UNCHANGED leaked
  BY <1>1, <1>3, RefuseKeeps
<1>4. CASE Refuse(a, "stop") /\ Becomes(a, "CLOSED") /\ UNCHANGED leaked
  BY <1>1, <1>4, RefuseKeeps
<1>5. ASSUME body # "done", ~Busy(a), kind[a] = "aclose", UNCHANGED leaked,
             NEW outcome \in Outcomes("exit"), AcloseResumed(a, outcome)
      PROVE  AGInvariant'
  <2>1. outcome \in BodyOutcome
    BY <1>5, OutcomeFacts
  <2>2. Waiting \ {a} = {}
    BY <1>1, <1>5, Alone
  <2> QED
    BY <1>5, <2>1, <2>2, AcloseKeeps
<1>6. ASSUME body # "done", ~Busy(a), kind[a] = "athrow", UNCHANGED leaked,
             NEW outcome \in Outcomes("error"),
             body' = BodyAfter(outcome), Unwrap(outcome), Tell(a, outcome),
             Becomes(a, IF outcome = "await" THEN "ITER" ELSE "CLOSED")
      PROVE  AGInvariant'
  <2>1. outcome \in BodyOutcome
    BY <1>6, OutcomeFacts
  <2>2. Waiting \ {a} = {}
    BY <1>1, <1>6, Alone
  <2>3. running' = (outcome = "await") /\ running' \in BOOLEAN /\ closed' \in BOOLEAN /\ leaked' \in BOOLEAN
    BY <1>1, <1>6, <2>1, UnwrapFacts DEF TypeOK
  <2>4. outcome \in Answers
    BY <2>1 DEF BodyOutcome, Answers
  <2>5. CASE outcome = "await"
    <3>1. Becomes(a, "ITER")
      BY <1>6, <2>5
    <3> QED
      BY <1>1, <1>6, <2>1, <2>2, <2>3, <2>4, <2>5, <3>1, ResumeKeeps
  <2>6. CASE outcome # "await"
    <3>1. Becomes(a, "CLOSED")
      BY <1>6, <2>6
    <3> QED
      BY <1>1, <1>6, <2>1, <2>2, <2>3, <2>4, <2>6, <3>1, ResumeKeeps
  <2> QED
    BY <2>5, <2>6
<1>7. ASSUME ~Busy(a), kind[a] = "athrow without arguments",
             running' = TRUE, leaked' = TRUE, UNCHANGED <<body, closed>>,
             Becomes(a, "ITER"), Tell(a, "error")
      PROVE  AGInvariant'
  <2>1. Waiting \ {a} = {}
    BY <1>1, <1>7, Alone
  <2>2. Touch(a, kind[a], "ITER", "answered", "error")
    BY <1>1, <1>7 DEF Touch, Tell, Becomes, TypeOK
  <2>3. Fits(a, kind[a], "ITER", "answered", "error")
    BY <1>7, <2>1 DEF Fits
  <2>4. TypeOK'
    BY <1>1, <1>7, <2>2, TouchTypes DEF TypeOK, Answers
  <2> QED
    BY <2>2, <2>3, <2>4, TouchKeeps
<1> QED
  BY <1>2, <1>3, <1>4, <1>5, <1>6, <1>7 DEF AThrowBegin

LEMMA AThrowGoOnKeeps ==
    ASSUME AGInvariant, OnceOnly, NEW a \in Awaitable, MayBeAwaited(a), state[a] = "ITER",
           kind[a] \in {"athrow", "athrow without arguments", "aclose"},
           AThrowGoOn(a), UNCHANGED <<kind, hooked>>
    PROVE  AGInvariant'
<1>1. TypeOK /\ ObjectOK(a) /\ kind[a] # "none" /\ UNCHANGED leaked
  BY DEF AGInvariant, AThrowGoOn
<1>2. CASE body = "done" /\ Refuse(a, "finished") /\ Becomes(a, "CLOSED")
  BY <1>1, <1>2, RefuseKeeps
<1>3. ASSUME body # "done", NEW outcome \in Outcomes("None"),
             \/ kind[a] = "aclose" /\ AcloseResumed(a, outcome)
             \/ /\ kind[a] # "aclose"
                /\ body' = BodyAfter(outcome) /\ Unwrap(outcome)
                /\ Tell(a, outcome) /\ UNCHANGED state
      PROVE  AGInvariant'
  <2>1. outcome \in BodyOutcome
    BY <1>3, OutcomeFacts
  <2>2. Waiting \ {a} = {}
    BY <1>1, Alone DEF Busy
  <2>3. CASE kind[a] = "aclose"
    BY <1>1, <1>3, <2>1, <2>2, <2>3, AcloseKeeps
  <2>4. CASE kind[a] # "aclose"
    <3>1. body' = BodyAfter(outcome) /\ Unwrap(outcome) /\ Tell(a, outcome) /\ Becomes(a, "ITER")
      BY <1>1, <1>3, <2>4 DEF Becomes, TypeOK
    <3>2. running' = (outcome = "await") /\ running' \in BOOLEAN /\ closed' \in BOOLEAN /\ leaked' \in BOOLEAN
      BY <1>1, <2>1, <3>1, UnwrapFacts DEF TypeOK
    <3>3. outcome \in Answers
      BY <2>1 DEF BodyOutcome, Answers
    <3> QED
      BY <1>1, <1>3, <2>1, <2>2, <2>4, <3>1, <3>2, <3>3, ResumeKeeps
  <2> QED
    BY <2>3, <2>4
<1> QED
  BY <1>2, <1>3 DEF AThrowGoOn

LEMMA AThrowThrowKeeps ==
    ASSUME AGInvariant, NEW a \in Awaitable, NEW exc \in {"exit", "error"}, task[a] = "waiting",
           AThrowThrow(a, exc), UNCHANGED <<kind, hooked>>
    PROVE  AGInvariant'
<1>1. TypeOK /\ kind[a] \in {"athrow", "athrow without arguments", "aclose"}
  BY DEF AGInvariant, AThrowThrow
<1>2. Waiting \ {a} = {} /\ state[a] = "ITER" /\ body = "inAwait" /\ running
  BY WaitingAlone
<1>3. PICK outcome \in Outcomes(exc) :
         /\ body' = BodyAfter(outcome)
         /\ \/ /\ kind[a] # "aclose" /\ Unwrap(outcome) /\ Tell(a, outcome)
               /\ UNCHANGED <<state, leaked>>
            \/ /\ kind[a] = "aclose" /\ Tell(a, AcloseAnswer(outcome))
               /\ leaked' = (leaked \/ outcome \in {"stop", "exit", "error"})
               /\ running' = (running /\ outcome # "value")
               /\ state' = [state EXCEPT ![a] = IF outcome = "value" THEN "CLOSED" ELSE @]
               /\ UNCHANGED closed
  BY <1>2 DEF AThrowThrow
<1>4. outcome \in BodyOutcome
  BY <1>3, OutcomeFacts
<1>5. CASE kind[a] # "aclose"
  <2>1. Unwrap(outcome) /\ Tell(a, outcome) /\ Becomes(a, "ITER") /\ UNCHANGED leaked
    BY <1>1, <1>2, <1>3, <1>5 DEF Becomes, TypeOK
  <2>2. running' = (outcome = "await") /\ running' \in BOOLEAN /\ closed' \in BOOLEAN /\ leaked' \in BOOLEAN
    BY <1>1, <1>4, <2>1, UnwrapFacts DEF TypeOK
  <2>3. outcome \in Answers
    BY <1>4 DEF BodyOutcome, Answers
  <2> QED
    BY <1>1, <1>2, <1>3, <1>4, <1>5, <2>1, <2>2, <2>3, ResumeKeeps
<1>6. CASE kind[a] = "aclose"
  <2> DEFINE w == AcloseAnswer(outcome)
  <2>1. /\ w \in Answers /\ (w = "await" <=> outcome = "await")
        /\ w = "finished" => outcome \in {"stop", "exit"}
    BY <1>4, AcloseAnswerFacts DEF Answers
  <2>2. /\ Tell(a, w) /\ leaked' = (leaked \/ outcome \in {"stop", "exit", "error"})
        /\ running' = (outcome # "value") /\ UNCHANGED closed
    BY <1>2, <1>3, <1>6
  <2>3. leaked' \in BOOLEAN /\ running' \in BOOLEAN /\ closed' \in BOOLEAN
    BY <1>1, <2>2 DEF TypeOK
  <2>4. outcome \in {"stop", "exit", "error"} => body' = "done" /\ leaked'
    BY <1>3, <1>4, <2>2, BodyAfterFacts
  <2>5. CASE outcome = "value"
    <3>1. Becomes(a, "CLOSED")
      BY <1>1, <1>3, <1>6, <2>5 DEF Becomes, TypeOK
    <3> QED
      BY <1>2, <1>3, <1>4, <1>6, <2>1, <2>2, <2>3, <2>5, <3>1, ResumeKeeps
  <2>6. CASE outcome # "value"
    <3>1. Becomes(a, "ITER")
      BY <1>1, <1>2, <1>3, <1>6, <2>6 DEF Becomes, TypeOK
    <3>2. outcome = "await" \/ outcome \in {"stop", "exit", "error"}
      BY <1>4, <2>6 DEF BodyOutcome
    <3> QED
      BY <1>2, <1>3, <1>4, <1>6, <2>1, <2>2, <2>3, <2>4, <2>6, <3>1, <3>2, ResumeKeeps
  <2> QED
    BY <2>5, <2>6
<1> QED
  BY <1>5, <1>6

LEMMA AwaitKeeps ==
    ASSUME AGInvariant, OnceOnly, NEW a \in Awaitable, Await(a)
    PROVE  AGInvariant'
<1>1. MayBeAwaited(a) /\ UNCHANGED <<kind, hooked>>
  BY DEF Await, MayBeAwaited
<1>2. CASE ASendSend(a)
  BY <1>1, <1>2, ASendSendKeeps
<1>3. CASE AThrowSend(a)
  <2>1. kind[a] \in {"athrow", "athrow without arguments", "aclose"} /\ TypeOK /\ ObjectOK(a)
    BY <1>3 DEF AThrowSend, AGInvariant
  <2>2. CASE state[a] = "CLOSED" /\ Refuse(a, "reused") /\ UNCHANGED <<state, leaked>>
    <3>1. Becomes(a, "CLOSED") /\ task[a] # "waiting"
      BY <2>1, <2>2 DEF Becomes, TypeOK, ObjectOK
    <3> QED
      BY <1>1, <2>1, <2>2, <3>1, RefuseKeeps
  <2>3. CASE state[a] = "INIT" /\ AThrowBegin(a)
    BY <1>1, <2>1, <2>3, AThrowBeginKeeps
  <2>4. CASE state[a] = "ITER" /\ AThrowGoOn(a)
    BY <1>1, <2>1, <2>4, AThrowGoOnKeeps
  <2> QED
    BY <1>3, <2>2, <2>3, <2>4 DEF AThrowSend
<1> QED
  BY <1>2, <1>3 DEF Await

LEMMA CloseKeeps ==
    ASSUME AGInvariant, NEW a \in Awaitable, task[a] = "waiting", Close(a)
    PROVE  AGInvariant'
<1>1. TypeOK /\ kind[a] \in Kind \cup {"none"} /\ answer[a] \in Answers /\ ObjectOK(a)
  BY DEF AGInvariant, TypeOK, Answers
<1>2. Waiting \ {a} = {}
  BY WaitingAlone
<1>3. Touch(a, kind[a], "CLOSED", "gone", answer[a])
  BY <1>1 DEF Close, Becomes, Touch, TypeOK
<1>4. leaked' = TRUE /\ UNCHANGED <<body, running, closed, hooked>>
  BY DEF Close, generator
<1>5. Fits(a, kind[a], "CLOSED", "gone", answer[a])
  BY <1>1, <1>2, <1>4 DEF Fits, ObjectOK
<1>6. TypeOK'
  BY <1>1, <1>3, <1>4, TouchTypes DEF TypeOK
<1> QED
  BY <1>3, <1>5, <1>6, TouchKeeps

(* Making and freeing an object touches it while nobody waits for it.                *)
LEMMA NewKeeps ==
    ASSUME AGInvariant, NEW a \in Awaitable, NEW k \in Kind \cup {"none"}, NEW s \in {"INIT", "CLOSED"},
           Touch(a, k, s, "new", "nothing"), task[a] # "waiting", s = "INIT" \/ k = "none",
           UNCHANGED <<body, running, closed, leaked>>, hooked' \in BOOLEAN
    PROVE  AGInvariant'
<1>1. TypeOK /\ FlagReleased
  BY DEF AGInvariant
<1>2. Waiting \ {a} = Waiting
  BY DEF Waiting
<1>3. Fits(a, k, s, "new", "nothing")
  BY <1>1, <1>2 DEF Fits, FlagReleased
<1>4. TypeOK'
  BY <1>1, TouchTypes DEF TypeOK, Answers
<1> QED
  BY <1>3, <1>4, TouchKeeps

LEMMA UnchangedKeeps ==
    ASSUME AGInvariant, UNCHANGED <<body, running, closed, kind, state, task, answer, leaked>>, hooked' \in BOOLEAN
    PROVE  AGInvariant'
<1>1. TypeOK'
  BY DEF AGInvariant, TypeOK
<1>2. Waiting' = Waiting
  BY DEF Waiting
<1>3. OneAtATime' /\ FlagReleased'
  BY <1>2 DEF AGInvariant, OneAtATime, FlagReleased
<1>4. ASSUME NEW a \in Awaitable PROVE ObjectOK(a)'
  BY DEF AGInvariant, ObjectOK
<1> QED
  BY <1>1, <1>3, <1>4 DEF AGInvariant

(* Every step of an object keeps the invariant.                               *)
LEMMA StepKeeps ==
    ASSUME AGInvariant, OnceOnly, [AGNext]_agVars
    PROVE  AGInvariant'
<1>0. TypeOK
  BY DEF AGInvariant
<1>1. CASE UNCHANGED agVars
  <2>1. UNCHANGED <<body, running, closed, kind, state, task, answer, leaked>> /\ hooked' = hooked
    BY <1>1 DEF agVars, generator
  <2> QED
    BY <1>0, <2>1, UnchangedKeeps DEF TypeOK
<1>2. CASE HookFails
  BY <1>2, UnchangedKeeps DEF HookFails
<1>3. ASSUME NEW a \in Awaitable, NEW k \in Kind, New(a, k)
      PROVE  AGInvariant'
  <2>1. Touch(a, k, "INIT", "new", "nothing") /\ UNCHANGED <<body, running, closed, leaked>> /\ hooked' \in BOOLEAN
    BY <1>3 DEF New, Touch
  <2>2. task[a] # "waiting"
    BY <1>3 DEF New, AGInvariant, ObjectOK
  <2> QED
    BY <2>1, <2>2, NewKeeps
<1>4. ASSUME NEW a \in Awaitable, Await(a)
      PROVE  AGInvariant'
  BY <1>4, AwaitKeeps
<1>5. ASSUME NEW a \in Awaitable, NEW exc \in {"exit", "error"}, Cancel(a, exc)
      PROVE  AGInvariant'
  BY <1>5, ASendThrowKeeps, AThrowThrowKeeps DEF Cancel
<1>6. ASSUME NEW a \in Awaitable, task[a] = "waiting", Close(a)
      PROVE  AGInvariant'
  BY <1>6, CloseKeeps
<1>7. ASSUME NEW a \in Awaitable, Free(a)
      PROVE  AGInvariant'
  <2>1. /\ Touch(a, "none", "CLOSED", "new", "nothing") /\ task[a] # "waiting"
        /\ UNCHANGED <<body, running, closed, leaked>> /\ hooked' \in BOOLEAN
    BY <1>0, <1>7 DEF Free, Touch, generator, TypeOK
  <2> QED
    BY <2>1, NewKeeps
<1> QED
  BY <1>1, <1>2, <1>3, <1>4, <1>5, <1>6, <1>7 DEF AGNext

LEMMA InitHolds == AGInit => AGInvariant
<1> SUFFICES ASSUME AGInit PROVE AGInvariant
  OBVIOUS
<1>1. TypeOK
  BY ZenonT(40) DEF AGInit, TypeOK, Kind
<1>2. \A a \in Awaitable : kind[a] = "none" /\ task[a] = "new" /\ answer[a] = "nothing"
  BY DEF AGInit
<1>3. Waiting = {} /\ running = FALSE
  BY <1>2 DEF AGInit, Waiting
<1>4. OneAtATime /\ FlagReleased
  BY <1>3 DEF OneAtATime, FlagReleased
<1>5. \A a \in Awaitable : ObjectOK(a)
  BY <1>2 DEF ObjectOK
<1> QED
  BY <1>1, <1>4, <1>5 DEF AGInvariant

(* The invariant is inductive.                                                     *)
THEOREM AsyncGenInvariant == ASSUME OnceOnly PROVE AGSpec => []AGInvariant
<1>1. AGInvariant /\ [AGNext]_agVars => AGInvariant'
  BY StepKeeps
<1> QED
  BY <1>1, InitHolds, PTL DEF AGSpec

(* For any number of objects and tasks, at most one task waits for the generator,    *)
(* and the body is where it left it (the test of ag_running_async).                 *)
THEOREM WaitOneAtATime == ASSUME OnceOnly PROVE AGSpec => []OneAtATime
  BY AsyncGenInvariant, PTL DEF AGInvariant

(* A generator is never left marked as running, except by the three calls that leave  *)
(* ag_running_async set.                                                        *)
THEOREM FlagIsReleased == ASSUME OnceOnly PROVE AGSpec => []FlagReleased
  BY AsyncGenInvariant, PTL DEF AGInvariant

(* An aclose() that ends without an exception has ended the body.                   *)
THEOREM AcloseEndsBody == ASSUME OnceOnly PROVE AGSpec => []AcloseMeansDone
<1>1. AGInvariant => AcloseMeansDone
  BY DEF AGInvariant, ObjectOK, AcloseMeansDone
<1> QED
  BY <1>1, AsyncGenInvariant, PTL

-----------------------------------------------------------------------------
(* What one step says about one object.                                            *)
Silent(a) ==
    task[a] \in {"answered", "gone"} /\ answer[a] # "busy" /\ kind'[a] = kind[a] =>
       /\ task'[a] # "waiting"
       /\ answer'[a] # answer[a] => answer'[a] # "value"

LEMMA ToldSilent ==
    ASSUME TypeOK, NEW a \in Awaitable, NEW b \in Awaitable, NEW w, Tell(b, w),
           b = a => w \notin {"await", "value"}
    PROVE  Silent(a)
<1>1. CASE b = a
  BY <1>1 DEF Tell, TypeOK, Silent
<1>2. CASE b # a
  BY <1>2 DEF Tell, TypeOK, Silent
<1> QED
  BY <1>1, <1>2

(* Once the body has ended no call leads to an await or a value.                    *)
LEMMA AwaitTells ==
    ASSUME AGInvariant, OnceOnly, NEW b \in Awaitable, Await(b)
    PROVE  \E w \in Answers : /\ Tell(b, w)
                              /\ task[b] \in {"answered", "gone"} /\ answer[b] # "busy"
                                    => w \notin {"await", "value"}
<1> DEFINE Over == task[b] \in {"answered", "gone"} /\ answer[b] # "busy"
           Good(w) == Tell(b, w) /\ (Over => w \notin {"await", "value"})
<1>1. TypeOK /\ ObjectOK(b) /\ MayBeAwaited(b)
  BY DEF AGInvariant, Await, MayBeAwaited
<1>2. Over => state[b] = "CLOSED" \/ (state[b] = "ITER" /\ body = "done")
  BY <1>1 DEF ObjectOK, MayBeAwaited, OnceOnly
<1>3. ASSUME NEW w \in {"busy", "reused", "finished", "stop", "error"}, Tell(b, w)
      PROVE  \E v \in Answers : Good(v)
  <2>1. w \in Answers /\ Good(w)
    BY <1>3 DEF Answers
  <2> QED
    BY <2>1
<1>4. ASSUME state[b] # "CLOSED", NEW input \in {"None", "value", "exit", "error"},
             NEW outcome \in Outcomes(input), NEW w, Tell(b, w),
             w = outcome \/ w = AcloseAnswer(outcome)
      PROVE  \E v \in Answers : Good(v)
  <2>1. outcome \in BodyOutcome /\ (Over => outcome \in {"stop", "exit", "error"})
    BY <1>2, <1>4, OutcomeFacts
  <2>2. w \in Answers /\ (Over => w \notin {"await", "value"})
    BY <1>4, <2>1, AcloseAnswerFacts DEF BodyOutcome, Answers
  <2>3. Good(w)
    BY <1>4, <2>2
  <2> QED
    BY <2>2, <2>3
<1>5. CASE ASendSend(b)
  <2>1. (\E w \in {"busy", "reused"} : Refuse(b, w))
        \/ \E input \in {"None", "value"} : \E outcome \in Outcomes(input) :
              state[b] # "CLOSED" /\ Tell(b, outcome)
    BY <1>5 DEF ASendSend
  <2> QED
    BY <1>3, <1>4, <2>1 DEF Refuse
<1>6. CASE AThrowSend(b)
  <2>1. CASE state[b] = "CLOSED"
    BY <1>3, <1>6, <2>1 DEF AThrowSend, Refuse
  <2>2. CASE state[b] = "INIT"
    <3>1. AThrowBegin(b)
      BY <1>6, <2>2 DEF AThrowSend
    <3>2. (\E w \in {"busy", "finished", "stop"} : Refuse(b, w)) \/ Tell(b, "error")
          \/ \E input \in {"exit", "error"} : \E outcome \in Outcomes(input) :
                Tell(b, outcome) \/ Tell(b, AcloseAnswer(outcome))
      BY <3>1 DEF AThrowBegin, AcloseResumed
    <3> QED
      BY <1>3, <1>4, <2>2, <3>2 DEF Refuse
  <2>3. CASE state[b] = "ITER"
    <3>1. AThrowGoOn(b)
      BY <1>6, <2>3 DEF AThrowSend
    <3>2. Refuse(b, "finished")
          \/ \E outcome \in Outcomes("None") : Tell(b, outcome) \/ Tell(b, AcloseAnswer(outcome))
      BY <3>1 DEF AThrowGoOn, AcloseResumed
    <3> QED
      BY <1>3, <1>4, <2>3, <3>2 DEF Refuse
  <2> QED
    BY <1>1, <2>1, <2>2, <2>3 DEF TypeOK
<1> QED
  BY <1>5, <1>6 DEF Await

LEMMA CancelTells ==
    ASSUME NEW b \in Awaitable, NEW exc \in {"exit", "error"}, Cancel(b, exc)
    PROVE  \E w : Tell(b, w)
  BY DEF Cancel, ASendThrow, AThrowThrow, Refuse

(* For any number of objects and tasks: an object that has answered never waits for   *)
(* the generator again and takes no value from it ("cannot reuse").                 *)
THEOREM AnswersOnce == ASSUME OnceOnly PROVE AGSpec => AnsweredOnce
<1>1. ASSUME AGInvariant, [AGNext]_agVars, NEW a \in Awaitable PROVE Silent(a)
  <2>0. TypeOK /\ ObjectOK(a)
    BY <1>1 DEF AGInvariant
  <2>1. CASE UNCHANGED agVars
    BY <2>1 DEF agVars, Silent
  <2>2. CASE HookFails
    BY <2>2 DEF HookFails, Silent
  <2>3. ASSUME NEW b \in Awaitable, NEW k \in Kind, New(b, k) PROVE Silent(a)
    <3>1. k # "none" /\ kind[b] = "none"
      BY <2>3 DEF New, Kind
    <3> QED
      BY <2>0, <2>3, <3>1 DEF New, TypeOK, Silent
  <2>4. ASSUME NEW b \in Awaitable, Await(b) PROVE Silent(a)
    <3>1. PICK w \in Answers : /\ Tell(b, w)
                               /\ task[b] \in {"answered", "gone"} /\ answer[b] # "busy"
                                     => w \notin {"await", "value"}
      BY <1>1, <2>4, AwaitTells
    <3>2. CASE b = a /\ ~(task[b] \in {"answered", "gone"} /\ answer[b] # "busy")
      BY <3>2 DEF Silent
    <3>3. CASE b = a => w \notin {"await", "value"}
      BY <2>0, <3>1, <3>3, ToldSilent
    <3> QED
      BY <3>1, <3>2, <3>3
  <2>5. ASSUME NEW b \in Awaitable, NEW exc \in {"exit", "error"}, Cancel(b, exc) PROVE Silent(a)
    <3>1. CASE b = a
      BY <2>5, <3>1 DEF Cancel, Silent
    <3>2. CASE b # a
      BY <2>0, <2>5, <3>2, CancelTells, ToldSilent
    <3> QED
      BY <3>1, <3>2
  <2>6. ASSUME NEW b \in Awaitable, task[b] = "waiting", Close(b) PROVE Silent(a)
    BY <2>0, <2>6 DEF Close, TypeOK, Silent
  <2>7. ASSUME NEW b \in Awaitable, Free(b) PROVE Silent(a)
    BY <2>0, <2>7 DEF Free, TypeOK, Silent
  <2> QED
    BY <1>1, <2>1, <2>2, <2>3, <2>4, <2>5, <2>6, <2>7 DEF AGNext
<1>2. AGInvariant /\ [AGNext]_agVars => \A a \in Awaitable : Silent(a)
  BY <1>1
<1>3. (\A a \in Awaitable : Silent(a)) =>
         [\A a \in Awaitable :
            task[a] \in {"answered", "gone"} /\ answer[a] # "busy" /\ kind'[a] = kind[a] =>
               /\ task'[a] # "waiting"
               /\ answer'[a] # answer[a] => answer'[a] # "value"]_agVars
  BY DEF Silent
<1> QED
  BY <1>2, <1>3, AsyncGenInvariant, PTL DEF AGSpec, AnsweredOnce
-----------------------------------------------------------------------------
(***************************************************************************)
(* Proofs about Generator, for any number of generators and threads and     *)
(* stacks of any depth.                                                     *)
(*                                                                          *)
(* The flag is_running is the heart of the invariant: where it is set, one  *)
(* activation of a method is inside, alone, and everything that is promised of*)
(* the delegate, of the body and of the exception stack rests on being alone.*)
(* A step replaces the top of one stack, pushes an activation onto it or pops*)
(* one off, so that each part of the invariant has three lemmas, one for each*)
(* way.                                                                     *)
(***************************************************************************)

(* What a thread's stack holds: calls of methods, and bodies, with their      *)
(* places.                                                                    *)
Op == {"send", "throw", "close", "body"}
Pc == {"start", "switch", "delegate", "closing", "body", "code", "call", "yieldfrom"}
Errors == Thrown \cup Uncaught \cup
    {"GeneratorExit", "StopIteration", "raised StopIteration", "already executing",
     "cannot reuse", "non-None to fresh", "ignored GeneratorExit"}
Outcome == [k : {"none", "next", "return"}, x : Value] \cup [k : {"error"}, x : Errors]
Activation == [op : Op, gen : Gen, arg : Outcome, pc : Pc, of : Gen \cup {NoGen}]

(* The type of the variables of Generator, for stacks of any depth.           *)
GenType ==
    /\ resume_label \in [Gen -> {"fresh", "paused", "done"}]
    /\ is_running \in [Gen -> {0, 1}]
    /\ yieldfrom \in [Gen -> Gen \cup {NoGen}]
    /\ previous_item \in [Gen -> Gen \cup {NoGen}]
    /\ exc_info \in [Thread -> Gen \cup {NoGen}]
    /\ stack \in [Thread -> Seq(Activation)]
    /\ ret \in [Thread -> Outcome]

(* What the three changes of a stack do to its activations and to the answer  *)
(* given.                                                                     *)
LEMMA ReplaceFacts ==
    ASSUME GenType, NEW t \in Thread, stack[t] # <<>>, NEW f \in Activation, NEW r \in Outcome, Replace(t, f, r)
    PROVE  /\ stack' \in [Thread -> Seq(Activation)] /\ ret' \in [Thread -> Outcome]
           /\ Len(stack'[t]) = Len(stack[t]) /\ stack'[t][Len(stack[t])] = f
           /\ \A i \in 1..(Len(stack[t]) - 1) : stack'[t][i] = stack[t][i]
           /\ \A u \in Thread \ {t} : stack'[u] = stack[u] /\ ret'[u] = ret[u]
           /\ ret'[t] = r
<1>1. stack[t] \in Seq(Activation) /\ Len(stack[t]) \in Nat \ {0}
  BY DEF GenType
<1>2. /\ Below(t) \in Seq(Activation) /\ Len(Below(t)) = Len(stack[t]) - 1
      /\ \A i \in 1..(Len(stack[t]) - 1) : Below(t)[i] = stack[t][i]
  BY <1>1 DEF Below
<1>3. /\ Append(Below(t), f) \in Seq(Activation) /\ Len(Append(Below(t), f)) = Len(stack[t])
      /\ \A i \in 1..(Len(stack[t]) - 1) : Append(Below(t), f)[i] = stack[t][i]
      /\ Append(Below(t), f)[Len(stack[t])] = f
  BY <1>1, <1>2
<1>4. stack'[t] = Append(Below(t), f) /\ \A u \in Thread \ {t} : stack'[u] = stack[u]
  BY DEF Replace, GenType
<1>5. stack' \in [Thread -> Seq(Activation)]
  BY <1>3 DEF Replace, GenType
<1>6. ret' \in [Thread -> Outcome] /\ ret'[t] = r /\ \A u \in Thread \ {t} : ret'[u] = ret[u]
  BY DEF Replace, GenType
<1>7. QED
  BY <1>3, <1>4, <1>5, <1>6

LEMMA PushFacts ==
    ASSUME GenType, NEW t \in Thread, stack[t] # <<>>, NEW f \in Activation, NEW h \in Activation, Push(t, f, h)
    PROVE  /\ stack' \in [Thread -> Seq(Activation)] /\ ret' \in [Thread -> Outcome]
           /\ Len(stack'[t]) = Len(stack[t]) + 1 /\ stack'[t][Len(stack[t])] = f
           /\ stack'[t][Len(stack[t]) + 1] = h
           /\ \A i \in 1..(Len(stack[t]) - 1) : stack'[t][i] = stack[t][i]
           /\ \A u \in Thread \ {t} : stack'[u] = stack[u] /\ ret'[u] = ret[u]
           /\ ret'[t] = Nothing
<1>1. stack[t] \in Seq(Activation) /\ Len(stack[t]) \in Nat \ {0}
  BY DEF GenType
<1>2. /\ Below(t) \in Seq(Activation) /\ Len(Below(t)) = Len(stack[t]) - 1
      /\ \A i \in 1..(Len(stack[t]) - 1) : Below(t)[i] = stack[t][i]
  BY <1>1 DEF Below
<1>3. /\ Append(Below(t), f) \in Seq(Activation) /\ Len(Append(Below(t), f)) = Len(stack[t])
      /\ \A i \in 1..(Len(stack[t]) - 1) : Append(Below(t), f)[i] = stack[t][i]
      /\ Append(Below(t), f)[Len(stack[t])] = f
  BY <1>1, <1>2
<1> DEFINE s == Append(Append(Below(t), f), h)
<1>4. /\ s \in Seq(Activation) /\ Len(s) = Len(stack[t]) + 1
      /\ \A i \in 1..(Len(stack[t]) - 1) : s[i] = stack[t][i]
      /\ s[Len(stack[t])] = f /\ s[Len(stack[t]) + 1] = h
  BY <1>1, <1>3
<1>5. stack'[t] = s /\ \A u \in Thread \ {t} : stack'[u] = stack[u]
  BY DEF Push, GenType
<1>6. stack' \in [Thread -> Seq(Activation)]
  BY <1>4 DEF Push, GenType
<1>7. Nothing \in Outcome
  BY DEF Nothing, Outcome, Value
<1>8. ret' \in [Thread -> Outcome] /\ ret'[t] = Nothing /\ \A u \in Thread \ {t} : ret'[u] = ret[u]
  BY <1>7 DEF Push, GenType
<1>9. QED
  BY <1>4, <1>5, <1>6, <1>8

LEMMA PopFacts ==
    ASSUME GenType, NEW t \in Thread, stack[t] # <<>>, NEW r \in Outcome, Pop(t, r)
    PROVE  /\ stack' \in [Thread -> Seq(Activation)] /\ ret' \in [Thread -> Outcome]
           /\ Len(stack'[t]) = Len(stack[t]) - 1
           /\ \A i \in 1..(Len(stack[t]) - 1) : stack'[t][i] = stack[t][i]
           /\ \A u \in Thread \ {t} : stack'[u] = stack[u] /\ ret'[u] = ret[u]
           /\ ret'[t] = r
<1>1. stack[t] \in Seq(Activation) /\ Len(stack[t]) \in Nat \ {0}
  BY DEF GenType
<1>2. /\ Below(t) \in Seq(Activation) /\ Len(Below(t)) = Len(stack[t]) - 1
      /\ \A i \in 1..(Len(stack[t]) - 1) : Below(t)[i] = stack[t][i]
  BY <1>1 DEF Below
<1>3. stack'[t] = Below(t) /\ \A u \in Thread \ {t} : stack'[u] = stack[u]
  BY DEF Pop, GenType
<1>4. stack' \in [Thread -> Seq(Activation)]
  BY <1>2 DEF Pop, GenType
<1>5. ret' \in [Thread -> Outcome] /\ ret'[t] = r /\ \A u \in Thread \ {t} : ret'[u] = ret[u]
  BY DEF Pop, GenType
<1>6. QED
  BY <1>2, <1>3, <1>4, <1>5

-----------------------------------------------------------------------------
(* Methods and bodies have places of their own, and only throw() is given a   *)
(* StopIteration.                                                             *)
FrameOK(f) ==
    /\ f.op = "body" => f.pc \in {"start", "code", "call", "yieldfrom"}
    /\ f.op # "body" => f.pc \in {"start", "switch", "delegate", "closing", "body"}
    /\ f.arg = Raised("StopIteration") => f.op \in {"throw", "body"}
    /\ f.pc = "delegate" => f.of # NoGen /\ f.op # "close"

(* Above a method that resumes its generator is the body of this generator;   *)
(* above any other activation is a method: of the delegate if one is called,   *)
(* and close() if the caller is closing it.                                   *)
Calling(f, h) ==
    /\ f.pc \in {"body", "delegate", "closing", "call", "yieldfrom"}
    /\ h.op = "body" <=> f.pc = "body"
    /\ f.pc = "body" => h.gen = f.gen
    /\ f.pc = "closing" => h.op = "close"
    /\ f.pc = "delegate" => h.gen = f.of

(* Stacks are chains of calls whose first one is a call from outside.         *)
Linked ==
    /\ \A t \in Thread : \A i \in 1..Len(stack[t]) : FrameOK(stack[t][i])
    /\ \A t \in Thread : \A i \in 1..(Len(stack[t]) - 1) : Calling(stack[t][i], stack[t][i + 1])
    /\ \A t \in Thread : stack[t] # <<>> => stack[t][1].op # "body"

(* Activation i of the stack s is a method of g that has passed the test of   *)
(* the flag.                                                                  *)
InsideAt(s, i, g) ==
    i \in 1..Len(s) /\ s[i].gen = g /\ s[i].op # "body" /\ s[i].pc # "start"

(* Activation i of the stack s is the body of g.                              *)
BodyAt(s, i, g) == i \in 1..Len(s) /\ s[i].gen = g /\ s[i].op = "body"

(* The flag is set if and only if a method is inside, and never are two, on   *)
(* whatever threads.                                                          *)
Running ==
    /\ \A g \in Gen : is_running[g] = 1 => \E t \in Thread : \E i \in Nat : InsideAt(stack[t], i, g)
    /\ \A g \in Gen, t \in Thread, i \in Nat : InsideAt(stack[t], i, g) => is_running[g] = 1
    /\ \A g \in Gen, t \in Thread, u \in Thread, i \in Nat, j \in Nat :
          InsideAt(stack[t], i, g) /\ InsideAt(stack[u], j, g) => t = u /\ i = j

(* A delegate in use is the one that is stored.                               *)
Delegates ==
    \A t \in Thread : \A i \in 1..Len(stack[t]) :
       stack[t][i].pc \in {"delegate", "closing"} => yieldfrom[stack[t][i].gen] = stack[t][i].of

(* The exception stack: every thread's exc_info is its last body, every       *)
(* body's previous item the one below, and a generator without a body on a    *)
(* stack is linked to nothing.                                                *)
Items ==
    /\ \A t \in Thread : LastBody(stack[t], Len(stack[t]), exc_info[t])
    /\ \A t \in Thread : \A i \in 1..Len(stack[t]) :
          stack[t][i].op = "body" => LastBody(stack[t], i - 1, previous_item[stack[t][i].gen])
    /\ \A g \in Gen : (\A t \in Thread : \A i \in Nat : ~BodyAt(stack[t], i, g)) => previous_item[g] = NoGen

(* The inductive invariant.                                                   *)
IInv == GenType /\ Linked /\ Running /\ Delegates /\ Items

-----------------------------------------------------------------------------
(* Below a body is the method that resumed it: the flag protects bodies too.  *)
LEMMA BodyInside ==
    ASSUME GenType, Linked, NEW t \in Thread, NEW i \in Nat, NEW g \in Gen, BodyAt(stack[t], i, g)
    PROVE  i - 1 \in 1..(Len(stack[t]) - 1) /\ InsideAt(stack[t], i - 1, g) /\ stack[t][i - 1].pc = "body"
<1>1. stack[t] \in Seq(Activation) /\ i \in 1..Len(stack[t]) /\ stack[t] # <<>>
  BY DEF GenType, BodyAt
<1>2. i # 1
  BY <1>1 DEF Linked, BodyAt
<1>3. i - 1 \in 1..(Len(stack[t]) - 1) /\ (i - 1) + 1 = i
  BY <1>1, <1>2
<1>4. Calling(stack[t][i - 1], stack[t][i]) /\ FrameOK(stack[t][i - 1])
  BY <1>1, <1>3 DEF Linked
<1>5. QED
  BY <1>1, <1>3, <1>4 DEF Calling, FrameOK, InsideAt, BodyAt

(* A generator has at most one body on all stacks, right above the method     *)
(* inside.                                                                    *)
LEMMA BodyOnce ==
    ASSUME IInv, NEW g \in Gen, NEW t \in Thread, NEW u \in Thread, NEW i \in Nat, NEW j \in Nat
    PROVE  /\ BodyAt(stack[t], i, g) /\ BodyAt(stack[u], j, g) => t = u /\ i = j
           /\ BodyAt(stack[t], i, g) /\ InsideAt(stack[u], j, g) => t = u /\ j = i - 1 /\ stack[u][j].pc = "body"
<1>1. BodyAt(stack[t], i, g) => i - 1 \in Nat /\ InsideAt(stack[t], i - 1, g) /\ stack[t][i - 1].pc = "body"
  BY BodyInside DEF IInv, GenType
<1>2. BodyAt(stack[u], j, g) => j - 1 \in Nat /\ InsideAt(stack[u], j - 1, g)
  BY BodyInside DEF IInv, GenType
<1>3. \A a \in Nat, b \in Nat : InsideAt(stack[t], a, g) /\ InsideAt(stack[u], b, g) => t = u /\ a = b
  BY DEF IInv, Running
<1>4. QED
  BY <1>1, <1>2, <1>3

(* The last body depends on whose activations there are, not on their places. *)
LEMMA LastBodyAgrees ==
    ASSUME NEW s, NEW r, NEW n \in Nat, NEW g, \A i \in 1..n : r[i].op = s[i].op /\ r[i].gen = s[i].gen
    PROVE  LastBody(s, n, g) <=> LastBody(r, n, g)
  BY DEF LastBody

LEMMA LastBodyNext ==
    ASSUME NEW s, NEW n \in Nat, NEW g
    PROVE  /\ s[n + 1].op # "body" => (LastBody(s, n + 1, g) <=> LastBody(s, n, g))
           /\ s[n + 1].op = "body" /\ s[n + 1].gen = g => LastBody(s, n + 1, g)
<1>1. 1..(n + 1) = (1..n) \cup {n + 1}
  OBVIOUS
<1>2. ASSUME s[n + 1].op # "body" PROVE LastBody(s, n + 1, g) <=> LastBody(s, n, g)
  <2>1. \A i \in 1..n : (i + 1)..(n + 1) = ((i + 1)..n) \cup {n + 1}
    OBVIOUS
  <2>2. QED
    BY <1>1, <1>2, <2>1 DEF LastBody
<1>3. ASSUME s[n + 1].op = "body", s[n + 1].gen = g PROVE LastBody(s, n + 1, g)
  BY <1>3 DEF LastBody
<1>4. QED
  BY <1>2, <1>3

-----------------------------------------------------------------------------
(* The three ways a step changes the stacks.                                  *)
Swapped(t, f) ==
    /\ stack[t] # <<>> /\ Len(stack'[t]) = Len(stack[t]) /\ stack'[t][Len(stack[t])] = f
    /\ \A i \in 1..(Len(stack[t]) - 1) : stack'[t][i] = stack[t][i]
    /\ \A u \in Thread \ {t} : stack'[u] = stack[u]

Pushed(t, f, h) ==
    /\ stack[t] # <<>> /\ Len(stack'[t]) = Len(stack[t]) + 1
    /\ stack'[t][Len(stack[t])] = f /\ stack'[t][Len(stack[t]) + 1] = h
    /\ \A i \in 1..(Len(stack[t]) - 1) : stack'[t][i] = stack[t][i]
    /\ \A u \in Thread \ {t} : stack'[u] = stack[u]

Popped(t) ==
    /\ stack[t] # <<>> /\ Len(stack'[t]) = Len(stack[t]) - 1
    /\ \A i \in 1..(Len(stack[t]) - 1) : stack'[t][i] = stack[t][i]
    /\ \A u \in Thread \ {t} : stack'[u] = stack[u]

(* The activation f is the one on top, further on.                                *)
GoesOn(t, f) ==
    /\ f.op = Top(t).op /\ f.gen = Top(t).gen /\ FrameOK(f)

(* The step does not pass the test of the flag.                               *)
Started(t, f) == (f.op # "body" => (f.pc = "start" <=> Top(t).pc = "start"))

(* The types of activations.                                                  *)
LEMMA TopFacts ==
    ASSUME GenType, NEW t \in Thread, stack[t] # <<>>
    PROVE  /\ Len(stack[t]) \in Nat \ {0} /\ stack[t] \in Seq(Activation)
           /\ Top(t) \in Activation /\ Top(t) = stack[t][Len(stack[t])]
<1>1. stack[t] \in Seq(Activation) /\ Len(stack[t]) \in Nat \ {0}
  BY DEF GenType
<1>2. QED
  BY <1>1 DEF Top

LEMMA ActivationType ==
    ASSUME GenType, NEW t \in Thread, NEW i \in 1..Len(stack[t])
    PROVE  stack[t][i] \in Activation /\ i \in Nat
<1>1. stack[t] \in Seq(Activation)
  BY DEF GenType
<1>2. QED
  BY <1>1

(* Linked, for the three ways.                                                *)
LEMMA LinkedSwap ==
    ASSUME IInv, GenType', NEW t \in Thread, NEW f, Swapped(t, f), GoesOn(t, f)
    PROVE  Linked'
<1>1. /\ Len(stack[t]) \in Nat \ {0} /\ Top(t) = stack[t][Len(stack[t])] /\ GenType
  BY TopFacts DEF Swapped, IInv
<1>2. ASSUME NEW u \in Thread, NEW i \in 1..Len(stack'[u]) PROVE FrameOK(stack'[u][i])
  <2>1. i = Len(stack[u]) \/ i \in 1..(Len(stack[u]) - 1) \/ u # t
    BY <1>1, <1>2 DEF Swapped
  <2>2. QED
    BY <1>1, <1>2, <2>1 DEF Swapped, GoesOn, IInv, Linked
<1>3. ASSUME NEW u \in Thread, NEW i \in 1..(Len(stack'[u]) - 1)
      PROVE  Calling(stack'[u][i], stack'[u][i + 1])
  <2>1. CASE u # t
    BY <1>3, <2>1 DEF Swapped, IInv, Linked
  <2>2. CASE u = t
    <3>1. i \in 1..(Len(stack[t]) - 1) /\ stack'[t][i] = stack[t][i]
      BY <1>1, <1>3, <2>2 DEF Swapped
    <3>2. i + 1 = Len(stack[t]) \/ i + 1 \in 1..(Len(stack[t]) - 1)
      BY <1>1, <3>1
    <3>3. stack'[t][i + 1].op = stack[t][i + 1].op /\ stack'[t][i + 1].gen = stack[t][i + 1].gen
      BY <1>1, <3>2 DEF Swapped, GoesOn
    <3>4. QED
      BY <2>2, <3>1, <3>3 DEF IInv, Linked, Calling
  <2>3. QED
    BY <2>1, <2>2
<1>4. ASSUME NEW u \in Thread, stack'[u] # <<>> PROVE stack'[u][1].op # "body"
  BY <1>1, <1>4 DEF Swapped, GoesOn, IInv, Linked
<1>5. QED
  BY <1>2, <1>3, <1>4 DEF Linked

LEMMA LinkedPush ==
    ASSUME IInv, GenType', NEW t \in Thread, NEW f, NEW h, Pushed(t, f, h), GoesOn(t, f),
           FrameOK(h), Calling(f, h)
    PROVE  Linked'
<1>1. /\ Len(stack[t]) \in Nat \ {0} /\ Top(t) = stack[t][Len(stack[t])] /\ GenType
  BY TopFacts DEF Pushed, IInv
<1>2. ASSUME NEW u \in Thread, NEW i \in 1..Len(stack'[u]) PROVE FrameOK(stack'[u][i])
  <2>1. CASE u # t
    BY <1>2, <2>1 DEF Pushed, IInv, Linked
  <2>2. CASE u = t
    <3>1. i \in 1..(Len(stack[t]) - 1) \/ i = Len(stack[t]) \/ i = Len(stack[t]) + 1
      BY <1>1, <1>2, <2>2 DEF Pushed
    <3>2. QED
      BY <1>1, <2>2, <3>1 DEF Pushed, GoesOn, IInv, Linked
  <2>3. QED
    BY <2>1, <2>2
<1>3. ASSUME NEW u \in Thread, NEW i \in 1..(Len(stack'[u]) - 1)
      PROVE  Calling(stack'[u][i], stack'[u][i + 1])
  <2>1. CASE u # t
    BY <1>3, <2>1 DEF Pushed, IInv, Linked
  <2>2. CASE u = t /\ i # Len(stack[t])
    <3>1. i \in 1..(Len(stack[t]) - 1) /\ stack'[t][i] = stack[t][i]
      BY <1>1, <1>3, <2>2 DEF Pushed
    <3>2. i + 1 = Len(stack[t]) \/ i + 1 \in 1..(Len(stack[t]) - 1)
      BY <1>1, <3>1
    <3>3. stack'[t][i + 1].op = stack[t][i + 1].op /\ stack'[t][i + 1].gen = stack[t][i + 1].gen
      BY <1>1, <3>2 DEF Pushed, GoesOn
    <3>4. QED
      BY <2>2, <3>1, <3>3 DEF IInv, Linked, Calling
  <2>3. CASE u = t /\ i = Len(stack[t])
    BY <2>3 DEF Pushed
  <2>4. QED
    BY <2>1, <2>2, <2>3
<1>4. ASSUME NEW u \in Thread, stack'[u] # <<>> PROVE stack'[u][1].op # "body"
  BY <1>1, <1>4 DEF Pushed, GoesOn, IInv, Linked
<1>5. QED
  BY <1>2, <1>3, <1>4 DEF Linked

LEMMA LinkedPop ==
    ASSUME IInv, GenType', NEW t \in Thread, Popped(t)
    PROVE  Linked'
<1>1. /\ Len(stack[t]) \in Nat \ {0} /\ GenType
  BY TopFacts DEF Popped, IInv
<1>2. ASSUME NEW u \in Thread, NEW i \in 1..Len(stack'[u]) PROVE FrameOK(stack'[u][i])
  BY <1>1, <1>2 DEF Popped, IInv, Linked
<1>3. ASSUME NEW u \in Thread, NEW i \in 1..(Len(stack'[u]) - 1)
      PROVE  Calling(stack'[u][i], stack'[u][i + 1])
  <2>1. CASE u # t
    BY <1>3, <2>1 DEF Popped, IInv, Linked
  <2>2. CASE u = t
    <3>1. i \in 1..(Len(stack[t]) - 1) /\ i + 1 \in 1..(Len(stack[t]) - 1)
      BY <1>1, <1>3, <2>2 DEF Popped
    <3>2. stack'[u][i] = stack[u][i] /\ stack'[u][i + 1] = stack[u][i + 1]
      BY <2>2, <3>1 DEF Popped
    <3>3. QED
      BY <2>2, <3>1, <3>2 DEF IInv, Linked
  <2>3. QED
    BY <2>1, <2>2
<1>4. ASSUME NEW u \in Thread, stack'[u] # <<>> PROVE stack'[u][1].op # "body"
  <2>1. CASE u # t
    BY <1>4, <2>1 DEF Popped, IInv, Linked
  <2>2. CASE u = t
    <3>1. stack'[t] \in Seq(Activation)
      BY DEF GenType
    <3>2. Len(stack'[t]) \in Nat \ {0}
      BY <1>4, <2>2, <3>1
    <3>3. 1 \in 1..Len(stack'[t])
      BY <3>2
    <3>4. stack'[t][1] = stack[t][1] /\ stack[t] # <<>>
      BY <3>3 DEF Popped
    <3>5. QED
      BY <2>2, <3>4 DEF IInv, Linked
  <2>3. QED
    BY <2>1, <2>2
<1>5. QED
  BY <1>2, <1>3, <1>4 DEF Linked

-----------------------------------------------------------------------------
(* Running: nobody enters, somebody enters, somebody leaves.                  *)
LEMMA RunningSame ==
    ASSUME Running, is_running' = is_running,
           \A u \in Thread, i \in Nat, g \in Gen : InsideAt(stack'[u], i, g) <=> InsideAt(stack[u], i, g)
    PROVE  Running'
<1>1. ASSUME NEW g \in Gen, is_running'[g] = 1 PROVE \E t \in Thread : \E i \in Nat : InsideAt(stack'[t], i, g)
  BY <1>1 DEF Running
<1>2. ASSUME NEW g \in Gen, NEW t \in Thread, NEW i \in Nat, InsideAt(stack'[t], i, g) PROVE is_running'[g] = 1
  BY <1>2 DEF Running
<1>3. ASSUME NEW g \in Gen, NEW t \in Thread, NEW u \in Thread, NEW i \in Nat, NEW j \in Nat,
             InsideAt(stack'[t], i, g), InsideAt(stack'[u], j, g)
      PROVE  t = u /\ i = j
  BY <1>3 DEF Running
<1>4. QED
  BY <1>1, <1>2, <1>3 DEF Running

(* The activation n of thread t is inside g from now on.                           *)
NowInside(t, n, g) ==
    \A u \in Thread, i \in Nat, x \in Gen :
       InsideAt(stack'[u], i, x) <=> InsideAt(stack[u], i, x) \/ (u = t /\ i = n /\ x = g)

LEMMA RunningSet ==
    ASSUME GenType, Running, NEW w \in Thread, NEW n \in Nat, NEW y \in Gen, is_running[y] = 0,
           is_running' = [is_running EXCEPT ![y] = 1], NowInside(w, n, y)
    PROVE  Running'
<1>1. is_running'[y] = 1 /\ \A g \in Gen \ {y} : is_running'[g] = is_running[g]
  BY DEF GenType
<1>2. \A u \in Thread, i \in Nat : ~InsideAt(stack[u], i, y)
  BY DEF Running
<1>3. /\ \A g \in Gen : is_running'[g] = 1 => \E t \in Thread : \E i \in Nat : InsideAt(stack'[t], i, g)
      /\ \A g \in Gen, t \in Thread, i \in Nat : InsideAt(stack'[t], i, g) => is_running'[g] = 1
  BY <1>1 DEF Running, NowInside
<1>4. \A g \in Gen, t \in Thread, u \in Thread, i \in Nat, j \in Nat :
         InsideAt(stack'[t], i, g) /\ InsideAt(stack'[u], j, g) => t = u /\ i = j
  BY <1>2 DEF Running, NowInside
<1>5. QED
  BY <1>3, <1>4 DEF Running

LEMMA RunningReset ==
    ASSUME GenType, Running, NEW t \in Thread, NEW n \in Nat, NEW g \in Gen, InsideAt(stack[t], n, g),
           is_running' = [is_running EXCEPT ![g] = 0],
           \A u \in Thread, i \in Nat, x \in Gen :
              InsideAt(stack'[u], i, x) <=> InsideAt(stack[u], i, x) /\ ~(u = t /\ i = n)
    PROVE  Running'
<1>1. is_running'[g] = 0 /\ \A x \in Gen \ {g} : is_running'[x] = is_running[x]
  BY DEF GenType
<1>2. \A x \in Gen : InsideAt(stack[t], n, x) => x = g
  BY DEF InsideAt
<1>3. \A u \in Thread, i \in Nat : InsideAt(stack[u], i, g) => u = t /\ i = n
  BY DEF Running
<1>4. QED
  BY <1>1, <1>2, <1>3 DEF Running

(* Who is inside, for the three ways.                                         *)
LEMMA InsideSwap ==
    ASSUME GenType, NEW t \in Thread, NEW f, Swapped(t, f), GoesOn(t, f)
    PROVE  /\ Started(t, f) =>
                \A u \in Thread, i \in Nat, g \in Gen : InsideAt(stack'[u], i, g) <=> InsideAt(stack[u], i, g)
           /\ f.op # "body" /\ Top(t).pc = "start" /\ f.pc # "start" =>
                NowInside(t, Len(stack[t]), f.gen)
<1>1. /\ Len(stack[t]) \in Nat \ {0} /\ Top(t) = stack[t][Len(stack[t])]
  BY TopFacts DEF Swapped
<1>2. \A u \in Thread \ {t}, i \in Nat, g \in Gen : InsideAt(stack'[u], i, g) <=> InsideAt(stack[u], i, g)
  BY DEF Swapped, InsideAt
<1>3. \A i \in Nat \ {Len(stack[t])}, g \in Gen : InsideAt(stack'[t], i, g) <=> InsideAt(stack[t], i, g)
  BY <1>1 DEF Swapped, InsideAt
<1>4. \A g \in Gen : InsideAt(stack'[t], Len(stack[t]), g) <=> f.gen = g /\ f.op # "body" /\ f.pc # "start"
  BY <1>1 DEF Swapped, InsideAt
<1>5. \A g \in Gen : InsideAt(stack[t], Len(stack[t]), g) <=> f.gen = g /\ f.op # "body" /\ Top(t).pc # "start"
  BY <1>1 DEF InsideAt, GoesOn
<1>6. CASE Started(t, f)
  <2>1. \A g \in Gen : InsideAt(stack'[t], Len(stack[t]), g) <=> InsideAt(stack[t], Len(stack[t]), g)
    BY <1>4, <1>5, <1>6 DEF Started
  <2>2. \A u \in Thread, i \in Nat, g \in Gen : InsideAt(stack'[u], i, g) <=> InsideAt(stack[u], i, g)
    BY <1>2, <1>3, <2>1
  <2>3. QED
    BY <1>6, <2>2 DEF Started
<1>7. CASE f.op # "body" /\ Top(t).pc = "start" /\ f.pc # "start"
  <2>1. \A g \in Gen : InsideAt(stack'[t], Len(stack[t]), g) <=> g = f.gen
    BY <1>4, <1>7
  <2>2. \A g \in Gen : ~InsideAt(stack[t], Len(stack[t]), g)
    BY <1>5, <1>7
  <2>3. ASSUME NEW u \in Thread, NEW i \in Nat, NEW g \in Gen
        PROVE  InsideAt(stack'[u], i, g) <=> InsideAt(stack[u], i, g) \/ (u = t /\ i = Len(stack[t]) /\ g = f.gen)
    <3>1. CASE u # t
      BY <1>2, <3>1
    <3>2. CASE u = t /\ i # Len(stack[t])
      BY <1>3, <3>2
    <3>3. CASE u = t /\ i = Len(stack[t])
      BY <2>1, <2>2, <3>3
    <3>4. QED
      BY <3>1, <3>2, <3>3
  <2>4. QED
    BY <1>7, <2>3 DEF Started, NowInside
<1>8. QED
  BY <1>6, <1>7

LEMMA InsidePush ==
    ASSUME GenType, NEW t \in Thread, NEW f, NEW h, Pushed(t, f, h), GoesOn(t, f), Started(t, f),
           h.pc = "start"
    PROVE  \A u \in Thread, i \in Nat, g \in Gen : InsideAt(stack'[u], i, g) <=> InsideAt(stack[u], i, g)
<1>1. /\ Len(stack[t]) \in Nat \ {0} /\ Top(t) = stack[t][Len(stack[t])]
  BY TopFacts DEF Pushed
<1>2. \A u \in Thread \ {t}, i \in Nat, g \in Gen : InsideAt(stack'[u], i, g) <=> InsideAt(stack[u], i, g)
  BY DEF Pushed, InsideAt
<1>3. \A i \in Nat \ {Len(stack[t])}, g \in Gen : InsideAt(stack'[t], i, g) <=> InsideAt(stack[t], i, g)
  BY <1>1 DEF Pushed, InsideAt
<1>4. \A g \in Gen : InsideAt(stack'[t], Len(stack[t]), g) <=> f.gen = g /\ f.op # "body" /\ f.pc # "start"
  <2>1. Len(stack[t]) \in 1..Len(stack'[t]) /\ stack'[t][Len(stack[t])] = f
    BY <1>1 DEF Pushed
  <2>2. QED
    BY <2>1 DEF InsideAt
<1>5. \A g \in Gen : InsideAt(stack[t], Len(stack[t]), g) <=> f.gen = g /\ f.op # "body" /\ Top(t).pc # "start"
  BY <1>1 DEF InsideAt, GoesOn
<1>6. \A g \in Gen : InsideAt(stack'[t], Len(stack[t]), g) <=> InsideAt(stack[t], Len(stack[t]), g)
  BY <1>4, <1>5 DEF Started
<1>7. QED
  BY <1>2, <1>3, <1>6

LEMMA InsidePop ==
    ASSUME GenType, NEW t \in Thread, Popped(t)
    PROVE  \A u \in Thread, i \in Nat, g \in Gen :
              InsideAt(stack'[u], i, g) <=> InsideAt(stack[u], i, g) /\ ~(u = t /\ i = Len(stack[t]))
<1>1. Len(stack[t]) \in Nat \ {0}
  BY TopFacts DEF Popped
<1>2. QED
  BY <1>1 DEF Popped, InsideAt

-----------------------------------------------------------------------------
(* Only the activation on top may have changed its delegate.                      *)
OwnDelegate(t) ==
    /\ \A x \in Gen \ {Top(t).gen} : yieldfrom'[x] = yieldfrom[x]
    /\ yieldfrom' = yieldfrom \/ Top(t).op = "body" \/ Top(t).pc # "start"

(* A delegate that another activation uses is not touched: its generator is   *)
(* running, and the one on top is inside another.                             *)
LEMMA OthersStable ==
    ASSUME IInv, NEW t \in Thread, stack[t] # <<>>, OwnDelegate(t),
           NEW u \in Thread, NEW i \in 1..Len(stack[u]), ~(u = t /\ i = Len(stack[t])),
           stack[u][i].pc \in {"delegate", "closing"}
    PROVE  yieldfrom'[stack[u][i].gen] = stack[u][i].of
<1>1. /\ Len(stack[t]) \in Nat \ {0} /\ Top(t) = stack[t][Len(stack[t])] /\ Top(t) \in Activation
  BY TopFacts DEF IInv
<1>2. stack[u] \in Seq(Activation) /\ stack[u][i] \in Activation /\ i \in Nat
  BY DEF IInv, GenType
<1> DEFINE g == stack[u][i].gen
<1>3. g \in Gen /\ FrameOK(stack[u][i])
  BY <1>2 DEF IInv, Linked, Activation
<1>4. InsideAt(stack[u], i, g)
  BY <1>3 DEF InsideAt, FrameOK
<1>5. yieldfrom[g] = stack[u][i].of
  BY DEF IInv, Delegates
<1>6. CASE g # Top(t).gen
  BY <1>3, <1>5, <1>6 DEF OwnDelegate
<1>7. CASE yieldfrom' = yieldfrom
  BY <1>5, <1>7
<1>8. CASE g = Top(t).gen /\ Top(t).op = "body"
  <2>1. BodyAt(stack[t], Len(stack[t]), g)
    BY <1>1, <1>8 DEF BodyAt
  <2>2. stack[u][i].pc = "body"
    BY <1>1, <1>2, <1>3, <1>4, <2>1, BodyOnce
  <2>3. QED
    BY <2>2
<1>9. CASE g = Top(t).gen /\ Top(t).op # "body" /\ Top(t).pc # "start"
  <2>1. InsideAt(stack[t], Len(stack[t]), g)
    BY <1>1, <1>9 DEF InsideAt
  <2>2. QED
    BY <1>1, <1>2, <1>3, <1>4, <2>1 DEF IInv, Running
<1>10. QED
  BY <1>6, <1>7, <1>8, <1>9 DEF OwnDelegate

(* Delegates, for the three ways.                                             *)
LEMMA DelegatesSwap ==
    ASSUME IInv, NEW t \in Thread, NEW f, Swapped(t, f), OwnDelegate(t), f.pc \notin {"delegate", "closing"}
    PROVE  Delegates'
<1>1. Len(stack[t]) \in Nat \ {0}
  BY TopFacts DEF Swapped, IInv
<1>2. ASSUME NEW u \in Thread, NEW i \in 1..Len(stack'[u]), stack'[u][i].pc \in {"delegate", "closing"}
      PROVE  yieldfrom'[stack'[u][i].gen] = stack'[u][i].of
  <2>1. i \in 1..Len(stack[u]) /\ ~(u = t /\ i = Len(stack[t]))
    BY <1>1, <1>2 DEF Swapped
  <2>2. stack'[u][i] = stack[u][i]
    BY <1>1, <2>1 DEF Swapped
  <2>3. QED
    BY <1>2, <2>1, <2>2, OthersStable DEF Swapped
<1>3. QED
  BY <1>2 DEF Delegates

LEMMA DelegatesPush ==
    ASSUME IInv, NEW t \in Thread, NEW f, NEW h, Pushed(t, f, h), OwnDelegate(t),
           f.pc \in {"delegate", "closing"} => yieldfrom'[f.gen] = f.of, h.pc = "start"
    PROVE  Delegates'
<1>1. Len(stack[t]) \in Nat \ {0}
  BY TopFacts DEF Pushed, IInv
<1>2. ASSUME NEW u \in Thread, NEW i \in 1..Len(stack'[u]), stack'[u][i].pc \in {"delegate", "closing"}
      PROVE  yieldfrom'[stack'[u][i].gen] = stack'[u][i].of
  <2>1. CASE u = t /\ i = Len(stack[t])
    BY <1>2, <2>1 DEF Pushed
  <2>2. CASE ~(u = t /\ i = Len(stack[t]))
    <3>1. ~(u = t /\ i = Len(stack[t]) + 1)
      BY <1>1, <1>2 DEF Pushed
    <3>2. i \in 1..Len(stack[u])
      BY <1>1, <1>2, <3>1 DEF Pushed
    <3>3. stack'[u][i] = stack[u][i]
      BY <1>1, <2>2, <3>2 DEF Pushed
    <3>4. QED
      BY <1>2, <2>2, <3>2, <3>3, OthersStable DEF Pushed
  <2>3. QED
    BY <2>1, <2>2
<1>3. QED
  BY <1>2 DEF Delegates

LEMMA DelegatesPop ==
    ASSUME IInv, NEW t \in Thread, Popped(t), OwnDelegate(t)
    PROVE  Delegates'
<1>1. Len(stack[t]) \in Nat \ {0}
  BY TopFacts DEF Popped, IInv
<1>2. ASSUME NEW u \in Thread, NEW i \in 1..Len(stack'[u]), stack'[u][i].pc \in {"delegate", "closing"}
      PROVE  yieldfrom'[stack'[u][i].gen] = stack'[u][i].of
  <2>1. i \in 1..Len(stack[u]) /\ ~(u = t /\ i = Len(stack[t]))
    BY <1>1, <1>2 DEF Popped
  <2>2. stack'[u][i] = stack[u][i]
    BY <1>1, <1>2, <2>1 DEF Popped
  <2>3. QED
    BY <1>2, <2>1, <2>2, OthersStable DEF Popped
<1>3. QED
  BY <1>2 DEF Delegates

-----------------------------------------------------------------------------
(* The bodies are the same activations after a step.                              *)
LEMMA ItemsSwap ==
    ASSUME IInv, NEW t \in Thread, NEW f, Swapped(t, f), GoesOn(t, f), UNCHANGED <<exc_info, previous_item>>
    PROVE  Items'
<1>1. /\ Len(stack[t]) \in Nat \ {0} /\ Top(t) = stack[t][Len(stack[t])]
  BY TopFacts DEF Swapped, IInv
<1>2. ASSUME NEW u \in Thread
      PROVE  /\ Len(stack'[u]) = Len(stack[u]) /\ Len(stack[u]) \in Nat
             /\ \A i \in 1..Len(stack[u]) :
                   stack'[u][i].op = stack[u][i].op /\ stack'[u][i].gen = stack[u][i].gen
  <2>1. Len(stack[u]) \in Nat
    BY DEF IInv, GenType
  <2>2. CASE u # t
    BY <2>1, <2>2 DEF Swapped
  <2>3. CASE u = t
    <3>1. \A i \in 1..Len(stack[t]) : i = Len(stack[t]) \/ i \in 1..(Len(stack[t]) - 1)
      BY <1>1
    <3>2. QED
      BY <1>1, <2>3, <3>1 DEF Swapped, GoesOn
  <2>4. QED
    BY <2>2, <2>3
<1>3. ASSUME NEW u \in Thread, NEW n \in 0..Len(stack[u]), NEW g
      PROVE  LastBody(stack[u], n, g) => LastBody(stack'[u], n, g)
  <2>1. \A i \in 1..n : stack'[u][i].op = stack[u][i].op /\ stack'[u][i].gen = stack[u][i].gen
    BY <1>2
  <2>2. n \in Nat
    BY <1>2
  <2>3. QED
    BY <2>1, <2>2, LastBodyAgrees
<1>4. ASSUME NEW u \in Thread PROVE LastBody(stack'[u], Len(stack'[u]), exc_info'[u])
  <2>1. LastBody(stack[u], Len(stack[u]), exc_info[u])
    BY DEF IInv, Items
  <2>2. Len(stack[u]) \in 0..Len(stack[u])
    BY <1>2
  <2>3. QED
    BY <1>2, <1>3, <2>1, <2>2
<1>5. ASSUME NEW u \in Thread, NEW i \in 1..Len(stack'[u]), stack'[u][i].op = "body"
      PROVE  LastBody(stack'[u], i - 1, previous_item'[stack'[u][i].gen])
  <2>1. i \in 1..Len(stack[u]) /\ i - 1 \in 0..Len(stack[u]) /\ stack[u][i].op = "body"
    BY <1>2, <1>5
  <2>2. LastBody(stack[u], i - 1, previous_item[stack[u][i].gen])
    BY <2>1 DEF IInv, Items
  <2>3. QED
    BY <1>2, <1>3, <2>1, <2>2
<1>6. ASSUME NEW g \in Gen, \A u \in Thread : \A i \in Nat : ~BodyAt(stack'[u], i, g)
      PROVE  previous_item'[g] = NoGen
  <2>1. \A u \in Thread : \A i \in Nat : ~BodyAt(stack[u], i, g)
    BY <1>2, <1>6 DEF BodyAt
  <2>2. QED
    BY <2>1 DEF IInv, Items
<1>7. QED
  BY <1>4, <1>5, <1>6 DEF Items

(* A new body is linked to the last one below it; a new method to nothing.    *)
LEMMA ItemsPush ==
    ASSUME IInv, NEW t \in Thread, NEW f, NEW h, Pushed(t, f, h), GoesOn(t, f), h.gen \in Gen,
           \/ h.op # "body" /\ UNCHANGED <<exc_info, previous_item>>
           \/ /\ h.op = "body" /\ \A u \in Thread : \A i \in Nat : ~BodyAt(stack[u], i, h.gen)
              /\ previous_item' = [previous_item EXCEPT ![h.gen] = exc_info[t]]
              /\ exc_info' = [exc_info EXCEPT ![t] = h.gen]
    PROVE  Items'
<1> DEFINE n == Len(stack[t])
<1>1. /\ n \in Nat \ {0} /\ Top(t) = stack[t][n] /\ GenType
  BY TopFacts DEF Pushed, IInv
<1>2. ASSUME NEW u \in Thread
      PROVE  /\ Len(stack[u]) \in Nat
             /\ \A i \in 1..Len(stack[u]) :
                   stack'[u][i].op = stack[u][i].op /\ stack'[u][i].gen = stack[u][i].gen
  <2>1. Len(stack[u]) \in Nat
    BY <1>1 DEF GenType
  <2>2. CASE u # t
    BY <2>1, <2>2 DEF Pushed
  <2>3. CASE u = t
    <3>1. \A i \in 1..Len(stack[t]) : i = Len(stack[t]) \/ i \in 1..(Len(stack[t]) - 1)
      BY <1>1
    <3>2. QED
      BY <1>1, <2>3, <3>1 DEF Pushed, GoesOn
  <2>4. QED
    BY <2>2, <2>3
<1>3. ASSUME NEW u \in Thread, NEW m \in 0..Len(stack[u]), NEW g
      PROVE  LastBody(stack[u], m, g) => LastBody(stack'[u], m, g)
  <2>1. \A i \in 1..m : stack'[u][i].op = stack[u][i].op /\ stack'[u][i].gen = stack[u][i].gen
    BY <1>2
  <2>2. m \in Nat
    BY <1>2
  <2>3. QED
    BY <2>1, <2>2, LastBodyAgrees
<1>4. /\ Len(stack'[t]) = n + 1 /\ stack'[t][n + 1] = h
      /\ \A u \in Thread \ {t} : stack'[u] = stack[u]
  BY DEF Pushed
<1>5. /\ \A u \in Thread \ {t} : exc_info'[u] = exc_info[u]
      /\ \A x \in Gen : x # h.gen \/ h.op # "body" => previous_item'[x] = previous_item[x]
      /\ h.op # "body" => exc_info'[t] = exc_info[t]
      /\ h.op = "body" => exc_info'[t] = h.gen /\ previous_item'[h.gen] = exc_info[t]
  BY <1>1 DEF GenType
<1>6. ASSUME NEW u \in Thread PROVE LastBody(stack[u], Len(stack[u]), exc_info[u])
  BY DEF IInv, Items
<1>7. ASSUME NEW u \in Thread PROVE LastBody(stack'[u], Len(stack'[u]), exc_info'[u])
  <2>1. CASE u # t
    BY <1>4, <1>5, <1>6, <2>1
  <2>2. CASE u = t /\ h.op # "body"
    <3>1. n \in 0..n
      BY <1>1
    <3>2. LastBody(stack'[t], n, exc_info[t])
      BY <1>3, <1>6, <3>1
    <3>3. LastBody(stack'[t], n + 1, exc_info[t])
      BY <1>1, <1>4, <2>2, <3>2, LastBodyNext
    <3>4. QED
      BY <1>4, <1>5, <2>2, <3>3
  <2>3. CASE u = t /\ h.op = "body"
    <3>1. LastBody(stack'[t], n + 1, h.gen)
      BY <1>1, <1>4, <2>3, LastBodyNext
    <3>2. QED
      BY <1>4, <1>5, <2>3, <3>1
  <2>4. QED
    BY <2>1, <2>2, <2>3
<1>8. ASSUME NEW u \in Thread, NEW i \in 1..Len(stack'[u]), stack'[u][i].op = "body"
      PROVE  LastBody(stack'[u], i - 1, previous_item'[stack'[u][i].gen])
  <2>1. CASE u = t /\ i = n + 1
    <3>1. n \in 0..n /\ i - 1 = n
      BY <1>1, <2>1
    <3>2. LastBody(stack'[t], n, exc_info[t])
      BY <1>3, <1>6, <3>1
    <3>3. QED
      BY <1>4, <1>5, <1>8, <2>1, <3>1, <3>2
  <2>2. CASE ~(u = t /\ i = n + 1)
    <3>1. i \in 1..Len(stack[u])
      BY <1>1, <1>2, <1>4, <1>8, <2>2
    <3>2. i - 1 \in 0..Len(stack[u]) /\ i \in Nat /\ stack[u][i].op = "body" /\ stack'[u][i].gen = stack[u][i].gen
      BY <1>2, <1>8, <3>1
    <3>3. LastBody(stack'[u], i - 1, previous_item[stack[u][i].gen])
      BY <1>3, <3>1, <3>2 DEF IInv, Items
    <3>4. stack[u][i].gen \in Gen
      BY <1>1, <3>1, ActivationType DEF Activation
    <3>5. BodyAt(stack[u], i, stack[u][i].gen)
      BY <3>1, <3>2 DEF BodyAt
    <3>6. previous_item'[stack[u][i].gen] = previous_item[stack[u][i].gen]
      BY <1>5, <3>2, <3>4, <3>5
    <3>7. QED
      BY <3>2, <3>3, <3>6
  <2>3. QED
    BY <2>1, <2>2
<1>9. ASSUME NEW g \in Gen, \A u \in Thread : \A i \in Nat : ~BodyAt(stack'[u], i, g)
      PROVE  previous_item'[g] = NoGen
  <2>1. ASSUME NEW u \in Thread, NEW i \in Nat, BodyAt(stack[u], i, g)
        PROVE  BodyAt(stack'[u], i, g)
    <3>1. i \in 1..Len(stack[u])
      BY <2>1 DEF BodyAt
    <3>2. i \in 1..Len(stack'[u])
      BY <1>1, <1>4, <3>1
    <3>3. QED
      BY <1>2, <2>1, <3>1, <3>2 DEF BodyAt
  <2>2. previous_item[g] = NoGen
    BY <1>9, <2>1 DEF IInv, Items
  <2>3. ~(h.op = "body" /\ h.gen = g)
    <3>1. n + 1 \in Nat /\ n + 1 \in 1..Len(stack'[t])
      BY <1>1, <1>4
    <3>2. QED
      BY <1>4, <1>9, <3>1 DEF BodyAt
  <2>4. QED
    BY <1>5, <2>2, <2>3
<1>10. QED
  BY <1>7, <1>8, <1>9 DEF Items

(* A body that leaves restores what it was linked to.                         *)
LEMMA ItemsPop ==
    ASSUME IInv, NEW t \in Thread, Popped(t),
           \/ Top(t).op # "body" /\ UNCHANGED <<exc_info, previous_item>>
           \/ /\ Top(t).op = "body"
              /\ previous_item' = [previous_item EXCEPT ![Top(t).gen] = NoGen]
              /\ exc_info' = [exc_info EXCEPT ![t] = previous_item[Top(t).gen]]
    PROVE  Items'
<1> DEFINE n == Len(stack[t])
<1> DEFINE h == Top(t)
<1>1. /\ n \in Nat \ {0} /\ h = stack[t][n] /\ GenType /\ h.gen \in Gen
  BY TopFacts DEF Popped, IInv, Activation
<1>2. /\ Len(stack'[t]) = n - 1 /\ (n - 1) + 1 = n /\ n - 1 \in Nat
      /\ \A u \in Thread \ {t} : stack'[u] = stack[u]
      /\ \A i \in 1..(n - 1) : stack'[t][i] = stack[t][i]
  BY <1>1 DEF Popped
<1>3. ASSUME NEW u \in Thread
      PROVE  Len(stack[u]) \in Nat /\ Len(stack'[u]) \in Nat /\ Len(stack'[u]) <= Len(stack[u])
             /\ \A i \in 1..Len(stack'[u]) : stack'[u][i] = stack[u][i]
  <2>1. Len(stack[u]) \in Nat
    BY <1>1 DEF GenType
  <2>2. CASE u = t
    BY <1>1, <1>2, <2>2
  <2>3. CASE u # t
    BY <1>2, <2>1, <2>3
  <2>4. QED
    BY <2>2, <2>3
<1>4. ASSUME NEW u \in Thread, NEW m \in 0..Len(stack'[u]), NEW g
      PROVE  LastBody(stack[u], m, g) => LastBody(stack'[u], m, g)
  <2>1. \A i \in 1..m : stack'[u][i].op = stack[u][i].op /\ stack'[u][i].gen = stack[u][i].gen
    BY <1>3
  <2>2. m \in Nat
    BY <1>3
  <2>3. QED
    BY <2>1, <2>2, LastBodyAgrees
<1>5. /\ \A u \in Thread \ {t} : exc_info'[u] = exc_info[u]
      /\ \A x \in Gen : x # h.gen \/ h.op # "body" => previous_item'[x] = previous_item[x]
      /\ h.op # "body" => exc_info'[t] = exc_info[t]
      /\ h.op = "body" => exc_info'[t] = previous_item[h.gen] /\ previous_item'[h.gen] = NoGen
  BY <1>1 DEF GenType
<1>6. ASSUME NEW u \in Thread PROVE LastBody(stack[u], Len(stack[u]), exc_info[u])
  BY DEF IInv, Items
<1>7. ASSUME NEW u \in Thread PROVE LastBody(stack'[u], Len(stack'[u]), exc_info'[u])
  <2>1. CASE u # t
    BY <1>2, <1>5, <1>6, <2>1
  <2>2. CASE u = t
    <3>1. LastBody(stack[t], n - 1, exc_info'[t])
      <4>1. CASE h.op # "body"
        <5>1. LastBody(stack[t], (n - 1) + 1, exc_info[t])
          BY <1>2, <1>6
        <5>2. stack[t][(n - 1) + 1].op # "body"
          BY <1>1, <1>2, <4>1
        <5>3. LastBody(stack[t], n - 1, exc_info[t])
          BY <1>2, <5>1, <5>2, LastBodyNext
        <5>4. QED
          BY <1>5, <4>1, <5>3
      <4>2. CASE h.op = "body"
        <5>1. n \in 1..Len(stack[t])
          BY <1>1
        <5>2. LastBody(stack[t], n - 1, previous_item[h.gen])
          BY <1>1, <4>2, <5>1 DEF IInv, Items
        <5>3. QED
          BY <1>5, <4>2, <5>2
      <4>3. QED
        BY <4>1, <4>2
    <3>2. n - 1 \in 0..Len(stack'[t])
      BY <1>1, <1>2
    <3>3. QED
      BY <1>2, <1>4, <2>2, <3>1, <3>2
  <2>3. QED
    BY <2>1, <2>2
<1>8. ASSUME NEW u \in Thread, NEW i \in 1..Len(stack'[u]), stack'[u][i].op = "body"
      PROVE  LastBody(stack'[u], i - 1, previous_item'[stack'[u][i].gen])
  <2>1. i \in 1..Len(stack[u]) /\ stack'[u][i] = stack[u][i] /\ i - 1 \in 0..Len(stack'[u]) /\ i \in Nat
    BY <1>3
  <2>2. LastBody(stack'[u], i - 1, previous_item[stack[u][i].gen])
    BY <1>4, <1>8, <2>1 DEF IInv, Items
  <2>3. stack[u][i].gen \in Gen
    BY <1>1, <2>1, ActivationType DEF Activation
  <2>4. ~(u = t /\ i = n)
    BY <1>1, <1>2
  <2>5. h.op = "body" => h.gen # stack[u][i].gen
    <3>1. SUFFICES ASSUME h.op = "body", h.gen = stack[u][i].gen PROVE FALSE
      OBVIOUS
    <3>2. BodyAt(stack[t], n, h.gen) /\ BodyAt(stack[u], i, h.gen)
      BY <1>1, <1>8, <2>1, <3>1 DEF BodyAt
    <3>3. QED
      BY <1>1, <2>1, <2>4, <3>2, BodyOnce
  <2>6. QED
    BY <1>5, <2>1, <2>2, <2>3, <2>5
<1>9. ASSUME NEW g \in Gen, \A u \in Thread : \A i \in Nat : ~BodyAt(stack'[u], i, g)
      PROVE  previous_item'[g] = NoGen
  <2>1. CASE h.op = "body" /\ h.gen = g
    BY <1>5, <2>1
  <2>2. CASE ~(h.op = "body" /\ h.gen = g)
    <3>1. ASSUME NEW u \in Thread, NEW i \in Nat, BodyAt(stack[u], i, g) PROVE FALSE
      <4>1. i \in 1..Len(stack[u]) /\ ~(u = t /\ i = n)
        BY <1>1, <2>2, <3>1 DEF BodyAt
      <4>2. i \in 1..Len(stack'[u])
        BY <1>1, <1>2, <4>1
      <4>3. BodyAt(stack'[u], i, g)
        BY <1>3, <3>1, <4>1, <4>2 DEF BodyAt
      <4>4. QED
        BY <1>9, <4>3
    <3>2. previous_item[g] = NoGen
      BY <3>1 DEF IInv, Items
    <3>3. QED
      BY <1>5, <2>2, <3>2
  <2>3. QED
    BY <2>1, <2>2
<1>10. QED
  BY <1>7, <1>8, <1>9 DEF Items

-----------------------------------------------------------------------------
(* The invariant, for the three ways of a step that does not change the flag. *)
LEMMA SwapStep ==
    ASSUME IInv, GenType', NEW t \in Thread, NEW f, Swapped(t, f), GoesOn(t, f), OwnDelegate(t),
           f.pc \notin {"delegate", "closing"}, UNCHANGED <<exc_info, previous_item>>,
           \/ Started(t, f) /\ is_running' = is_running
           \/ /\ f.op # "body" /\ Top(t).pc = "start" /\ f.pc # "start" /\ is_running[f.gen] = 0
              /\ is_running' = [is_running EXCEPT ![f.gen] = 1]
    PROVE  IInv'
<1>1. Linked' /\ Delegates' /\ Items'
  BY LinkedSwap, DelegatesSwap, ItemsSwap
<1>2. /\ GenType /\ Running /\ Len(stack[t]) \in Nat /\ f.gen \in Gen
  BY TopFacts DEF IInv, GoesOn, Activation, Swapped
<1>3. Running'
  <2>1. CASE Started(t, f) /\ is_running' = is_running
    BY <1>2, <2>1, InsideSwap, RunningSame
  <2>2. CASE /\ f.op # "body" /\ Top(t).pc = "start" /\ f.pc # "start" /\ is_running[f.gen] = 0
             /\ is_running' = [is_running EXCEPT ![f.gen] = 1]
    <3>1. NowInside(t, Len(stack[t]), f.gen)
      BY <1>2, <2>2, InsideSwap
    <3>2. QED
      BY <1>2, <2>2, <3>1, RunningSet
  <2>3. QED
    BY <2>1, <2>2
<1>4. QED
  BY <1>1, <1>3 DEF IInv

LEMMA PushStep ==
    ASSUME IInv, GenType', NEW t \in Thread, NEW f, NEW h \in Activation, Pushed(t, f, h), GoesOn(t, f), OwnDelegate(t),
           FrameOK(h), Calling(f, h), h.pc = "start", Started(t, f), is_running' = is_running,
           f.pc \in {"delegate", "closing"} => yieldfrom'[f.gen] = f.of,
           \/ h.op # "body" /\ UNCHANGED <<exc_info, previous_item>>
           \/ /\ h.op = "body" /\ \A u \in Thread : \A i \in Nat : ~BodyAt(stack[u], i, h.gen)
              /\ previous_item' = [previous_item EXCEPT ![h.gen] = exc_info[t]]
              /\ exc_info' = [exc_info EXCEPT ![t] = h.gen]
    PROVE  IInv'
<1>1. Linked' /\ Delegates'
  BY LinkedPush, DelegatesPush
<1>2. h.gen \in Gen
  BY DEF Activation
<1>3. Items'
  BY <1>2, ItemsPush
<1>4. Running'
  BY InsidePush, RunningSame DEF IInv
<1>5. QED
  BY <1>1, <1>3, <1>4 DEF IInv

LEMMA PopStep ==
    ASSUME IInv, GenType', NEW t \in Thread, Popped(t), OwnDelegate(t),
           \/ Top(t).op # "body" /\ UNCHANGED <<exc_info, previous_item>>
           \/ /\ Top(t).op = "body"
              /\ previous_item' = [previous_item EXCEPT ![Top(t).gen] = NoGen]
              /\ exc_info' = [exc_info EXCEPT ![t] = previous_item[Top(t).gen]],
           \/ (Top(t).op = "body" \/ Top(t).pc = "start") /\ is_running' = is_running
           \/ /\ Top(t).op # "body" /\ Top(t).pc # "start"
              /\ is_running' = [is_running EXCEPT ![Top(t).gen] = 0]
    PROVE  IInv'
<1>1. Linked' /\ Delegates' /\ Items'
  BY LinkedPop, DelegatesPop, ItemsPop
<1>2. /\ GenType /\ Running /\ Len(stack[t]) \in Nat \ {0} /\ Top(t).gen \in Gen /\ Top(t) = stack[t][Len(stack[t])]
  BY TopFacts DEF IInv, Activation, Popped
<1>3. \A u \in Thread, i \in Nat, g \in Gen :
         InsideAt(stack'[u], i, g) <=> InsideAt(stack[u], i, g) /\ ~(u = t /\ i = Len(stack[t]))
  BY <1>2, InsidePop
<1>4. Running'
  <2>1. CASE (Top(t).op = "body" \/ Top(t).pc = "start") /\ is_running' = is_running
    <3>1. \A g \in Gen : ~InsideAt(stack[t], Len(stack[t]), g)
      BY <1>2, <2>1 DEF InsideAt
    <3>2. \A u \in Thread, i \in Nat, g \in Gen : InsideAt(stack'[u], i, g) <=> InsideAt(stack[u], i, g)
      BY <1>3, <3>1
    <3>3. QED
      BY <1>2, <2>1, <3>2, RunningSame
  <2>2. CASE /\ Top(t).op # "body" /\ Top(t).pc # "start"
             /\ is_running' = [is_running EXCEPT ![Top(t).gen] = 0]
    <3>1. InsideAt(stack[t], Len(stack[t]), Top(t).gen)
      BY <1>2, <2>2 DEF InsideAt
    <3>2. QED
      BY <1>2, <1>3, <2>2, <3>1, RunningReset
  <2>3. QED
    BY <2>1, <2>2
<1>5. QED
  BY <1>1, <1>4 DEF IInv

-----------------------------------------------------------------------------
USE GeneratorAssumption

LEMMA OutcomeTypes ==
    /\ Nothing \in Outcome /\ Yielded \in Outcome
    /\ \A v \in Value : Returned(v) \in Outcome
    /\ \A e \in Errors : Raised(e) \in Outcome
<1>1. Nothing \in Outcome /\ Yielded \in Outcome
  BY DEF Outcome, Nothing, Yielded, Value
<1>2. \A v \in Value : Returned(v) \in Outcome
  BY DEF Outcome, Returned, Value
<1>3. \A e \in Errors : Raised(e) \in Outcome
  BY DEF Outcome, Raised
<1>4. QED
  BY <1>1, <1>2, <1>3

LEMMA FrameType ==
    ASSUME NEW op \in Op, NEW g \in Gen, NEW arg \in Outcome, arg = Raised("StopIteration") => op \in {"throw", "body"}
    PROVE  Frame(op, g, arg) \in Activation /\ FrameOK(Frame(op, g, arg))
  BY DEF Frame, Activation, Op, Pc, FrameOK

LEMMA PassOnType ==
    ASSUME NEW f \in Activation, NEW pc \in {"delegate", "closing", "body"}, NEW of \in Gen \cup {NoGen}, f.op # "body",
           pc = "delegate" => of # NoGen /\ f.op # "close"
    PROVE  /\ PassOn(f, pc, of) \in Activation /\ FrameOK(PassOn(f, pc, of))
           /\ PassOn(f, pc, of).op = f.op /\ PassOn(f, pc, of).gen = f.gen
           /\ PassOn(f, pc, of).pc = pc /\ PassOn(f, pc, of).of = of
<1>1. Nothing \in Outcome /\ Nothing # Raised("StopIteration")
  BY OutcomeTypes DEF Nothing, Raised
<1>2. QED
  BY <1>1 DEF PassOn, Activation, Op, Pc, FrameOK

(* SendEx calls the body of the object on top, which is inside one of its methods.     *)
LEMMA SendExStep ==
    ASSUME IInv, NEW t \in Thread, stack[t] # <<>>, Top(t).op # "body", Top(t).pc # "start",
           NEW input \in Outcome, SendEx(t, Top(t), input), OwnDelegate(t),
           yieldfrom' \in [Gen -> Gen \cup {NoGen}], UNCHANGED <<resume_label, is_running>>
    PROVE  IInv'
<1>1. /\ GenType /\ Len(stack[t]) \in Nat \ {0} /\ Top(t) = stack[t][Len(stack[t])]
      /\ Top(t) \in Activation /\ Top(t).gen \in Gen
  BY TopFacts DEF IInv, Activation
<1> DEFINE f == PassOn(Top(t), "body", NoGen)
<1>2. /\ f \in Activation /\ FrameOK(f) /\ f.op = Top(t).op /\ f.gen = Top(t).gen /\ f.pc = "body"
  BY <1>1, PassOnType
<1>3. GoesOn(t, f) /\ Started(t, f)
  BY <1>2 DEF GoesOn, Started
<1>4. CASE /\ resume_label[Top(t).gen] = "done"
           /\ Replace(t, f, AlreadyTerminatedError(Top(t), input))
           /\ UNCHANGED <<previous_item, exc_info>>
  <2>1. AlreadyTerminatedError(Top(t), input) \in Outcome
    BY OutcomeTypes DEF AlreadyTerminatedError, Errors
  <2>2. stack' \in [Thread -> Seq(Activation)] /\ ret' \in [Thread -> Outcome] /\ Swapped(t, f)
    BY <1>1, <1>2, <1>4, <2>1, ReplaceFacts DEF Swapped
  <2>3. GenType'
    BY <1>1, <1>4, <2>2 DEF GenType
  <2>4. QED
    BY <1>2, <1>3, <1>4, <2>2, <2>3, SwapStep
<1>5. CASE /\ resume_label[Top(t).gen] # "done"
           /\ Push(t, f, Frame("body", Top(t).gen, input))
           /\ previous_item' = [previous_item EXCEPT ![Top(t).gen] = exc_info[t]]
           /\ exc_info' = [exc_info EXCEPT ![t] = Top(t).gen]
  <2> DEFINE h == Frame("body", Top(t).gen, input)
  <2>1. h \in Activation /\ FrameOK(h) /\ h.pc = "start" /\ h.op = "body" /\ h.gen = Top(t).gen
    BY <1>1, FrameType DEF Op, Frame
  <2>2. stack' \in [Thread -> Seq(Activation)] /\ ret' \in [Thread -> Outcome] /\ Pushed(t, f, h)
    BY <1>1, <1>2, <1>5, <2>1, PushFacts DEF Pushed
  <2>3. GenType'
    BY <1>1, <1>5, <2>2 DEF GenType
  <2>4. ASSUME NEW u \in Thread, NEW i \in Nat, BodyAt(stack[u], i, Top(t).gen) PROVE FALSE
    <3>1. InsideAt(stack[t], Len(stack[t]), Top(t).gen)
      BY <1>1 DEF InsideAt
    <3>2. u = t /\ Len(stack[t]) = i - 1
      BY <1>1, <2>4, <3>1, BodyOnce
    <3>3. QED
      BY <1>1, <2>4, <3>2 DEF BodyAt
  <2>5. Calling(f, h)
    BY <1>2, <2>1 DEF Calling
  <2>6. QED
    BY <1>2, <1>3, <1>5, <2>1, <2>2, <2>3, <2>4, <2>5, PushStep
<1>6. QED
  BY <1>4, <1>5 DEF SendEx

(* What the invariant says of the activation on top.                          *)
LEMMA TopOK ==
    ASSUME IInv, NEW t \in Thread, stack[t] # <<>>
    PROVE  /\ Top(t) \in Activation /\ Top(t).gen \in Gen /\ Top(t).arg \in Outcome
           /\ Top(t).op \in Op /\ Top(t).of \in Gen \cup {NoGen} /\ FrameOK(Top(t)) /\ ret[t] \in Outcome
<1>1. /\ GenType /\ Len(stack[t]) \in Nat \ {0} /\ Top(t) = stack[t][Len(stack[t])] /\ Top(t) \in Activation
  BY TopFacts DEF IInv
<1>2. Len(stack[t]) \in 1..Len(stack[t])
  BY <1>1
<1>3. QED
  BY <1>1, <1>2 DEF IInv, Linked, Activation, GenType

(* A body is left: it yields, it ends, or it never begins.                         *)
LEMMA LeaveBodyStep ==
    ASSUME IInv, NEW t \in Thread, stack[t] # <<>>, Top(t).op = "body",
           NEW label \in {"paused", "done"}, NEW r \in Outcome, LeaveBody(t, label, r), OwnDelegate(t),
           yieldfrom' \in [Gen -> Gen \cup {NoGen}], UNCHANGED is_running
    PROVE  IInv'
<1>1. GenType /\ Top(t).gen \in Gen
  BY TopOK DEF IInv
<1>2. stack' \in [Thread -> Seq(Activation)] /\ ret' \in [Thread -> Outcome] /\ Popped(t)
  BY <1>1, PopFacts DEF LeaveBody, Popped
<1>3. GenType'
  <2>1. resume_label' \in [Gen -> {"fresh", "paused", "done"}]
    BY <1>1 DEF LeaveBody, GenType
  <2>2. previous_item' \in [Gen -> Gen \cup {NoGen}] /\ exc_info' \in [Thread -> Gen \cup {NoGen}]
    BY <1>1 DEF LeaveBody, GenType
  <2>3. QED
    BY <1>1, <1>2, <2>1, <2>2 DEF GenType
<1>4. QED
  BY <1>2, <1>3, PopStep DEF LeaveBody

(* Leaving a body for good, or after the error that replaces StopIteration.   *)
LEMMA ExitBodyStep ==
    ASSUME IInv, NEW t \in Thread, stack[t] # <<>>, Top(t).op = "body",
           NEW r \in Outcome, r.k = "error" => r.x \in Errors, ExitBody(t, r), UNCHANGED is_running
    PROVE  IInv'
<1>1. /\ GenType /\ Top(t).gen \in Gen
  BY TopOK DEF IInv
<1> DEFINE a == IF r.k = "error" THEN Raised(Replace_StopIteration(r.x)) ELSE r
<1>2. a \in Outcome
  <2>1. r.x \in Errors => Replace_StopIteration(r.x) \in Errors
    BY DEF Replace_StopIteration, Errors
  <2>2. QED
    BY <2>1, OutcomeTypes
<1>3. yieldfrom' = [yieldfrom EXCEPT ![Top(t).gen] = NoGen]
  BY DEF ExitBody
<1>4. yieldfrom' \in [Gen -> Gen \cup {NoGen}] /\ OwnDelegate(t)
  BY <1>1, <1>3 DEF GenType, OwnDelegate
<1>5. LeaveBody(t, "done", a)
  BY DEF ExitBody
<1>6. QED
  BY <1>2, <1>4, <1>5, LeaveBodyStep

LEMMA CallTypes ==
    ASSUME NEW c \in Calls
    PROVE  /\ c.op \in {"send", "throw", "close"} /\ c.gen \in Gen /\ c.arg \in Outcome
           /\ c.arg = Raised("StopIteration") => c.op = "throw"
<1>1. CASE c \in [op : {"send"}, gen : Gen, arg : {Returned(v) : v \in Value}]
  BY <1>1, OutcomeTypes DEF Returned, Raised
<1>2. CASE c \in [op : {"throw"}, gen : Gen, arg : {Raised(e) : e \in Thrown}]
  BY <1>2, OutcomeTypes DEF Errors
<1>3. CASE c \in [op : {"close"}, gen : Gen, arg : {Raised("GeneratorExit")}]
  <2>1. Raised("GeneratorExit") \in Outcome
    BY OutcomeTypes DEF Errors
  <2>2. Raised("GeneratorExit") # Raised("StopIteration")
    BY DEF Raised
  <2>3. QED
    BY <1>3, <2>1, <2>2
<1>4. QED
  BY <1>1, <1>2, <1>3 DEF Calls

-----------------------------------------------------------------------------
(* Nobody has called anything.                                                *)
LEMMA InitIInv == Init => IInv
<1> SUFFICES ASSUME Init PROVE IInv
  OBVIOUS
<1>1. Nothing \in Outcome
  BY OutcomeTypes
<1>2. \A t \in Thread : stack[t] = <<>> /\ Len(stack[t]) = 0 /\ exc_info[t] = NoGen
  BY DEF Init
<1>3. GenType
  <2>1. stack \in [Thread -> Seq(Activation)]
    BY DEF Init
  <2>2. ret \in [Thread -> Outcome]
    BY <1>1 DEF Init
  <2>3. QED
    BY <2>1, <2>2 DEF Init, GenType
<1>4. Linked /\ Delegates
  BY <1>2 DEF Linked, Delegates
<1>5. Running
  BY <1>2 DEF Running, InsideAt, Init
<1>6. Items
  BY <1>2 DEF Items, LastBody, Init
<1>7. QED
  BY <1>3, <1>4, <1>5, <1>6 DEF IInv

(* One step for every action.                                                 *)
LEMMA NextIInv == IInv /\ [Next]_vars => IInv'
<1> SUFFICES ASSUME IInv, [Next]_vars PROVE IInv'
  OBVIOUS
<1>0. GenType
  BY DEF IInv
<1>1. ASSUME NEW t \in Thread, CallFromOutside(t) PROVE IInv'
  <2>1. PICK c \in Calls : stack' = [stack EXCEPT ![t] = <<Frame(c.op, c.gen, c.arg)>>]
    BY <1>1 DEF CallFromOutside
  <2> DEFINE h == Frame(c.op, c.gen, c.arg)
  <2>2. h \in Activation /\ FrameOK(h) /\ h.pc = "start" /\ h.op # "body"
    <3>1. c.op \in Op /\ c.op # "body"
      BY CallTypes DEF Op
    <3>2. QED
      BY <3>1, CallTypes, FrameType DEF Frame
  <2>3. /\ stack[t] = <<>> /\ Len(stack[t]) = 0
        /\ stack'[t] = <<h>> /\ Len(stack'[t]) = 1 /\ stack'[t][1] = h
        /\ \A u \in Thread \ {t} : stack'[u] = stack[u]
        /\ UNCHANGED <<resume_label, is_running, yieldfrom, previous_item, exc_info>>
    BY <1>0, <1>1, <2>1 DEF CallFromOutside, GenType, object
  <2>4. GenType'
    <3>1. <<h>> \in Seq(Activation)
      BY <2>2
    <3>2. stack' \in [Thread -> Seq(Activation)]
      BY <1>0, <2>1, <3>1 DEF GenType
    <3>3. ret' \in [Thread -> Outcome]
      BY <1>0, <1>1, OutcomeTypes DEF GenType, CallFromOutside
    <3>4. QED
      BY <1>0, <2>3, <3>2, <3>3 DEF GenType
  <2> HIDE DEF h
  <2>5. Linked'
    BY <2>2, <2>3 DEF IInv, Linked
  <2>6. Delegates'
    BY <2>2, <2>3 DEF IInv, Delegates
  <2>7. \A u \in Thread, i \in Nat, g \in Gen : InsideAt(stack'[u], i, g) <=> InsideAt(stack[u], i, g)
    BY <2>2, <2>3 DEF InsideAt
  <2>8. Running'
    BY <2>3, <2>7, RunningSame DEF IInv
  <2>9. Items'
    <3>1. LastBody(stack[t], 0, exc_info[t])
      BY <2>3 DEF IInv, Items
    <3>2. exc_info[t] = NoGen
      BY <3>1 DEF LastBody
    <3>3. LastBody(stack'[t], 1, NoGen)
      BY <2>2, <2>3 DEF LastBody
    <3>4. \A u \in Thread, i \in Nat, g \in Gen : BodyAt(stack'[u], i, g) <=> BodyAt(stack[u], i, g)
      BY <2>2, <2>3 DEF BodyAt
    <3>5. ASSUME NEW u \in Thread PROVE LastBody(stack'[u], Len(stack'[u]), exc_info'[u])
      BY <2>3, <3>2, <3>3 DEF IInv, Items
    <3>6. ASSUME NEW u \in Thread, NEW i \in 1..Len(stack'[u]), stack'[u][i].op = "body"
          PROVE  LastBody(stack'[u], i - 1, previous_item'[stack'[u][i].gen])
      BY <2>2, <2>3, <3>6 DEF IInv, Items
    <3>7. ASSUME NEW g \in Gen, \A u \in Thread : \A i \in Nat : ~BodyAt(stack'[u], i, g)
          PROVE  previous_item'[g] = NoGen
      BY <2>3, <3>4, <3>7 DEF IInv, Items
    <3>8. QED
      BY <3>5, <3>6, <3>7 DEF Items
  <2>10. QED
    BY <2>4, <2>5, <2>6, <2>8, <2>9 DEF IInv
<1>2. ASSUME NEW t \in Thread, TestAndSet(t) PROVE IInv'
  <2>1. stack[t] # <<>> /\ Top(t).pc = "start" /\ Top(t).op # "body" /\ OwnDelegate(t)
    BY <1>2 DEF TestAndSet, At, OwnDelegate
  <2>2. CASE Pop(t, Raised("already executing")) /\ UNCHANGED is_running
    <3>1. stack' \in [Thread -> Seq(Activation)] /\ ret' \in [Thread -> Outcome] /\ Popped(t)
      BY <1>0, <2>1, <2>2, PopFacts, OutcomeTypes DEF Popped, Errors
    <3>2. GenType'
      BY <1>0, <1>2, <2>2, <3>1 DEF GenType, TestAndSet
    <3>3. QED
      BY <1>2, <2>1, <2>2, <3>1, <3>2, PopStep DEF TestAndSet
  <2>3. CASE /\ is_running[Top(t).gen] = 0
             /\ is_running' = [is_running EXCEPT ![Top(t).gen] = 1]
             /\ Replace(t, [Top(t) EXCEPT !.pc = "switch"], Nothing)
    <3> DEFINE f == [Top(t) EXCEPT !.pc = "switch"]
    <3>1. f \in Activation /\ f.op = Top(t).op /\ f.gen = Top(t).gen /\ f.pc = "switch" /\ FrameOK(f)
      BY <2>1, TopOK DEF Activation, Pc, FrameOK
    <3>2. stack' \in [Thread -> Seq(Activation)] /\ ret' \in [Thread -> Outcome] /\ Swapped(t, f)
      BY <1>0, <2>1, <2>3, <3>1, ReplaceFacts, OutcomeTypes DEF Swapped
    <3>3. GenType'
      BY <1>0, <1>2, <2>3, <3>2 DEF GenType, TestAndSet
    <3> HIDE DEF f
    <3>4. QED
      BY <1>2, <2>1, <2>3, <3>1, <3>2, <3>3, SwapStep DEF TestAndSet, GoesOn
  <2>4. QED
    BY <1>2, <2>2, <2>3 DEF TestAndSet
<1>3. ASSUME NEW t \in Thread, Switch(t) PROVE IInv'
  <2>1. /\ stack[t] # <<>> /\ Top(t).pc = "switch" /\ Top(t).op # "body" /\ OwnDelegate(t)
        /\ UNCHANGED <<resume_label, is_running, yieldfrom>>
    BY <1>3, TopOK DEF Switch, At, OwnDelegate, FrameOK
  <2> DEFINE yf == yieldfrom[Top(t).gen]
  <2>2. CASE SendEx(t, Top(t), Top(t).arg)
    BY <1>0, <2>1, <2>2, SendExStep, TopOK DEF GenType
  <2>3. ASSUME NEW pc \in {"delegate", "closing"}, NEW op \in {"send", "throw", "close"}, NEW arg \in Outcome,
               pc = "closing" => op = "close", arg = Raised("StopIteration") => op = "throw", yf # NoGen,
               pc = "delegate" => Top(t).op # "close",
               Push(t, PassOn(Top(t), pc, yf), Frame(op, yf, arg)), UNCHANGED <<previous_item, exc_info>>
        PROVE  IInv'
    <3> DEFINE f == PassOn(Top(t), pc, yf)
    <3> DEFINE h == Frame(op, yf, arg)
    <3>1. Top(t).gen \in Gen /\ yf \in Gen /\ Top(t) \in Activation
      BY <1>0, <2>1, <2>3, TopOK DEF GenType
    <3>2. /\ f \in Activation /\ FrameOK(f) /\ f.op = Top(t).op /\ f.gen = Top(t).gen /\ f.pc = pc /\ f.of = yf
      BY <2>1, <2>3, <3>1, PassOnType
    <3>3. h \in Activation /\ FrameOK(h) /\ h.pc = "start" /\ h.op = op /\ h.gen = yf
      BY <2>3, <3>1, FrameType DEF Frame, Op
    <3>4. stack' \in [Thread -> Seq(Activation)] /\ ret' \in [Thread -> Outcome] /\ Pushed(t, f, h)
      BY <1>0, <2>1, <2>3, <3>2, <3>3, PushFacts DEF Pushed
    <3>5. GenType'
      BY <1>0, <2>1, <2>3, <3>4 DEF GenType
    <3>6. Calling(f, h) /\ GoesOn(t, f) /\ Started(t, f)
      BY <2>1, <2>3, <3>2, <3>3 DEF Calling, GoesOn, Started
    <3>7. yieldfrom'[f.gen] = f.of
      BY <2>1, <3>2
    <3> HIDE DEF f, h
    <3>8. QED
      BY <2>1, <2>3, <3>2, <3>3, <3>4, <3>5, <3>6, <3>7, PushStep
  <2>4. /\ Raised("GeneratorExit") \in Outcome /\ Top(t).arg \in Outcome /\ Top(t).op \in {"send", "throw", "close"}
        /\ Raised("GeneratorExit") # Raised("StopIteration")
        /\ Top(t).arg = Raised("StopIteration") => Top(t).op = "throw"
    BY <2>1, OutcomeTypes, TopOK DEF Errors, Op, Raised, FrameOK
  <2>5. QED
    BY <1>3, <2>2, <2>3, <2>4 DEF Switch
<1>4. ASSUME NEW t \in Thread, ReturnFromDelegate(t) PROVE IInv'
  <2>1. stack[t] # <<>> /\ Top(t).pc = "delegate" /\ Top(t).op # "body"
    BY <1>4, TopOK DEF ReturnFromDelegate, At, FrameOK
  <2>2. CASE ret[t] = Yielded
    <3>1. /\ is_running' = [is_running EXCEPT ![Top(t).gen] = 0] /\ Pop(t, Yielded)
          /\ UNCHANGED <<resume_label, yieldfrom, previous_item, exc_info>>
      BY <1>4, <2>2 DEF ReturnFromDelegate
    <3>2. stack' \in [Thread -> Seq(Activation)] /\ ret' \in [Thread -> Outcome] /\ Popped(t)
      BY <1>0, <2>1, <3>1, PopFacts, OutcomeTypes DEF Popped
    <3>3. GenType' /\ OwnDelegate(t)
      BY <1>0, <3>1, <3>2 DEF GenType, OwnDelegate
    <3>4. QED
      BY <2>1, <3>1, <3>2, <3>3, PopStep
  <2>3. CASE ret[t] # Yielded
    <3>1. /\ yieldfrom' = [yieldfrom EXCEPT ![Top(t).gen] = NoGen]
          /\ SendEx(t, Top(t), Finished(Top(t).op, ret[t])) /\ UNCHANGED <<resume_label, is_running>>
      BY <1>4, <2>3 DEF ReturnFromDelegate
    <3>2. OwnDelegate(t) /\ yieldfrom' \in [Gen -> Gen \cup {NoGen}]
      BY <1>0, <2>1, <3>1, TopOK DEF OwnDelegate, GenType
    <3>3. Finished(Top(t).op, ret[t]) \in Outcome
      BY <2>1, TopOK, OutcomeTypes DEF Finished, Value
    <3>4. QED
      BY <2>1, <3>1, <3>2, <3>3, SendExStep
  <2>4. QED
    BY <2>2, <2>3
<1>5. ASSUME NEW t \in Thread, ReturnFromCloseIter(t) PROVE IInv'
  <2>1. stack[t] # <<>> /\ Top(t).pc = "closing" /\ Top(t).op # "body"
    BY <1>5, TopOK DEF ReturnFromCloseIter, At, FrameOK
  <2> DEFINE input == IF ret[t].k = "error" THEN ret[t] ELSE Raised("GeneratorExit")
  <2>2. input \in Outcome
    BY <2>1, TopOK, OutcomeTypes DEF Errors
  <2>3. /\ yieldfrom' = [yieldfrom EXCEPT ![Top(t).gen] = NoGen]
        /\ SendEx(t, Top(t), input) /\ UNCHANGED <<resume_label, is_running>>
    BY <1>5 DEF ReturnFromCloseIter
  <2>4. OwnDelegate(t) /\ yieldfrom' \in [Gen -> Gen \cup {NoGen}]
    BY <1>0, <2>1, <2>3, TopOK DEF OwnDelegate, GenType
  <2> HIDE DEF input
  <2>5. QED
    BY <2>1, <2>2, <2>3, <2>4, SendExStep
<1>6. ASSUME NEW t \in Thread, ReturnFromBody(t) PROVE IInv'
  <2>1. /\ stack[t] # <<>> /\ Top(t).pc = "body" /\ Top(t).op # "body" /\ OwnDelegate(t)
        /\ is_running' = [is_running EXCEPT ![Top(t).gen] = 0]
        /\ UNCHANGED <<resume_label, yieldfrom, previous_item, exc_info>>
    BY <1>6, TopOK DEF ReturnFromBody, At, FrameOK, OwnDelegate
  <2> DEFINE r == IF Top(t).op = "close" THEN CloseOutcome(ret[t]) ELSE ret[t]
  <2>2. r \in Outcome
    BY <2>1, TopOK, OutcomeTypes DEF CloseOutcome, Value, Errors
  <2>3. stack' \in [Thread -> Seq(Activation)] /\ ret' \in [Thread -> Outcome] /\ Popped(t)
    BY <1>0, <1>6, <2>1, <2>2, PopFacts DEF Popped, ReturnFromBody
  <2>4. GenType'
    BY <1>0, <2>1, <2>3 DEF GenType
  <2>5. QED
    BY <2>1, <2>3, <2>4, PopStep
<1>7. ASSUME NEW t \in Thread, ResumeBody(t) PROVE IInv'
  <2>1. stack[t] # <<>> /\ Top(t).pc = "start" /\ Top(t).op = "body" /\ UNCHANGED is_running
    BY <1>7 DEF ResumeBody, At
  <2>2. CASE /\ Replace(t, [Top(t) EXCEPT !.pc = "code", !.arg = Nothing], Nothing)
             /\ UNCHANGED <<resume_label, yieldfrom, previous_item, exc_info>>
    <3> DEFINE f == [Top(t) EXCEPT !.pc = "code", !.arg = Nothing]
    <3>1. f \in Activation /\ f.op = Top(t).op /\ f.gen = Top(t).gen /\ f.pc = "code" /\ FrameOK(f)
      BY <2>1, TopOK, OutcomeTypes DEF Activation, Pc, FrameOK
    <3>2. stack' \in [Thread -> Seq(Activation)] /\ ret' \in [Thread -> Outcome] /\ Swapped(t, f)
      BY <1>0, <2>1, <2>2, <3>1, ReplaceFacts, OutcomeTypes DEF Swapped
    <3>3. GenType' /\ OwnDelegate(t)
      BY <1>0, <2>1, <2>2, <3>2 DEF GenType, OwnDelegate
    <3> HIDE DEF f
    <3>4. QED
      BY <2>1, <2>2, <3>1, <3>2, <3>3, SwapStep DEF GoesOn, Started
  <2>3. CASE ExitBody(t, IF Top(t).arg.k = "error" THEN Top(t).arg ELSE Raised("non-None to fresh"))
    <3>1. ASSUME Top(t).arg.k = "error", ExitBody(t, Top(t).arg) PROVE IInv'
      <4>1. Top(t).arg \in Outcome
        BY <2>1, TopOK
      <4>2. Top(t).arg.x \in Errors
        BY <3>1, <4>1 DEF Outcome
      <4>3. QED
        BY <2>1, <3>1, <4>1, <4>2, ExitBodyStep
    <3>2. ASSUME ExitBody(t, Raised("non-None to fresh")) PROVE IInv'
      <4>1. "non-None to fresh" \in Errors
        BY DEF Errors
      <4>2. QED
        BY <2>1, <3>2, <4>1, OutcomeTypes, ExitBodyStep DEF Raised
    <3>3. QED
      BY <2>3, <3>1, <3>2
  <2>4. QED
    BY <1>7, <2>2, <2>3 DEF ResumeBody
<1>8. ASSUME NEW t \in Thread, YieldValue(t) PROVE IInv'
  <2>1. /\ stack[t] # <<>> /\ Top(t).op = "body" /\ OwnDelegate(t) /\ LeaveBody(t, "paused", Yielded)
        /\ UNCHANGED <<is_running, yieldfrom>>
    BY <1>8, TopOK DEF YieldValue, InCode, At, OwnDelegate, FrameOK
  <2>2. QED
    BY <1>0, <2>1, OutcomeTypes, LeaveBodyStep DEF GenType
<1>9. ASSUME NEW t \in Thread, EndBody(t) PROVE IInv'
  <2>1. stack[t] # <<>> /\ Top(t).op = "body" /\ UNCHANGED is_running
    BY <1>9, TopOK DEF EndBody, InCode, At, FrameOK
  <2>2. PICK r \in {Returned(v) : v \in Value} \cup {Raised(e) : e \in Uncaught} : ExitBody(t, r)
    BY <1>9 DEF EndBody
  <2>3. r \in Outcome /\ (r.k = "error" => r.x \in Errors)
    <3>1. CASE \E v \in Value : r = Returned(v)
      BY <3>1, OutcomeTypes DEF Returned
    <3>2. CASE \E e \in Uncaught : r = Raised(e)
      <4>1. PICK e \in Uncaught : r = Raised(e)
        BY <3>2
      <4>2. e \in Errors /\ r.x = e
        BY <4>1 DEF Errors, Raised
      <4>3. QED
        BY <4>1, <4>2, OutcomeTypes
    <3>3. QED
      BY <3>1, <3>2
  <2>4. QED
    BY <2>1, <2>2, <2>3, ExitBodyStep
<1>10. ASSUME NEW t \in Thread, InCode(t), NEW pc \in {"call", "yieldfrom"}, NEW of \in Gen \cup {NoGen},
              NEW op \in {"send", "throw", "close"}, NEW g \in Gen, NEW arg \in Outcome,
              arg = Raised("StopIteration") => op = "throw",
              NEW f, f = [Top(t) EXCEPT !.pc = pc, !.of = of], Push(t, f, Frame(op, g, arg)),
              UNCHANGED <<object, exc_info>>
       PROVE  IInv'
  <2>1. /\ stack[t] # <<>> /\ Top(t).op = "body" /\ OwnDelegate(t)
        /\ UNCHANGED <<resume_label, is_running, yieldfrom, previous_item, exc_info>>
    BY <1>10, TopOK DEF InCode, At, OwnDelegate, FrameOK, object
  <2> DEFINE h == Frame(op, g, arg)
  <2>2. f \in Activation /\ f.op = Top(t).op /\ f.gen = Top(t).gen /\ f.pc = pc /\ FrameOK(f)
    BY <1>10, <2>1, TopOK DEF Activation, Pc, FrameOK
  <2>3. h \in Activation /\ FrameOK(h) /\ h.pc = "start" /\ h.op = op
    BY <1>10, FrameType DEF Frame, Op
  <2>4. stack' \in [Thread -> Seq(Activation)] /\ ret' \in [Thread -> Outcome] /\ Pushed(t, f, h)
    BY <1>0, <1>10, <2>1, <2>2, <2>3, PushFacts DEF Pushed
  <2>5. GenType'
    BY <1>0, <2>1, <2>4 DEF GenType
  <2>6. Calling(f, h) /\ GoesOn(t, f) /\ Started(t, f)
    BY <2>1, <2>2, <2>3 DEF Calling, GoesOn, Started
  <2> HIDE DEF h
  <2>7. QED
    BY <2>1, <2>2, <2>3, <2>4, <2>5, <2>6, PushStep
<1>11. ASSUME NEW t \in Thread, CallFromBody(t) PROVE IInv'
  <2>1. PICK c \in Calls : Push(t, [Top(t) EXCEPT !.pc = "call"], Frame(c.op, c.gen, c.arg))
    BY <1>11 DEF CallFromBody
  <2>2. Top(t) \in Activation
    BY <1>11, TopOK DEF CallFromBody, InCode, At
  <2>3. [Top(t) EXCEPT !.pc = "call"] = [Top(t) EXCEPT !.pc = "call", !.of = Top(t).of] /\ Top(t).of \in Gen \cup {NoGen}
    BY <2>2 DEF Activation
  <2>4. QED
    BY <1>10, <1>11, <2>1, <2>3, CallTypes DEF CallFromBody
<1>12. ASSUME NEW t \in Thread, Yield_From(t) PROVE IInv'
  <2>1. PICK s \in Gen : Push(t, [Top(t) EXCEPT !.pc = "yieldfrom", !.of = s], Frame("send", s, Returned("None")))
    BY <1>12 DEF Yield_From
  <2>2. Returned("None") \in Outcome /\ Returned("None") # Raised("StopIteration")
    BY OutcomeTypes DEF Value, Returned, Raised
  <2>3. QED
    BY <1>10, <1>12, <2>1, <2>2 DEF Yield_From
<1>13. ASSUME NEW t \in Thread, ReturnToCode(t) PROVE IInv'
  <2>1. stack[t] # <<>> /\ Top(t).pc \in {"call", "yieldfrom"} /\ Top(t).op = "body" /\ UNCHANGED is_running
    BY <1>13, TopOK DEF ReturnToCode, At, FrameOK
  <2>2. CASE /\ yieldfrom' = [yieldfrom EXCEPT ![Top(t).gen] = Top(t).of]
             /\ LeaveBody(t, "paused", Yielded)
    <3>1. yieldfrom' \in [Gen -> Gen \cup {NoGen}] /\ OwnDelegate(t)
      BY <1>0, <2>1, <2>2, TopOK DEF GenType, OwnDelegate
    <3>2. QED
      BY <2>1, <2>2, <3>1, OutcomeTypes, LeaveBodyStep
  <2>3. CASE /\ Replace(t, [Top(t) EXCEPT !.pc = "code", !.of = NoGen], Nothing)
             /\ UNCHANGED <<resume_label, yieldfrom, previous_item, exc_info>>
    <3> DEFINE f == [Top(t) EXCEPT !.pc = "code", !.of = NoGen]
    <3>1. f \in Activation /\ f.op = Top(t).op /\ f.gen = Top(t).gen /\ f.pc = "code" /\ FrameOK(f)
      BY <2>1, TopOK DEF Activation, Pc, FrameOK
    <3>2. stack' \in [Thread -> Seq(Activation)] /\ ret' \in [Thread -> Outcome] /\ Swapped(t, f)
      BY <1>0, <2>1, <2>3, <3>1, ReplaceFacts, OutcomeTypes DEF Swapped
    <3>3. GenType' /\ OwnDelegate(t)
      BY <1>0, <2>1, <2>3, <3>2 DEF GenType, OwnDelegate
    <3> HIDE DEF f
    <3>4. QED
      BY <2>1, <2>3, <3>1, <3>2, <3>3, SwapStep DEF GoesOn, Started
  <2>4. QED
    BY <1>13, <2>2, <2>3 DEF ReturnToCode
<1>14. CASE UNCHANGED vars
  <2>1. GenType' /\ Linked' /\ Delegates'
    BY <1>14 DEF vars, IInv, GenType, Linked, Delegates
  <2>2. Running' /\ Items'
    BY <1>14 DEF vars, IInv, Running, Items
  <2>3. QED
    BY <2>1, <2>2 DEF IInv
<1>15. QED
  BY <1>1, <1>2, <1>3, <1>4, <1>5, <1>6, <1>7, <1>8, <1>9, <1>11, <1>12, <1>13, <1>14
     DEF Next, MethodStep, BodyStep

-----------------------------------------------------------------------------
(* In every state reached, on any number of threads.                              *)
THEOREM GeneratorInvariant == Spec => []IInv
<1>1. Init => IInv
  BY InitIInv
<1>2. IInv /\ [Next]_vars => IInv'
  BY NextIInv
<1> QED
  BY <1>1, <1>2, PTL DEF Spec

(* Places are the indices of the stacks.                                      *)
LEMMA PlacesFacts ==
    ASSUME GenType
    PROVE  /\ \A t \in Thread : stack[t] \in Seq(Activation) /\ DOMAIN stack[t] = 1..Len(stack[t]) /\ Len(stack[t]) \in Nat
           /\ \A t \in Thread : \A i \in 1..Len(stack[t]) : <<t, i>> \in Places /\ FrameAt(<<t, i>>) = stack[t][i]
           /\ \A p \in Places : p[1] \in Thread /\ p[2] \in 1..Len(stack[p[1]]) /\ p[2] \in Nat /\ p = <<p[1], p[2]>>
<1>1. ASSUME NEW t \in Thread
      PROVE stack[t] \in Seq(Activation) /\ DOMAIN stack[t] = 1..Len(stack[t]) /\ Len(stack[t]) \in Nat
  <2>1. stack[t] \in Seq(Activation)
    BY DEF GenType
  <2>2. QED
    BY <2>1
<1>2. ASSUME NEW t \in Thread, NEW i \in 1..Len(stack[t])
      PROVE  <<t, i>> \in Places /\ FrameAt(<<t, i>>) = stack[t][i]
  BY <1>1 DEF Places, FrameAt
<1>3. ASSUME NEW p \in Places
      PROVE  p[1] \in Thread /\ p[2] \in 1..Len(stack[p[1]]) /\ p[2] \in Nat /\ p = <<p[1], p[2]>>
  <2>1. PICK t \in Thread : p \in {t} \X DOMAIN stack[t]
    BY DEF Places
  <2>2. QED
    BY <1>1, <2>1
<1>4. QED
  BY <1>1, <1>2, <1>3

(* The flag is set exactly while one activation is past the test.                   *)
THEOREM OneActivationRuns == Spec => []RunningExact
<1>1. IInv => RunningExact
  <2> SUFFICES ASSUME IInv, NEW g \in Gen
               PROVE  Cardinality(Inside(g)) = is_running[g] /\ Cardinality(Bodies(g)) <= is_running[g]
    BY DEF RunningExact
  <2>0. GenType /\ Running /\ is_running[g] \in {0, 1}
    BY DEF IInv, GenType
  <2>1. ASSUME NEW p PROVE p \in Inside(g) <=> p \in Places /\ InsideAt(stack[p[1]], p[2], g)
    BY <2>0, PlacesFacts DEF Inside, InsideAt, FrameAt
  <2>2. ASSUME NEW p PROVE p \in Bodies(g) <=> p \in Places /\ BodyAt(stack[p[1]], p[2], g)
    BY <2>0, PlacesFacts DEF Bodies, BodyAt, FrameAt
  <2>3. Cardinality(Inside(g)) = is_running[g]
    <3>1. CASE is_running[g] = 0
      <4>1. Inside(g) = {}
        BY <2>0, <2>1, <3>1, PlacesFacts DEF Running
      <4>2. QED
        BY <3>1, <4>1, FS_EmptySet
    <3>2. CASE is_running[g] = 1
      <4>1. PICK t \in Thread, i \in Nat : InsideAt(stack[t], i, g)
        BY <2>0, <3>2 DEF Running
      <4>2. <<t, i>> \in Places
        BY <2>0, <4>1, PlacesFacts DEF InsideAt
      <4>3. <<t, i>> \in Inside(g)
        BY <2>1, <4>1, <4>2
      <4>4. ASSUME NEW p \in Inside(g) PROVE p = <<t, i>>
        <5>1. p \in Places /\ InsideAt(stack[p[1]], p[2], g)
          BY <2>1
        <5>2. p[1] \in Thread /\ p[2] \in Nat /\ p = <<p[1], p[2]>>
          BY <2>0, <5>1, PlacesFacts
        <5>3. p[1] = t /\ p[2] = i
          BY <2>0, <4>1, <5>1, <5>2 DEF Running
        <5>4. QED
          BY <5>2, <5>3
      <4>5. Inside(g) = {<<t, i>>}
        BY <4>3, <4>4
      <4>6. QED
        BY <3>2, <4>5, FS_Singleton
    <3>3. QED
      BY <2>0, <3>1, <3>2
  <2>4. Cardinality(Bodies(g)) <= is_running[g]
    <3>1. CASE Bodies(g) = {}
      BY <2>0, <3>1, FS_EmptySet
    <3>2. CASE Bodies(g) # {}
      <4>1. PICK p \in Bodies(g) : TRUE
        BY <3>2
      <4>2. p \in Places /\ BodyAt(stack[p[1]], p[2], g) /\ p[1] \in Thread /\ p[2] \in Nat
        BY <2>0, <2>2, <4>1, PlacesFacts
      <4>3. ASSUME NEW q \in Bodies(g) PROVE q = p
        <5>1. q \in Places /\ BodyAt(stack[q[1]], q[2], g) /\ q[1] \in Thread /\ q[2] \in Nat
          BY <2>0, <2>2, <4>3, PlacesFacts
        <5>2. q[1] = p[1] /\ q[2] = p[2]
          BY <4>2, <5>1, BodyOnce
        <5>3. p = <<p[1], p[2]>> /\ q = <<q[1], q[2]>>
          BY <2>0, <4>2, <5>1, PlacesFacts
        <5>4. QED
          BY <5>2, <5>3
      <4>4. Bodies(g) = {p}
        BY <4>1, <4>3
      <4>5. InsideAt(stack[p[1]], p[2] - 1, g) /\ p[2] - 1 \in Nat
        BY <2>0, <4>2, BodyInside DEF IInv
      <4>6. is_running[g] = 1
        BY <2>0, <4>2, <4>5 DEF Running
      <4>7. QED
        BY <4>4, <4>6, FS_Singleton
    <3>3. QED
      BY <3>1, <3>2
  <2>5. QED
    BY <2>3, <2>4
<1> QED
  BY <1>1, GeneratorInvariant, PTL

(* A delegate that is being called stays the one that is stored.                   *)
THEOREM DelegatesDoNotChange == Spec => []DelegateStable
<1>1. IInv => DelegateStable
  <2> SUFFICES ASSUME IInv, NEW p \in Places, FrameAt(p).pc \in {"delegate", "closing"}
               PROVE  yieldfrom[FrameAt(p).gen] = FrameAt(p).of
    BY DEF DelegateStable
  <2>1. p[1] \in Thread /\ p[2] \in 1..Len(stack[p[1]])
    BY PlacesFacts DEF IInv
  <2>2. QED
    BY <2>1 DEF IInv, Delegates, FrameAt
<1> QED
  BY <1>1, GeneratorInvariant, PTL

(* The handled exceptions of a thread follow the bodies it is in.                  *)
THEOREM ExceptionStackFollowsBodies == Spec => []ExcStackMatchesCalls
<1>1. IInv => ExcStackMatchesCalls
  <2> SUFFICES ASSUME IInv PROVE ExcStackMatchesCalls
    OBVIOUS
  <2>0. GenType /\ Items
    BY DEF IInv
  <2>1. ASSUME NEW p \in Places, FrameAt(p).op = "body"
        PROVE  LastBody(stack[p[1]], p[2] - 1, previous_item[FrameAt(p).gen])
    <3>1. p[1] \in Thread /\ p[2] \in 1..Len(stack[p[1]])
      BY <2>0, PlacesFacts
    <3>2. QED
      BY <2>0, <2>1, <3>1 DEF Items, FrameAt
  <2>2. ASSUME NEW g \in Gen, Bodies(g) = {} PROVE previous_item[g] = NoGen
    <3>1. ASSUME NEW t \in Thread, NEW i \in Nat, BodyAt(stack[t], i, g) PROVE FALSE
      <4>1. i \in 1..Len(stack[t])
        BY <3>1 DEF BodyAt
      <4>2. <<t, i>> \in Places /\ FrameAt(<<t, i>>) = stack[t][i]
        BY <2>0, <4>1, PlacesFacts
      <4>3. <<t, i>> \in Bodies(g)
        BY <3>1, <4>2 DEF Bodies, BodyAt
      <4>4. QED
        BY <2>2, <4>3
    <3>2. QED
      BY <2>0, <3>1 DEF Items
  <2>3. QED
    BY <2>0, <2>1, <2>2 DEF Items, ExcStackMatchesCalls
<1> QED
  BY <1>1, GeneratorInvariant, PTL

-----------------------------------------------------------------------------
(* Only an exhausted object answers the caller of thread u with a new StopIteration.   *)
StopsRightly(u) ==
    GeneratorStop /\ ret'[u] = Raised("StopIteration") /\ ret[u] # ret'[u]
       => resume_label[Top(u).gen] = "done"

(* A step answers one thread only.                                            *)
LEMMA AnswerStops ==
    ASSUME GenType, NEW t \in Thread, NEW r, ret' = [ret EXCEPT ![t] = r],
           r = Raised("StopIteration") => ret[t] = r \/ resume_label[Top(t).gen] = "done",
           NEW u \in Thread
    PROVE  StopsRightly(u)
<1>1. ret'[u] = IF u = t THEN r ELSE ret[u]
  BY DEF GenType
<1>2. QED
  BY <1>1 DEF StopsRightly

(* SendEx answers StopIteration for a generator that is done.                 *)
LEMMA SendExStops ==
    ASSUME GenType, NEW t \in Thread, NEW input, SendEx(t, Top(t), input), NEW u \in Thread
    PROVE  StopsRightly(u)
<1>1. CASE /\ resume_label[Top(t).gen] = "done"
           /\ ret' = [ret EXCEPT ![t] = AlreadyTerminatedError(Top(t), input)]
  BY <1>1, AnswerStops
<1>2. CASE ret' = [ret EXCEPT ![t] = Nothing]
  BY <1>2, AnswerStops DEF Nothing, Raised
<1>3. QED
  BY <1>1, <1>2 DEF SendEx, Replace, Push

(* A body never answers StopIteration: ExitBody replaces it.                  *)
LEMMA LeaveBodyStops ==
    ASSUME GenType, NEW t \in Thread, NEW u \in Thread, NEW r
    PROVE  /\ \A label : LeaveBody(t, label, r) /\ r # Raised("StopIteration") => StopsRightly(u)
           /\ ExitBody(t, r) /\ (r.k = "error" \/ r # Raised("StopIteration")) => StopsRightly(u)
<1>1. ASSUME NEW label, NEW q, LeaveBody(t, label, q), q # Raised("StopIteration") PROVE StopsRightly(u)
  BY <1>1, AnswerStops DEF LeaveBody, Pop
<1>2. GeneratorStop => Raised(Replace_StopIteration(r.x)) # Raised("StopIteration")
  BY DEF Raised, Replace_StopIteration
<1>3. QED
  BY <1>1, <1>2 DEF ExitBody, StopsRightly

(* PEP 479.                                                                    *)
THEOREM StopIterationOfExhausted == Spec => StopIterationOnlyFromExhausted
<1>1. ASSUME IInv, Next, NEW u \in Thread PROVE StopsRightly(u)
  <2>0. GenType /\ Nothing # Raised("StopIteration") /\ Yielded # Raised("StopIteration")
    BY <1>1 DEF IInv, Nothing, Yielded, Raised
  <2>1. ASSUME NEW t \in Thread, NEW r, ret' = [ret EXCEPT ![t] = r], r # Raised("StopIteration")
        PROVE  StopsRightly(u)
    BY <2>0, <2>1, AnswerStops
  <2>2. ASSUME NEW t \in Thread, CallFromOutside(t) PROVE StopsRightly(u)
    BY <2>0, <2>1, <2>2 DEF CallFromOutside
  <2>3. ASSUME NEW t \in Thread, TestAndSet(t) PROVE StopsRightly(u)
    <3>1. Raised("already executing") # Raised("StopIteration")
      BY DEF Raised
    <3>2. QED
      BY <2>0, <2>1, <2>3, <3>1 DEF TestAndSet, Pop, Replace
  <2>4. ASSUME NEW t \in Thread, Switch(t) PROVE StopsRightly(u)
    BY <2>0, <2>1, <2>4, SendExStops DEF Switch, Push
  <2>5. ASSUME NEW t \in Thread, ReturnFromDelegate(t) PROVE StopsRightly(u)
    BY <2>0, <2>1, <2>5, SendExStops DEF ReturnFromDelegate, Pop
  <2>6. ASSUME NEW t \in Thread, ReturnFromCloseIter(t) PROVE StopsRightly(u)
    BY <2>0, <2>6, SendExStops DEF ReturnFromCloseIter
  <2>7. ASSUME NEW t \in Thread, ReturnFromBody(t) PROVE StopsRightly(u)
    <3> DEFINE r == IF Top(t).op = "close" THEN CloseOutcome(ret[t]) ELSE ret[t]
    <3>1. r = Raised("StopIteration") => ret[t] = r
      BY DEF CloseOutcome, Raised, Returned
    <3>2. ret' = [ret EXCEPT ![t] = r]
      BY <2>7 DEF ReturnFromBody, Pop
    <3>3. QED
      BY <2>0, <3>1, <3>2, AnswerStops
  <2>8. ASSUME NEW t \in Thread, ResumeBody(t) PROVE StopsRightly(u)
    <3>1. CASE Replace(t, [Top(t) EXCEPT !.pc = "code", !.arg = Nothing], Nothing)
      BY <2>0, <2>1, <3>1 DEF Replace
    <3>2. CASE Top(t).arg.k = "error" /\ ExitBody(t, Top(t).arg)
      BY <2>0, <3>2, LeaveBodyStops
    <3>3. CASE ExitBody(t, Raised("non-None to fresh"))
      BY <2>0, <3>3, LeaveBodyStops DEF Raised
    <3>4. QED
      BY <2>8, <3>1, <3>2, <3>3 DEF ResumeBody
  <2>9. ASSUME NEW t \in Thread, YieldValue(t) PROVE StopsRightly(u)
    BY <2>0, <2>9, LeaveBodyStops DEF YieldValue
  <2>10. ASSUME NEW t \in Thread, EndBody(t) PROVE StopsRightly(u)
    <3>1. PICK r \in {Returned(v) : v \in Value} \cup {Raised(e) : e \in Uncaught} : ExitBody(t, r)
      BY <2>10 DEF EndBody
    <3>2. r.k = "error" \/ r # Raised("StopIteration")
      BY DEF Returned, Raised
    <3>3. QED
      BY <2>0, <3>1, <3>2, LeaveBodyStops
  <2>11. ASSUME NEW t \in Thread, CallFromBody(t) \/ Yield_From(t) PROVE StopsRightly(u)
    BY <2>0, <2>1, <2>11 DEF CallFromBody, Yield_From, Push
  <2>12. ASSUME NEW t \in Thread, ReturnToCode(t) PROVE StopsRightly(u)
    BY <2>0, <2>1, <2>12, LeaveBodyStops DEF ReturnToCode, Replace
  <2>13. QED
    BY <1>1, <2>2, <2>3, <2>4, <2>5, <2>6, <2>7, <2>8, <2>9, <2>10, <2>11, <2>12
       DEF Next, MethodStep, BodyStep
<1>2. IInv /\ [Next]_vars =>
         [\A t \in Thread :
            GeneratorStop /\ ret'[t] = Raised("StopIteration") /\ ret[t] # ret'[t]
               => resume_label[Top(t).gen] = "done"]_vars
  BY <1>1 DEF StopsRightly
<1> QED
  BY <1>2, GeneratorInvariant, PTL DEF Spec, StopIterationOnlyFromExhausted

-----------------------------------------------------------------------------
(* A generator whose body is on a stack has not ended, and a StopIteration is  *)
(* answered for one that has: to its own method, or to the caller that        *)
(* delegates to it, and never to one that closes its delegate.                *)
Alive == \A u \in Thread, i \in Nat, g \in Gen : BodyAt(stack[u], i, g) => resume_label[g] # "done"

EndedWhenStopping ==
    \A t \in Thread :
       stack[t] # <<>> /\ ret[t] = Raised("StopIteration") =>
          /\ Top(t).pc = "body" => resume_label[Top(t).gen] = "done"
          /\ Top(t).pc = "delegate" => resume_label[Top(t).of] = "done"
          /\ Top(t).pc # "closing"

Stops == Alive /\ EndedWhenStopping

LEMMA NonEmptySeq ==
    ASSUME NEW S, NEW s \in Seq(S), s # <<>>
    PROVE  Len(s) \in Nat \ {0}
  OBVIOUS

(* Stops, for the three ways.                                                  *)
LEMMA StopsSwap ==
    ASSUME IInv, Stops, NEW t \in Thread, stack[t] # <<>>, NEW f \in Activation, NEW r \in Outcome, Replace(t, f, r),
           UNCHANGED resume_label, f.op = Top(t).op, f.gen = Top(t).gen, f.pc \notin {"delegate", "closing"},
           f.pc = "body" /\ r = Raised("StopIteration") => resume_label[f.gen] = "done"
    PROVE  Stops'
<1>1. /\ GenType /\ Len(stack[t]) \in Nat \ {0} /\ Top(t) = stack[t][Len(stack[t])]
  BY TopFacts DEF IInv
<1>2. /\ Len(stack'[t]) = Len(stack[t]) /\ stack'[t][Len(stack[t])] = f
      /\ \A i \in 1..(Len(stack[t]) - 1) : stack'[t][i] = stack[t][i]
      /\ \A u \in Thread \ {t} : stack'[u] = stack[u] /\ ret'[u] = ret[u]
      /\ ret'[t] = r
  BY <1>1, ReplaceFacts
<1>3. ASSUME NEW u \in Thread, NEW i \in Nat, NEW g \in Gen, BodyAt(stack'[u], i, g) PROVE resume_label'[g] # "done"
  <2>1. u # t \/ i = Len(stack[t]) \/ i \in 1..(Len(stack[t]) - 1)
    BY <1>1, <1>2, <1>3 DEF BodyAt
  <2>2. BodyAt(stack[u], i, g)
    BY <1>1, <1>2, <1>3, <2>1 DEF BodyAt
  <2>3. QED
    BY <2>2 DEF Stops, Alive
<1>4. Top(t)' = f
  BY <1>2 DEF Top
<1>5. ASSUME NEW u \in Thread, stack'[u] # <<>>, ret'[u] = Raised("StopIteration")
      PROVE  /\ Top(u)'.pc = "body" => resume_label'[Top(u)'.gen] = "done"
             /\ Top(u)'.pc = "delegate" => resume_label'[Top(u)'.of] = "done"
             /\ Top(u)'.pc # "closing"
  <2>1. CASE u = t
    BY <1>2, <1>4, <1>5, <2>1
  <2>2. CASE u # t
    <3>1. Top(u)' = Top(u)
      BY <1>2, <2>2 DEF Top
    <3>2. QED
      BY <1>2, <1>5, <2>2, <3>1 DEF Stops, EndedWhenStopping
  <2>3. QED
    BY <2>1, <2>2
<1>6. QED
  BY <1>3, <1>5 DEF Stops, Alive, EndedWhenStopping

LEMMA StopsPush ==
    ASSUME IInv, Stops, NEW t \in Thread, stack[t] # <<>>, NEW f \in Activation, NEW h \in Activation, Push(t, f, h),
           UNCHANGED resume_label, f.op = Top(t).op, f.gen = Top(t).gen,
           h.op = "body" => resume_label[h.gen] # "done"
    PROVE  Stops'
<1>1. /\ GenType /\ Len(stack[t]) \in Nat \ {0} /\ Top(t) = stack[t][Len(stack[t])]
  BY TopFacts DEF IInv
<1>2. /\ Len(stack'[t]) = Len(stack[t]) + 1 /\ stack'[t][Len(stack[t])] = f /\ stack'[t][Len(stack[t]) + 1] = h
      /\ \A i \in 1..(Len(stack[t]) - 1) : stack'[t][i] = stack[t][i]
      /\ \A u \in Thread \ {t} : stack'[u] = stack[u] /\ ret'[u] = ret[u]
      /\ ret'[t] = Nothing
  BY <1>1, PushFacts
<1>3. ASSUME NEW u \in Thread, NEW i \in Nat, NEW g \in Gen, BodyAt(stack'[u], i, g) PROVE resume_label'[g] # "done"
  <2>1. CASE u = t /\ i = Len(stack[t]) + 1
    BY <1>2, <1>3, <2>1 DEF BodyAt
  <2>2. CASE ~(u = t /\ i = Len(stack[t]) + 1)
    <3>1. u # t \/ i = Len(stack[t]) \/ i \in 1..(Len(stack[t]) - 1)
      BY <1>1, <1>2, <1>3, <2>2 DEF BodyAt
    <3>2. BodyAt(stack[u], i, g)
      BY <1>1, <1>2, <1>3, <3>1 DEF BodyAt
    <3>3. QED
      BY <3>2 DEF Stops, Alive
  <2>3. QED
    BY <2>1, <2>2
<1>4. ASSUME NEW u \in Thread, stack'[u] # <<>>, ret'[u] = Raised("StopIteration")
      PROVE  /\ Top(u)'.pc = "body" => resume_label'[Top(u)'.gen] = "done"
             /\ Top(u)'.pc = "delegate" => resume_label'[Top(u)'.of] = "done"
             /\ Top(u)'.pc # "closing"
  <2>1. u # t
    BY <1>2, <1>4 DEF Nothing, Raised
  <2>2. Top(u)' = Top(u)
    BY <1>2, <2>1 DEF Top
  <2>3. QED
    BY <1>2, <1>4, <2>1, <2>2 DEF Stops, EndedWhenStopping
<1>5. QED
  BY <1>3, <1>4 DEF Stops, Alive, EndedWhenStopping

(* When the call on top returns: its caller waits for the delegate it calls, or *)
(* for the body of its own object.                                            *)
LEMMA StopsPop ==
    ASSUME IInv, Stops, NEW t \in Thread, stack[t] # <<>>, NEW r \in Outcome, Pop(t, r),
           \/ /\ Top(t).op # "body" /\ UNCHANGED resume_label
              /\ r = Raised("StopIteration") => resume_label[Top(t).gen] = "done" /\ Top(t).op # "close"
           \/ /\ Top(t).op = "body"
              /\ \E label : /\ resume_label' = [resume_label EXCEPT ![Top(t).gen] = label]
                            /\ r = Raised("StopIteration") => label = "done"
    PROVE  Stops'
<1> DEFINE n == Len(stack[t])
<1>1. /\ GenType /\ n \in Nat \ {0} /\ Top(t) = stack[t][n] /\ Top(t).gen \in Gen
  BY TopFacts DEF IInv, Activation
<1>2. /\ Len(stack'[t]) = n - 1 /\ stack' \in [Thread -> Seq(Activation)]
      /\ \A i \in 1..(n - 1) : stack'[t][i] = stack[t][i]
      /\ \A u \in Thread \ {t} : stack'[u] = stack[u] /\ ret'[u] = ret[u]
      /\ ret'[t] = r
  BY <1>1, PopFacts
<1>3. \A g \in Gen \ {Top(t).gen} : resume_label'[g] = resume_label[g]
  BY <1>1 DEF GenType
<1>4. r = Raised("StopIteration") => resume_label'[Top(t).gen] = "done"
  BY <1>1 DEF GenType
<1>5. \A g \in Gen : resume_label[g] = "done" => resume_label'[g] = "done"
  <2>1. CASE Top(t).op # "body"
    BY <1>3, <2>1
  <2>2. CASE Top(t).op = "body"
    <3>1. BodyAt(stack[t], n, Top(t).gen)
      BY <1>1, <2>2 DEF BodyAt
    <3>2. resume_label[Top(t).gen] # "done"
      BY <1>1, <3>1 DEF Stops, Alive
    <3>3. QED
      BY <1>3, <3>2
  <2>3. QED
    BY <2>1, <2>2
<1>6. ASSUME NEW u \in Thread, NEW i \in Nat, NEW g \in Gen, BodyAt(stack'[u], i, g) PROVE resume_label'[g] # "done"
  <2>1. BodyAt(stack[u], i, g) /\ ~(u = t /\ i = n)
    BY <1>1, <1>2, <1>6 DEF BodyAt
  <2>2. resume_label[g] # "done"
    BY <2>1 DEF Stops, Alive
  <2>3. CASE Top(t).op # "body"
    BY <2>2, <2>3
  <2>4. CASE Top(t).op = "body"
    <3>1. BodyAt(stack[t], n, Top(t).gen)
      BY <1>1, <2>4 DEF BodyAt
    <3>2. g # Top(t).gen
      BY <1>1, <2>1, <3>1, BodyOnce
    <3>3. QED
      BY <1>3, <2>2, <3>2
  <2>5. QED
    BY <2>3, <2>4
<1>7. ASSUME NEW u \in Thread, stack'[u] # <<>>, ret'[u] = Raised("StopIteration")
      PROVE  /\ Top(u)'.pc = "body" => resume_label'[Top(u)'.gen] = "done"
             /\ Top(u)'.pc = "delegate" => resume_label'[Top(u)'.of] = "done"
             /\ Top(u)'.pc # "closing"
  <2>1. CASE u # t
    <3>1. Top(u)' = Top(u) /\ stack[u] # <<>> /\ ret[u] = Raised("StopIteration")
      BY <1>2, <1>7, <2>1 DEF Top
    <3>2. Top(u).gen \in Gen /\ Top(u).of \in Gen \cup {NoGen}
      BY <3>1, TopOK
    <3>3. Top(u).pc = "delegate" => Top(u).of \in Gen
      BY <3>1, <3>2, TopOK DEF FrameOK
    <3>4. QED
      BY <1>5, <3>1, <3>2, <3>3 DEF Stops, EndedWhenStopping
  <2>2. CASE u = t
    <3>0. stack'[t] \in Seq(Activation) /\ stack'[t] # <<>>
      BY <1>2, <1>7, <2>2
    <3>1. Len(stack'[t]) \in Nat \ {0} /\ Top(t)' = stack'[t][Len(stack'[t])]
      BY <3>0, NonEmptySeq DEF Top
    <3> HIDE DEF n
    <3>2. n - 1 \in 1..(n - 1) /\ (n - 1) + 1 = n /\ Top(t)' = stack[t][n - 1]
      <4>1. n \in Nat /\ n - 1 \in Nat \ {0} /\ Len(stack'[t]) = n - 1
        BY <1>1, <1>2, <3>1
      <4>2. n - 1 \in 1..(n - 1) /\ (n - 1) + 1 = n
        BY <4>1
      <4>3. QED
        BY <1>2, <3>1, <4>1, <4>2
    <3>3. Calling(stack[t][n - 1], stack[t][n])
      <4>1. Calling(stack[t][n - 1], stack[t][(n - 1) + 1])
        BY <3>2 DEF IInv, Linked, n
      <4>2. QED
        BY <3>2, <4>1
    <3>4. /\ Top(t)'.pc = "body" => Top(t)'.gen = Top(t).gen
          /\ Top(t)'.pc = "delegate" => Top(t)'.of = Top(t).gen
          /\ Top(t)'.pc = "closing" => Top(t).op = "close"
      BY <1>1, <3>2, <3>3 DEF Calling
    <3>5. QED
      BY <1>2, <1>4, <1>7, <2>2, <3>4
  <2>3. QED
    BY <2>1, <2>2
<1>8. QED
  BY <1>6, <1>7 DEF Stops, Alive, EndedWhenStopping

LEMMA StopsSendEx ==
    ASSUME IInv, Stops, NEW t \in Thread, stack[t] # <<>>, Top(t).op # "body", NEW input \in Outcome,
           SendEx(t, Top(t), input), UNCHANGED resume_label
    PROVE  Stops'
<1>1. Top(t) \in Activation /\ Top(t).gen \in Gen
  BY TopOK
<1> DEFINE f == PassOn(Top(t), "body", NoGen)
<1>2. f \in Activation /\ f.pc = "body" /\ f.op = Top(t).op /\ f.gen = Top(t).gen
  BY <1>1, PassOnType
<1>3. CASE resume_label[Top(t).gen] = "done" /\ Replace(t, f, AlreadyTerminatedError(Top(t), input))
  <2>1. AlreadyTerminatedError(Top(t), input) \in Outcome
    BY OutcomeTypes DEF AlreadyTerminatedError, Errors
  <2> HIDE DEF f
  <2>2. QED
    BY <1>2, <1>3, <2>1, StopsSwap
<1>4. CASE resume_label[Top(t).gen] # "done" /\ Push(t, f, Frame("body", Top(t).gen, input))
  <2> DEFINE h == Frame("body", Top(t).gen, input)
  <2>1. h \in Activation /\ h.gen = Top(t).gen
    BY <1>1, FrameType DEF Frame, Op
  <2> HIDE DEF f, h
  <2>2. QED
    BY <1>2, <1>4, <2>1, StopsPush DEF h
<1>5. QED
  BY <1>3, <1>4 DEF SendEx

LEMMA StopsLeaveBody ==
    ASSUME IInv, Stops, NEW t \in Thread, stack[t] # <<>>, Top(t).op = "body", NEW r \in Outcome
    PROVE  /\ ExitBody(t, r) => Stops'
           /\ LeaveBody(t, "paused", Yielded) => Stops'
<1>1. ASSUME ExitBody(t, r) PROVE Stops'
  <2> DEFINE a == IF r.k = "error" THEN Raised(Replace_StopIteration(r.x)) ELSE r
  <2>1. a \in Outcome
    <3>1. r.k = "error" => r.x \in Errors
      BY DEF Outcome
    <3>2. r.x \in Errors => Replace_StopIteration(r.x) \in Errors
      BY DEF Replace_StopIteration, Errors
    <3>3. QED
      BY <3>1, <3>2, OutcomeTypes
  <2>2. Pop(t, a) /\ resume_label' = [resume_label EXCEPT ![Top(t).gen] = "done"]
    BY <1>1 DEF ExitBody, LeaveBody
  <2> HIDE DEF a
  <2>3. QED
    BY <2>1, <2>2, StopsPop
<1>2. ASSUME LeaveBody(t, "paused", Yielded) PROVE Stops'
  <2>1. Pop(t, Yielded) /\ resume_label' = [resume_label EXCEPT ![Top(t).gen] = "paused"]
    BY <1>2 DEF LeaveBody
  <2>2. Yielded \in Outcome /\ Yielded # Raised("StopIteration")
    BY OutcomeTypes DEF Yielded, Raised
  <2>3. QED
    BY <2>1, <2>2, StopsPop
<1>3. QED
  BY <1>1, <1>2

(* A step resumes a body with a StopIteration only in the two ways.           *)
ResumedRightly(u) ==
    ResumesWithStopIteration(u) =>
       \/ /\ At(u, "switch") /\ Top(u).op = "throw"
          /\ yieldfrom[Top(u).gen] = NoGen
       \/ /\ UseAmSend /\ At(u, "delegate") /\ Top(u).op = "send"
          /\ resume_label[Top(u).of] = "done"

(* Steps after which what is on top is no body, or one that has its argument.  *)
LEMMA ResumesReplace ==
    ASSUME IInv, NEW t \in Thread, stack[t] # <<>>, NEW f \in Activation, NEW r \in Outcome,
           Replace(t, f, r) \/ Pop(t, r), NEW u \in Thread
    PROVE  ~ResumesWithStopIteration(u)
<1>1. GenType /\ \A v \in Thread : Len(stack[v]) \in Nat
  BY DEF IInv, GenType
<1>2. CASE Replace(t, f, r)
  <2>1. Len(stack'[t]) = Len(stack[t]) /\ \A v \in Thread \ {t} : stack'[v] = stack[v]
    BY <1>1, <1>2, ReplaceFacts
  <2>2. QED
    BY <1>1, <2>1 DEF ResumesWithStopIteration
<1>3. CASE Pop(t, r)
  <2>1. Len(stack'[t]) = Len(stack[t]) - 1 /\ \A v \in Thread \ {t} : stack'[v] = stack[v]
    BY <1>1, <1>3, PopFacts
  <2>2. QED
    BY <1>1, <2>1 DEF ResumesWithStopIteration
<1>4. QED
  BY <1>2, <1>3

LEMMA ResumesPush ==
    ASSUME IInv, NEW t \in Thread, stack[t] # <<>>, NEW f \in Activation, NEW h \in Activation,
           Push(t, f, h), NEW u \in Thread
    PROVE  ResumesWithStopIteration(u) => u = t /\ h.op = "body" /\ h.arg = Raised("StopIteration")
<1>1. GenType /\ \A v \in Thread : Len(stack[v]) \in Nat
  BY DEF IInv, GenType
<1>2. /\ Len(stack'[t]) = Len(stack[t]) + 1 /\ stack'[t][Len(stack[t]) + 1] = h
      /\ \A v \in Thread \ {t} : stack'[v] = stack[v]
  BY <1>1, PushFacts
<1>3. Top(t)' = h
  BY <1>2 DEF Top
<1>4. u # t => ~ResumesWithStopIteration(u)
  BY <1>1, <1>2 DEF ResumesWithStopIteration
<1>5. QED
  BY <1>3, <1>4 DEF ResumesWithStopIteration

LEMMA ResumesSendEx ==
    ASSUME IInv, NEW t \in Thread, stack[t] # <<>>, Top(t).op # "body", NEW input \in Outcome,
           SendEx(t, Top(t), input), NEW u \in Thread
    PROVE  ResumesWithStopIteration(u) => u = t /\ input = Raised("StopIteration")
<1>1. Top(t) \in Activation /\ Top(t).gen \in Gen
  BY TopOK
<1> DEFINE f == PassOn(Top(t), "body", NoGen)
<1>2. f \in Activation
  BY <1>1, PassOnType
<1>3. CASE Replace(t, f, AlreadyTerminatedError(Top(t), input))
  <2>1. AlreadyTerminatedError(Top(t), input) \in Outcome
    BY OutcomeTypes DEF AlreadyTerminatedError, Errors
  <2> HIDE DEF f
  <2>2. QED
    BY <1>2, <1>3, <2>1, ResumesReplace
<1>4. CASE Push(t, f, Frame("body", Top(t).gen, input))
  <2> DEFINE h == Frame("body", Top(t).gen, input)
  <2>1. h \in Activation /\ h.arg = input
    BY <1>1, FrameType DEF Frame, Op
  <2> HIDE DEF f, h
  <2>2. QED
    BY <1>2, <1>4, <2>1, ResumesPush DEF h
<1>5. QED
  BY <1>3, <1>4 DEF SendEx

(* Both facts of every step.                                                   *)
LEMMA StopsNext == IInv /\ Stops /\ [Next]_vars => Stops' /\ \A u \in Thread : ResumedRightly(u)
<1> SUFFICES ASSUME IInv, Stops, [Next]_vars PROVE Stops' /\ \A u \in Thread : ResumedRightly(u)
  OBVIOUS
<1> DEFINE Goal == Stops' /\ \A u \in Thread : ResumedRightly(u)
<1>0. /\ GenType /\ Nothing \in Outcome /\ Yielded \in Outcome
      /\ Nothing # Raised("StopIteration") /\ Yielded # Raised("StopIteration")
  BY OutcomeTypes DEF IInv, Nothing, Yielded, Raised
<1>1. ASSUME NEW t \in Thread, CallFromOutside(t) PROVE Goal
  <2>1. PICK c \in Calls : stack' = [stack EXCEPT ![t] = <<Frame(c.op, c.gen, c.arg)>>]
    BY <1>1 DEF CallFromOutside
  <2> DEFINE h == Frame(c.op, c.gen, c.arg)
  <2>2. h.pc = "start" /\ h.op # "body"
    BY CallTypes DEF Frame
  <2>3. stack'[t] = <<h>> /\ \A u \in Thread \ {t} : stack'[u] = stack[u] /\ ret'[u] = ret[u]
    BY <1>0, <1>1, <2>1 DEF GenType, CallFromOutside
  <2>4. ret'[t] = Nothing /\ UNCHANGED resume_label
    BY <1>0, <1>1 DEF GenType, CallFromOutside, object
  <2> HIDE DEF h
  <2>5. Len(stack'[t]) = 1 /\ stack'[t][1] = h
    BY <2>3
  <2>6. Alive'
    BY <2>2, <2>3, <2>4, <2>5 DEF Stops, Alive, BodyAt
  <2>7. EndedWhenStopping'
    BY <1>0, <2>3, <2>4 DEF Stops, EndedWhenStopping, Top
  <2>8. Top(t)' = h
    BY <2>5 DEF Top
  <2>9. ASSUME NEW u \in Thread PROVE ResumedRightly(u)
    <3>1. u # t => Len(stack'[u]) = Len(stack[u]) /\ Len(stack[u]) \in Nat
      BY <1>0, <2>3 DEF GenType
    <3>2. QED
      BY <2>2, <2>8, <3>1 DEF ResumedRightly, ResumesWithStopIteration
  <2>10. QED
    BY <2>6, <2>7, <2>9 DEF Stops
<1>2. ASSUME NEW t \in Thread, stack[t] # <<>>, NEW f \in Activation, NEW r \in Outcome, Replace(t, f, r),
             UNCHANGED resume_label, f.op = Top(t).op, f.gen = Top(t).gen, f.pc \notin {"delegate", "body", "closing"}
      PROVE  Goal
  BY <1>2, StopsSwap, ResumesReplace DEF ResumedRightly
<1>3. ASSUME NEW t \in Thread, stack[t] # <<>>, NEW r \in Outcome, Pop(t, r)
      PROVE  \A u \in Thread : ResumedRightly(u)
  <2>1. Top(t) \in Activation
    BY <1>3, TopOK
  <2>2. QED
    BY <1>3, <2>1, ResumesReplace DEF ResumedRightly
<1>4. ASSUME NEW t \in Thread, stack[t] # <<>>, NEW f \in Activation, NEW h \in Activation, Push(t, f, h),
             UNCHANGED resume_label, f.op = Top(t).op, f.gen = Top(t).gen, h.op # "body"
      PROVE  Goal
  BY <1>4, StopsPush, ResumesPush DEF ResumedRightly
<1>5. ASSUME NEW t \in Thread, TestAndSet(t) PROVE Goal
  <2>1. stack[t] # <<>> /\ Top(t) \in Activation /\ Top(t).op # "body" /\ UNCHANGED resume_label
    BY <1>5, TopOK DEF TestAndSet, At
  <2>2. CASE Pop(t, Raised("already executing"))
    <3>1. Raised("already executing") \in Outcome /\ Raised("already executing") # Raised("StopIteration")
      BY OutcomeTypes DEF Errors, Raised
    <3>2. QED
      BY <1>3, <2>1, <2>2, <3>1, StopsPop
  <2>3. CASE Replace(t, [Top(t) EXCEPT !.pc = "switch"], Nothing)
    <3> DEFINE f == [Top(t) EXCEPT !.pc = "switch"]
    <3>1. f \in Activation /\ f.op = Top(t).op /\ f.gen = Top(t).gen /\ f.pc = "switch"
      BY <2>1 DEF Activation, Pc
    <3> HIDE DEF f
    <3>2. QED
      BY <1>0, <1>2, <2>1, <2>3, <3>1 DEF f
  <2>4. QED
    BY <1>5, <2>2, <2>3 DEF TestAndSet
<1>6. ASSUME NEW t \in Thread, Switch(t) PROVE Goal
  <2>1. /\ stack[t] # <<>> /\ Top(t).op # "body" /\ Top(t) \in Activation /\ Top(t).arg \in Outcome
        /\ Top(t).gen \in Gen /\ Top(t).op \in Op /\ UNCHANGED resume_label /\ At(t, "switch")
        /\ Top(t).arg = Raised("StopIteration") => Top(t).op = "throw"
    BY <1>6, TopOK DEF Switch, At, FrameOK
  <2> DEFINE yf == yieldfrom[Top(t).gen]
  <2>2. CASE yf = NoGen /\ SendEx(t, Top(t), Top(t).arg)
    <3>1. Stops'
      BY <2>1, <2>2, StopsSendEx
    <3>2. QED
      BY <2>1, <2>2, <3>1, ResumesSendEx DEF ResumedRightly
  <2>3. ASSUME NEW pc \in {"delegate", "closing"}, NEW op \in {"send", "throw", "close"}, NEW arg \in Outcome,
               arg = Raised("StopIteration") => op = "throw", pc = "delegate" => Top(t).op # "close",
               yf # NoGen, Push(t, PassOn(Top(t), pc, yf), Frame(op, yf, arg))
        PROVE  Goal
    <3> DEFINE f == PassOn(Top(t), pc, yf)
    <3> DEFINE h == Frame(op, yf, arg)
    <3>1. yf \in Gen
      BY <1>0, <2>1, <2>3 DEF GenType
    <3>2. f \in Activation /\ f.op = Top(t).op /\ f.gen = Top(t).gen
      BY <2>1, <2>3, <3>1, PassOnType
    <3>3. h \in Activation /\ h.op # "body"
      BY <2>3, <3>1, FrameType DEF Frame, Op
    <3> HIDE DEF f, h
    <3>4. QED
      BY <1>4, <2>1, <2>3, <3>2, <3>3 DEF f, h
  <2>4. /\ Raised("GeneratorExit") \in Outcome /\ Raised("GeneratorExit") # Raised("StopIteration")
        /\ Top(t).op \in {"send", "throw", "close"}
    BY <2>1, OutcomeTypes DEF Errors, Op, Raised
  <2> HIDE DEF Goal
  <2>5. QED
    BY <1>6, <2>1, <2>2, <2>3, <2>4 DEF Switch
<1>7. ASSUME NEW t \in Thread, ReturnFromDelegate(t) PROVE Goal
  <2>1. /\ stack[t] # <<>> /\ Top(t).op # "body" /\ ret[t] \in Outcome /\ UNCHANGED resume_label
        /\ At(t, "delegate") /\ Top(t).op \in Op
    BY <1>7, TopOK DEF ReturnFromDelegate, At, FrameOK
  <2>2. CASE Pop(t, Yielded)
    BY <1>0, <1>3, <2>1, <2>2, StopsPop
  <2>3. CASE SendEx(t, Top(t), Finished(Top(t).op, ret[t]))
    <3> DEFINE input == Finished(Top(t).op, ret[t])
    <3>1. input \in Outcome
      BY <2>1, OutcomeTypes DEF Finished, Value
    <3>2. Stops'
      BY <2>1, <2>3, <3>1, StopsSendEx
    <3>3. input = Raised("StopIteration") =>
             /\ UseAmSend /\ Top(t).op # "throw" /\ ret[t] = Raised("StopIteration")
      BY DEF Finished, Returned, Raised
    <3>4. ret[t] = Raised("StopIteration") => resume_label[Top(t).of] = "done"
      BY <2>1 DEF Stops, EndedWhenStopping, At
    <3>5. Top(t).op # "throw" => Top(t).op = "send"
      BY <2>1, TopOK DEF Op, FrameOK, At
    <3> HIDE DEF input
    <3>6. QED
      BY <2>1, <2>3, <3>1, <3>2, <3>3, <3>4, <3>5, ResumesSendEx DEF ResumedRightly, input
  <2>4. QED
    BY <1>7, <2>2, <2>3 DEF ReturnFromDelegate
<1>8. ASSUME NEW t \in Thread, ReturnFromCloseIter(t) PROVE Goal
  <2>1. /\ stack[t] # <<>> /\ Top(t).op # "body" /\ ret[t] \in Outcome /\ UNCHANGED resume_label
        /\ Top(t).pc = "closing"
    BY <1>8, TopOK DEF ReturnFromCloseIter, At, FrameOK
  <2> DEFINE input == IF ret[t].k = "error" THEN ret[t] ELSE Raised("GeneratorExit")
  <2>2. input \in Outcome
    BY <2>1, OutcomeTypes DEF Errors
  <2>3. SendEx(t, Top(t), input)
    BY <1>8 DEF ReturnFromCloseIter
  <2>4. input # Raised("StopIteration")
    <3>1. ret[t] # Raised("StopIteration")
      BY <2>1 DEF Stops, EndedWhenStopping
    <3>2. QED
      BY <3>1 DEF Raised
  <2> HIDE DEF input
  <2>5. Stops'
    BY <2>1, <2>2, <2>3, StopsSendEx
  <2>6. QED
    BY <2>1, <2>2, <2>3, <2>4, <2>5, ResumesSendEx DEF ResumedRightly
<1>9. ASSUME NEW t \in Thread, ReturnFromBody(t) PROVE Goal
  <2>1. /\ stack[t] # <<>> /\ Top(t).op # "body" /\ ret[t] \in Outcome /\ UNCHANGED resume_label
        /\ Top(t).pc = "body"
    BY <1>9, TopOK DEF ReturnFromBody, At, FrameOK
  <2> DEFINE r == IF Top(t).op = "close" THEN CloseOutcome(ret[t]) ELSE ret[t]
  <2>2. r \in Outcome
    BY <2>1, OutcomeTypes DEF CloseOutcome, Value, Errors
  <2>3. r = Raised("StopIteration") => ret[t] = Raised("StopIteration") /\ Top(t).op # "close"
    BY DEF CloseOutcome, Raised, Returned
  <2>4. Pop(t, r)
    BY <1>9 DEF ReturnFromBody
  <2>5. r = Raised("StopIteration") => resume_label[Top(t).gen] = "done" /\ Top(t).op # "close"
    BY <2>1, <2>3 DEF Stops, EndedWhenStopping
  <2> HIDE DEF r
  <2>6. QED
    BY <1>3, <2>1, <2>2, <2>4, <2>5, StopsPop
<1>10. ASSUME NEW t \in Thread, stack[t] # <<>>, Top(t).op = "body", LeaveBody(t, "paused", Yielded) PROVE Goal
  BY <1>0, <1>3, <1>10, StopsLeaveBody DEF LeaveBody
<1>11. ASSUME NEW t \in Thread, stack[t] # <<>>, Top(t).op = "body", NEW r \in Outcome, ExitBody(t, r) PROVE Goal
  <2> DEFINE a == IF r.k = "error" THEN Raised(Replace_StopIteration(r.x)) ELSE r
  <2>1. a \in Outcome
    <3>1. r.k = "error" => r.x \in Errors
      BY DEF Outcome
    <3>2. r.x \in Errors => Replace_StopIteration(r.x) \in Errors
      BY DEF Replace_StopIteration, Errors
    <3>3. QED
      BY <3>1, <3>2, OutcomeTypes
  <2>2. Pop(t, a)
    BY <1>11 DEF ExitBody, LeaveBody
  <2> HIDE DEF a
  <2>3. QED
    BY <1>3, <1>11, <2>1, <2>2, StopsLeaveBody
<1>12. ASSUME NEW t \in Thread, ResumeBody(t) PROVE Goal
  <2>1. stack[t] # <<>> /\ Top(t).op = "body" /\ Top(t) \in Activation /\ Top(t).arg \in Outcome
    BY <1>12, TopOK DEF ResumeBody, At
  <2>2. CASE Replace(t, [Top(t) EXCEPT !.pc = "code", !.arg = Nothing], Nothing) /\ UNCHANGED resume_label
    <3> DEFINE f == [Top(t) EXCEPT !.pc = "code", !.arg = Nothing]
    <3>1. f \in Activation /\ f.op = Top(t).op /\ f.gen = Top(t).gen /\ f.pc = "code"
      BY <1>0, <2>1 DEF Activation, Pc
    <3> HIDE DEF f
    <3>2. QED
      BY <1>0, <1>2, <2>1, <2>2, <3>1 DEF f
  <2>3. CASE ExitBody(t, Top(t).arg)
    BY <1>11, <2>1, <2>3
  <2>4. CASE ExitBody(t, Raised("non-None to fresh"))
    <3>1. Raised("non-None to fresh") \in Outcome
      BY OutcomeTypes DEF Errors
    <3>2. QED
      BY <1>11, <2>1, <2>4, <3>1
  <2> HIDE DEF Goal
  <2>5. QED
    BY <1>12, <2>2, <2>3, <2>4 DEF ResumeBody
<1>13. ASSUME NEW t \in Thread, InCode(t) PROVE stack[t] # <<>> /\ Top(t).op = "body" /\ Top(t) \in Activation
  BY <1>13, TopOK DEF InCode, At, FrameOK
<1>14. ASSUME NEW t \in Thread, YieldValue(t) PROVE Goal
  BY <1>10, <1>13, <1>14 DEF YieldValue
<1>15. ASSUME NEW t \in Thread, EndBody(t) PROVE Goal
  <2>1. PICK r \in {Returned(v) : v \in Value} \cup {Raised(e) : e \in Uncaught} : ExitBody(t, r)
    BY <1>15 DEF EndBody
  <2>2. r \in Outcome
    BY OutcomeTypes DEF Errors
  <2>3. QED
    BY <1>11, <1>13, <1>15, <2>1, <2>2 DEF EndBody
<1>16. ASSUME NEW t \in Thread, InCode(t), NEW pc \in {"call", "yieldfrom"}, NEW of \in Gen \cup {NoGen},
              NEW op \in {"send", "throw", "close"}, NEW g \in Gen, NEW arg \in Outcome,
              arg = Raised("StopIteration") => op = "throw", UNCHANGED resume_label,
              NEW f, f = [Top(t) EXCEPT !.pc = pc, !.of = of], Push(t, f, Frame(op, g, arg))
       PROVE  Goal
  <2>1. stack[t] # <<>> /\ Top(t) \in Activation
    BY <1>13, <1>16
  <2> DEFINE h == Frame(op, g, arg)
  <2>2. f \in Activation /\ f.op = Top(t).op /\ f.gen = Top(t).gen
    BY <1>16, <2>1 DEF Activation, Pc
  <2>3. h \in Activation /\ h.op # "body"
    BY <1>16, FrameType DEF Frame, Op
  <2> HIDE DEF h
  <2>4. QED
    BY <1>4, <1>16, <2>1, <2>2, <2>3 DEF h
<1>17. ASSUME NEW t \in Thread, CallFromBody(t) PROVE Goal
  <2>1. PICK c \in Calls : Push(t, [Top(t) EXCEPT !.pc = "call"], Frame(c.op, c.gen, c.arg))
    BY <1>17 DEF CallFromBody
  <2>2. InCode(t) /\ Top(t) \in Activation /\ UNCHANGED resume_label
    BY <1>13, <1>17 DEF CallFromBody, object
  <2>3. [Top(t) EXCEPT !.pc = "call"] = [Top(t) EXCEPT !.pc = "call", !.of = Top(t).of] /\ Top(t).of \in Gen \cup {NoGen}
    BY <2>2 DEF Activation
  <2>4. QED
    BY <1>16, <2>1, <2>2, <2>3, CallTypes
<1>18. ASSUME NEW t \in Thread, Yield_From(t) PROVE Goal
  <2>1. PICK s \in Gen : Push(t, [Top(t) EXCEPT !.pc = "yieldfrom", !.of = s], Frame("send", s, Returned("None")))
    BY <1>18 DEF Yield_From
  <2>2. Returned("None") \in Outcome /\ Returned("None") # Raised("StopIteration") /\ InCode(t) /\ UNCHANGED resume_label
    BY <1>18, OutcomeTypes DEF Value, Returned, Raised, Yield_From, object
  <2>3. QED
    BY <1>16, <2>1, <2>2
<1>19. ASSUME NEW t \in Thread, ReturnToCode(t) PROVE Goal
  <2>1. stack[t] # <<>> /\ Top(t).op = "body" /\ Top(t) \in Activation
    BY <1>19, TopOK DEF ReturnToCode, At, FrameOK
  <2>2. CASE Replace(t, [Top(t) EXCEPT !.pc = "code", !.of = NoGen], Nothing) /\ UNCHANGED resume_label
    <3> DEFINE f == [Top(t) EXCEPT !.pc = "code", !.of = NoGen]
    <3>1. f \in Activation /\ f.op = Top(t).op /\ f.gen = Top(t).gen /\ f.pc = "code"
      BY <2>1 DEF Activation, Pc
    <3> HIDE DEF f
    <3>2. QED
      BY <1>0, <1>2, <2>1, <2>2, <3>1 DEF f
  <2> HIDE DEF Goal
  <2>3. QED
    BY <1>10, <1>19, <2>1, <2>2 DEF ReturnToCode
<1>20. CASE UNCHANGED vars
  <2>1. Stops'
    BY <1>20 DEF vars, Stops, Alive, EndedWhenStopping, BodyAt, Top
  <2>2. \A u \in Thread : ~ResumesWithStopIteration(u)
    BY <1>0, <1>20 DEF vars, ResumesWithStopIteration, GenType
  <2>3. QED
    BY <2>1, <2>2 DEF ResumedRightly
<1>21. CASE Next
  <2>1. PICK t \in Thread : CallFromOutside(t) \/ MethodStep(t) \/ BodyStep(t)
    BY <1>21 DEF Next
  <2>2. CASE CallFromOutside(t)
    BY <1>1, <2>2
  <2>3. CASE MethodStep(t)
    BY <1>5, <1>6, <1>7, <1>8, <1>9, <2>3 DEF MethodStep
  <2>4. CASE BodyStep(t)
    BY <1>12, <1>14, <1>15, <1>17, <1>18, <1>19, <2>4 DEF BodyStep
  <2>5. QED
    BY <2>1, <2>2, <2>3, <2>4
<1>22. QED
  BY <1>20, <1>21

(* Who passes a StopIteration on to a body, in all builds and whatever callers throw: *)
(* a caller that throws it, or am_send when the delegate had ended before.          *)
THEOREM DelegatesEndWithValue == Spec => DelegationEndsWithValue
<1>1. Init => Stops
  BY DEF Init, Stops, Alive, EndedWhenStopping, BodyAt
<1>2. IInv /\ Stops /\ [Next]_vars => Stops'
  BY StopsNext
<1>3. IInv /\ Stops /\ [Next]_vars =>
         [\A t \in Thread :
            ResumesWithStopIteration(t) =>
               \/ /\ At(t, "switch") /\ Top(t).op = "throw"
                  /\ yieldfrom[Top(t).gen] = NoGen
               \/ /\ UseAmSend /\ At(t, "delegate") /\ Top(t).op = "send"
                  /\ resume_label[Top(t).of] = "done"]_vars
  BY StopsNext DEF ResumedRightly
<1> QED
  BY <1>1, <1>2, <1>3, GeneratorInvariant, PTL DEF Spec, DelegationEndsWithValue
=============================================================================
