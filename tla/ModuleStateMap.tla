--------------------------- MODULE ModuleStateMap ---------------------------
(***************************************************************************)
(* What the module-state lookup promises its callers: a map from           *)
(* interpreter ids to modules on which every call takes effect at one      *)
(* instant between its invocation and its return.                          *)
(***************************************************************************)
EXTENDS Integers

CONSTANTS Thread, InterpreterId, Module, NULL

VARIABLES registered,  \* the module registered for each interpreter, or NULL
          phase,       \* "idle", "called" or "done"
          request,     \* the call being executed
          answer       \* what a finished call is about to return

avars == <<registered, phase, request, answer>>

Init ==
    /\ registered = [x \in InterpreterId |-> NULL]
    /\ phase = [t \in Thread |-> "idle"]
    /\ request = [t \in Thread |-> [op |-> "none", id |-> -1, module |-> NULL]]
    /\ answer = [t \in Thread |-> NULL]

Invoke(t) ==
    /\ phase[t] = "idle"
    /\ \E c \in [op : {"find", "add", "remove"}, id : InterpreterId,
                 module : Module \cup {NULL}] :
          request' = [request EXCEPT ![t] = c]
    /\ phase' = [phase EXCEPT ![t] = "called"]
    /\ UNCHANGED <<registered, answer>>

Answer(t, a) ==
    /\ phase[t] = "called"
    /\ phase' = [phase EXCEPT ![t] = "done"]
    /\ answer' = [answer EXCEPT ![t] = a]
    /\ UNCHANGED request

(* For an interpreter with no entry the implementation may answer anything. *)
Find(t) ==
    /\ request[t].op = "find"
    /\ \E a \in Module \cup {NULL} :
          /\ registered[request[t].id] # NULL => a = registered[request[t].id]
          /\ Answer(t, a)
    /\ UNCHANGED registered

Add(t) ==
    /\ request[t].op = "add"
    /\ \/ /\ registered' = [registered EXCEPT ![request[t].id] = request[t].module]
          /\ Answer(t, "ok")
       \/ Answer(t, "error") /\ UNCHANGED registered

Remove(t) ==
    /\ request[t].op = "remove"
    /\ registered' = [registered EXCEPT ![request[t].id] = NULL]
    /\ Answer(t, "ok")

Respond(t) ==
    /\ phase[t] = "done"
    /\ phase' = [phase EXCEPT ![t] = "idle"]
    /\ request' = [request EXCEPT ![t] = [op |-> "none", id |-> -1, module |-> NULL]]
    /\ answer' = [answer EXCEPT ![t] = NULL]
    /\ UNCHANGED registered

Next == \E t \in Thread :
           Invoke(t) \/ Find(t) \/ Add(t) \/ Remove(t) \/ Respond(t)

Spec == Init /\ [][Next]_avars
=============================================================================
