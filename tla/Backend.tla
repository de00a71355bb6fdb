------------------------------ MODULE Backend ------------------------------
(***************************************************************************)
(* What the scheduler may expect of a server that loads and unloads models *)
(* on request (the protocol Backend, backend.py): a call that returns      *)
(* without an error has seen the model in the state it promises, and a     *)
(* model is loaded only while a load of it is under way.                   *)
(***************************************************************************)
CONSTANTS Models, None

VARIABLES
  state,  \* what the server says of each model: unloaded, loading or loaded
  call,   \* the call under way on each model, and has its state been met?
  result  \* the call that returned last on each model, and did it succeed?

vars == <<state, call, result>>

Promised(op) == IF op = "unload" THEN "unloaded" ELSE "loaded"

Quiet == [op |-> None, met |-> FALSE]

Init ==
  /\ state \in [Models -> {"unloaded", "loading", "loaded"}]
  /\ call = [m \in Models |-> Quiet]
  /\ result = [m \in Models |-> None]

(* The server changes the state of a model, and a call may meet it.         *)
Serve(m) ==
  /\ \E s \in {"unloaded", "loading", "loaded"} :
       /\ state[m] = "unloaded" /\ s # "unloaded" => call[m].op = "load"
       /\ state' = [state EXCEPT ![m] = s]
       /\ call' = [call EXCEPT ![m].met =
            @ \/ (call[m].op # None /\ s = Promised(call[m].op))]
  /\ UNCHANGED result

Begin(m, op) ==
  /\ call[m] = Quiet
  /\ call' = [call EXCEPT ![m] = [op |-> op, met |-> state[m] = Promised(op)]]
  /\ UNCHANGED <<state, result>>

Return(m, ok) ==
  /\ call[m].op # None /\ (ok => call[m].met)
  /\ call' = [call EXCEPT ![m] = Quiet]
  /\ result' = [result EXCEPT ![m] = [op |-> call[m].op, ok |-> ok]]
  /\ UNCHANGED state

(* The caller has acted on the result. *)
Act(m) ==
  /\ result' = [result EXCEPT ![m] = None]
  /\ UNCHANGED <<state, call>>

Next ==
  \E m \in Models :
    \/ Serve(m) \/ Act(m)
    \/ \E op \in {"load", "unload", "wait"} : Begin(m, op)
    \/ \E ok \in BOOLEAN : Return(m, ok)

Spec == Init /\ [][Next]_vars

(* An unload that has returned well has freed the model's resources, and    *)
(* nothing takes them again until a load of the model is asked for.         *)
Freed ==
  \A m \in Models :
    (result[m] = [op |-> "unload", ok |-> TRUE] /\ call[m].op # "load")
      => state[m] = "unloaded"

=============================================================================
