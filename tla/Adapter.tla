------------------------------ MODULE Adapter ------------------------------
(***************************************************************************)
(* The llama.cpp router behind its adapter (LlamaAdapter in llama.py).  A  *)
(* load or unload is a POST that the router accepts or refuses, and then   *)
(* GET /models again and again until the model is seen in the state that   *)
(* was asked for, its load is seen to have failed, or time is up.  What a  *)
(* GET answers is what was true when the router took it; the worker of the *)
(* model goes on meanwhile, and may crash.                                 *)
(***************************************************************************)
EXTENDS Naturals

CONSTANTS
  Models,
  None,
  MaxFaults  \* bound: lost calls, refusals without a reason, failing workers

Ops == {"load", "unload", "wait"}

ASSUME AdapterAssumption ==
  /\ MaxFaults \in Nat
  /\ None \notin Ops /\ None \notin [op : Ops, ok : BOOLEAN]

VARIABLES
  worker,  \* the worker process of each model
  call,    \* the adapter call under way on each model, and what it awaits
  result,  \* how the last one ended, until the scheduler acts on it
  faults

adapterVars == <<worker, call, result, faults>>

WorkerState == {"unloaded", "failed", "loading", "loaded", "unloading"}

(* A ModelState: a worker asked to exit is loaded until it has, and one     *)
(* that failed is unloaded, with a flag.                                    *)
Reported(w) ==
  [value |-> CASE w \in {"unloaded", "failed"} -> "unloaded"
               [] w \in {"loaded", "unloading"} -> "loaded"
               [] OTHER -> "loading",
   failed |-> w = "failed"]

Expected(op) == IF op = "unload" THEN "unloaded" ELSE "loaded"

NoCall == [op |-> None, at |-> "none", answer |-> None, late |-> FALSE, met |-> FALSE]

Spend == faults < MaxFaults /\ faults' = faults + 1

AdapterInit ==
  /\ worker \in [Models -> {"unloaded", "loading", "loaded"}]
  /\ call = [m \in Models |-> NoCall] /\ result = [m \in Models |-> None]
  /\ faults = 0

(* The worker of m is now w; the call on m is now c.  met is history: has   *)
(* the model been in the state that the call promises since it began?       *)
Becomes(m, w, c) ==
  /\ worker' = [worker EXCEPT ![m] = w]
  /\ call' = [call EXCEPT ![m] =
       [c EXCEPT !.met = @ \/ (c.op # None /\ Reported(w).value = Expected(c.op))]]
  /\ UNCHANGED result

Goes(m, step) == call' = [call EXCEPT ![m].at = step]

-----------------------------------------------------------------------------
(* The router *)

Starts(m) == worker[m] = "loading" /\ Becomes(m, "loaded", call[m]) /\ UNCHANGED faults

LoadFails(m) == worker[m] = "loading" /\ Becomes(m, "failed", call[m]) /\ Spend

Crashes(m) == worker[m] = "loaded" /\ Becomes(m, "failed", call[m]) /\ Spend

(* A worker that exits when asked to may do so with an exit code. *)
Exits(m) ==
  /\ worker[m] = "unloading"
  /\ \/ Becomes(m, "unloaded", call[m]) /\ UNCHANGED faults
     \/ Becomes(m, "failed", call[m]) /\ Spend

(* POST /models/load: refused for a model that is not unloaded.             *)
TakesLoad(m) ==
  /\ call[m].at = "post" /\ call[m].op = "load"
  /\ LET accepted == worker[m] \in {"unloaded", "failed"} IN
     Becomes(m, IF accepted THEN "loading" ELSE worker[m],
             [call[m] EXCEPT !.at = "posted", !.answer = accepted])
  /\ UNCHANGED faults

(* POST /models/unload: refused for a model that is not running.            *)
TakesUnload(m) ==
  /\ call[m].at = "post" /\ call[m].op = "unload"
  /\ LET accepted == worker[m] \in {"loading", "loaded", "unloading"} IN
     Becomes(m, IF accepted THEN "unloading" ELSE worker[m],
             [call[m] EXCEPT !.at = "posted", !.answer = accepted])
  /\ UNCHANGED faults

(* Any other refusal. *)
Refuses(m) ==
  /\ call[m].at = "post" /\ Spend
  /\ call' = [call EXCEPT ![m].at = "posted", ![m].answer = FALSE]
  /\ UNCHANGED <<worker, result>>

(* GET /models *)
Lists(m) ==
  /\ call[m].at \in {"check", "poll"}
  /\ call' = [call EXCEPT ![m].at = IF @ = "poll" THEN "polled" ELSE "checked",
                          ![m].answer = Reported(worker[m])]
  /\ UNCHANGED <<worker, result, faults>>

-----------------------------------------------------------------------------
(* The adapter *)

Ask(m, op) ==
  /\ call[m].op = None /\ result[m] = None
  /\ call' = [call EXCEPT ![m] =
       [op |-> op, at |-> IF op = "wait" THEN "poll" ELSE "post", answer |-> None,
        late |-> FALSE, met |-> Reported(worker[m]).value = Expected(op)]]
  /\ UNCHANGED <<worker, result, faults>>

Returns(m, ok) ==
  /\ call' = [call EXCEPT ![m] = NoCall]
  /\ result' = [result EXCEPT ![m] = [op |-> call[m].op, ok |-> ok]]

(* A request or its answer is lost, or the answer makes no sense, or lacks  *)
(* the model: an error, wherever the call is.                               *)
Lost(m) ==
  /\ call[m].op # None /\ call[m].at # "sleep" /\ Spend
  /\ Returns(m, FALSE)
  /\ UNCHANGED worker

(* The answer to the POST *)
\* MISTAKE: a refused unload is taken for one that has happened
TrustRefusal(m) ==
  /\ call[m].at = "posted"
  /\ IF call[m].answer
       THEN Goes(m, "poll") /\ UNCHANGED result
       ELSE Returns(m, call[m].op = "unload")
  /\ UNCHANGED <<worker, faults>>

Posted(m) ==
  /\ call[m].at = "posted"
  /\ IF call[m].answer
       THEN Goes(m, "poll") /\ UNCHANGED result
       ELSE IF call[m].op = "unload"
              THEN Goes(m, "check") /\ UNCHANGED result
              ELSE Returns(m, FALSE)
  /\ UNCHANGED <<worker, faults>>

(* A refused unload has happened already if the model is unloaded.          *)
Checked(m) ==
  /\ call[m].at = "checked"
  /\ Returns(m, call[m].answer.value = "unloaded")
  /\ UNCHANGED <<worker, faults>>

(* wait_for_state, one turn of its loop *)
\* MISTAKE: the deadline is forgotten
NoDeadline(m) ==
  LET seen == call[m].answer IN
  /\ call[m].at = "polled"
  /\ CASE seen.failed -> Returns(m, FALSE)
       [] ~seen.failed /\ seen.value = Expected(call[m].op) -> Returns(m, TRUE)
       [] OTHER -> Goes(m, "sleep") /\ UNCHANGED result
  /\ UNCHANGED <<worker, faults>>

\* MISTAKE: after the deadline the unload is taken for done
LateIsDone(m) ==
  LET seen == call[m].answer IN
  /\ call[m].at = "polled"
  /\ CASE seen.failed -> Returns(m, FALSE)
       [] ~seen.failed /\ seen.value = Expected(call[m].op) -> Returns(m, TRUE)
       [] OTHER -> IF call[m].late THEN Returns(m, call[m].op = "unload")
                                   ELSE Goes(m, "sleep") /\ UNCHANGED result
  /\ UNCHANGED <<worker, faults>>

Polled(m) ==
  LET seen == call[m].answer IN
  /\ call[m].at = "polled"
  /\ CASE seen.failed -> Returns(m, FALSE)
       [] ~seen.failed /\ seen.value = Expected(call[m].op) -> Returns(m, TRUE)
       [] OTHER -> IF call[m].late THEN Returns(m, FALSE)
                                   ELSE Goes(m, "sleep") /\ UNCHANGED result
  /\ UNCHANGED <<worker, faults>>

PollAgain(m) ==
  /\ call[m].at = "sleep" /\ Goes(m, "poll")
  /\ UNCHANGED <<worker, result, faults>>

Deadline(m) ==
  /\ call[m].at \in {"poll", "polled", "sleep"} /\ ~call[m].late
  /\ call' = [call EXCEPT ![m].late = TRUE]
  /\ UNCHANGED <<worker, result, faults>>

RouterStep(m) ==
  \/ Starts(m) \/ LoadFails(m) \/ Crashes(m) \/ Exits(m)
  \/ TakesLoad(m) \/ TakesUnload(m) \/ Refuses(m) \/ Lists(m)

AdapterStep(m) == Lost(m) \/ Posted(m) \/ Checked(m) \/ Polled(m) \/ PollAgain(m) \/ Deadline(m)

(* Requests are answered or lost in the end (every request has a time       *)
(* limit), the call goes on and its deadline passes; workers promise nothing. *)
AdapterFairness ==
  \A m \in Models :
    /\ WF_adapterVars(TakesLoad(m) \/ TakesUnload(m) \/ Lists(m))
    /\ WF_adapterVars(Posted(m) \/ Checked(m) \/ Polled(m) \/ PollAgain(m))
    /\ WF_adapterVars(Deadline(m))

-----------------------------------------------------------------------------
(* Properties *)

AdapterTypeOK ==
  /\ worker \in [Models -> WorkerState]
  /\ \A m \in Models :
       /\ call[m].op \in Ops \cup {None}
       /\ call[m].at \in {"none", "post", "posted", "check", "checked", "poll",
                          "polled", "sleep"}
       /\ call[m].late \in BOOLEAN /\ call[m].met \in BOOLEAN
       /\ result[m] # None =>
            result[m].op \in Ops /\ result[m].ok \in BOOLEAN
  /\ faults \in 0..MaxFaults

(* The adapter keeps the promise of the protocol Backend. *)
Promise == INSTANCE Backend WITH
  state <- [m \in Models |-> Reported(worker[m]).value],
  call <- [m \in Models |-> [op |-> call[m].op, met |-> call[m].met]],
  result <- result
ImplementsBackend == Promise!Spec

(* An unload that has returned well has freed the model's resources, and    *)
(* nothing takes them again until a load of the model is asked for.         *)
Freed == Promise!Freed

(* Every call returns, whatever the workers do: one that is never seen in   *)
(* the expected state is given up at the deadline.                          *)
CallsReturn == \A m \in Models : call[m].op # None ~> call[m].op = None

=============================================================================
