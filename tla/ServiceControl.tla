--------------------------- MODULE ServiceControl ---------------------------
(***************************************************************************)
(* One managed service: the broker changes its model by having a container *)
(* stopped and started with other settings (managed.py).  The broker's     *)
(* calls go through a client (servicecontrol.py) to a privileged helper    *)
(* (model-broker-service-control.py), which runs each on a thread: a start *)
(* or stop takes the service's lock, runs docker compose, and then reads   *)
(* the container's status; a status call only reads it, without the lock.  *)
(*                                                                         *)
(* A thread does not learn that its client has left.  What the broker gave *)
(* up on, or asked before it restarted, goes on and takes effect later.    *)
(*                                                                         *)
(* Settings are abstract: a container has those of one of the models, or   *)
(* of none.  The scheduler is reduced to what it does with one service: it *)
(* loads or unloads one model at a time, waits for those it has adopted    *)
(* while they were loading, and may survey the service at any moment,      *)
(* because of a problem of this one or of another.                         *)
(***************************************************************************)
EXTENDS Naturals, FiniteSets

CONSTANTS
  Models,      \* the models of the service, each with settings of its own
  Threads,     \* handler threads of the helper, as many as there are calls
  Unrecognised, \* stands for settings that match no model
  None,
  MaxFaults,   \* bound: failed calls and commands, crashes
  MaxRestarts  \* bound: restarts of the broker

ASSUME ServiceAssumption ==
  /\ None \notin Models /\ None \notin Threads /\ Threads \subseteq Nat
  /\ Unrecognised \notin Models /\ Unrecognised # None
  /\ MaxFaults \in Nat /\ MaxRestarts \in Nat

VARIABLES
  (* Docker *)
  container, \* its state, the model it was created for; does the service's
             \* API answer, and is it being stopped?
  (* The helper *)
  thread,    \* what each thread serves, and the docker command it runs
  mutex,     \* the thread that holds the service's lock
  (* The broker *)
  task,      \* the load or unload under way, and the call it awaits
  known,     \* what its record takes each model for
  look,      \* what a survey has read, until it is merged
  (* Bounds, and history that only properties read *)
  faults, restarts,
  blind,     \* has the broker not read the service since it started?
  misled,    \* was it ever answered while an abandoned change was under way?
  overtaken  \* has it ever merged an answer older than the end of a load?

dockerVars == <<container>>
helperVars == <<thread, mutex>>
brokerVars == <<known, look, blind, overtaken>>
boundVars  == <<faults, restarts>>
vars == <<dockerVars, helperVars, task, brokerVars, boundVars, misled>>

-----------------------------------------------------------------------------
(* Data *)

(* Docker's states; `dead' is like exited and `paused' like restarting. *)
DockerState == {"missing", "created", "running", "restarting", "exited"}
Occupying(state) == state \in {"running", "restarting"}

(* What a container was created for. *)
Kinds == Models \cup {Unrecognised, None}

(* A ServiceStatus, or the failure of a call. *)
Answer == [state : DockerState \cup {"failed"}, model : Kinds]
Failed == [state |-> "failed", model |-> None]

Resting == [op |-> "none", at |-> "none", model |-> None, found |-> FALSE,
            waited |-> FALSE]
NoTask == [op |-> "none", at |-> "none", model |-> None, call |-> None,
           answer |-> None, late |-> FALSE, raced |-> FALSE, own |-> FALSE]

(* no: there is no record.  loading: by the broker.  adopted: found loading. *)
(* failing: the load has failed, and the service is asked whether the model  *)
(* is gone.  unsure: it did not say so.                                      *)
Views == {"no", "loading", "adopted", "failing", "ready", "unsure"}

Becomes(m, view) == known' = [known EXCEPT ![m] = view]

Spend == faults < MaxFaults /\ faults' = faults + 1

(* Threads changing the container for nobody: their client has left. *)
Abandoned == {t \in Threads : thread[t].op \in {"start", "stop"} /\ t # task.call}

Init ==
  /\ container \in
       {c \in [state : DockerState, model : Kinds, api : BOOLEAN, ending : {FALSE}] :
          /\ c.state = "missing" <=> c.model = None
          /\ c.api => c.state = "running"}
  /\ thread = [t \in Threads |-> Resting] /\ mutex = None
  /\ task = NoTask /\ known = [m \in Models |-> "no"] /\ look = None
  /\ faults = 0 /\ restarts = 0
  /\ blind = TRUE /\ misled = FALSE /\ overtaken = FALSE

-----------------------------------------------------------------------------
(* Docker and the service's own process *)

ApiAnswers == container.state = "running" /\ container.api

(* The service has read its model and starts to answer. *)
Ready ==
  /\ container.state = "running" /\ ~container.api /\ ~container.ending
  /\ container' = [container EXCEPT !.api = TRUE]
  /\ UNCHANGED <<helperVars, task, brokerVars, boundVars, misled>>

(* The process ends; the restart policy may bring it back. *)
Crash ==
  /\ container.state = "running" /\ ~container.ending /\ Spend
  /\ \E state \in {"exited", "restarting"} :
       container' = [container EXCEPT !.state = state, !.api = FALSE]
  /\ UNCHANGED <<helperVars, task, brokerVars, restarts, misled>>

ComesBack ==
  /\ container.state = "restarting" /\ ~container.ending
  /\ container' = [container EXCEPT !.state = "running"]
  /\ UNCHANGED <<helperVars, task, brokerVars, boundVars, misled>>

(* A container asked to stop has stopped, or was killed after its grace     *)
(* period, whether or not the command that asked still waits for it.        *)
Stopped ==
  /\ container.ending
  /\ container' = [container EXCEPT !.state = "exited", !.api = FALSE,
                                    !.ending = FALSE]
  /\ UNCHANGED <<helperVars, task, brokerVars, boundVars, misled>>

-----------------------------------------------------------------------------
(* The helper *)

Goes(t, step) == thread' = [thread EXCEPT ![t].at = step]

Release(t) == mutex' = IF mutex = t THEN None ELSE mutex

(* The thread is done; its client, if it still waits, has its answer.       *)
Finish(t, answer) ==
  /\ thread' = [thread EXCEPT ![t] = Resting]
  /\ IF task.call = t
       THEN /\ task' = [task EXCEPT !.call = None, !.answer = answer,
                                    !.raced = @ \/ Abandoned # {}]
            /\ misled' = (misled \/ Abandoned # {})
       ELSE UNCHANGED <<task, misled>>

(* Mutations take the lock of their service, in no particular order. *)
\* MISTAKE: there is no lock
Unlocked(t) ==
  /\ thread[t].at = "lock"
  /\ Goes(t, "compose")
  /\ UNCHANGED <<dockerVars, mutex, task, brokerVars, boundVars, misled>>

(* The call that the task awaits goes on waiting, also if it was first.     *)
Lock(t) ==
  /\ thread[t].at = "lock" /\ mutex = None
  /\ mutex' = t
  /\ thread' = [u \in Threads |->
       IF u = t THEN [thread[u] EXCEPT !.at = "compose"]
       ELSE [thread[u] EXCEPT !.waited = @ \/ (u = task.call /\ thread[u].at = "lock")]]
  /\ UNCHANGED <<dockerVars, task, brokerVars, boundVars, misled>>

Composing(t, op) == thread[t].at = "compose" /\ thread[t].op = op

(* compose up: a container with other settings is stopped and removed ...   *)
UpStopOld(t) ==
  /\ Composing(t, "start")
  /\ container.state # "missing" /\ container.model # thread[t].model
  /\ Occupying(container.state) /\ ~container.ending
  /\ container' = [container EXCEPT !.ending = TRUE]
  /\ UNCHANGED <<helperVars, task, brokerVars, boundVars, misled>>

(* ... so that a status call which has just listed it cannot inspect it ... *)
UpRemoveOld(t) ==
  /\ Composing(t, "start")
  /\ container.state # "missing" /\ container.model # thread[t].model
  /\ ~Occupying(container.state)
  /\ container' = [state |-> "missing", model |-> None, api |-> FALSE, ending |-> FALSE]
  /\ thread' = [u \in Threads |-> [thread[u] EXCEPT !.found = FALSE]]
  /\ UNCHANGED <<mutex, task, brokerVars, boundVars, misled>>

(* ... one is created with the settings, where there is none ...            *)
UpCreate(t) ==
  /\ Composing(t, "start") /\ container.state = "missing"
  /\ container' = [container EXCEPT !.state = "created", !.model = thread[t].model]
  /\ UNCHANGED <<helperVars, task, brokerVars, boundVars, misled>>

(* ... and started, unless it runs: then nothing is done.                   *)
UpStart(t) ==
  /\ Composing(t, "start") /\ container.model = thread[t].model
  /\ container' = [container EXCEPT !.state = IF Occupying(@) THEN @ ELSE "running"]
  /\ Goes(t, "list")
  /\ UNCHANGED <<mutex, task, brokerVars, boundVars, misled>>

(* compose stop: ask, then wait until it has stopped. *)
StopAsk(t) ==
  /\ Composing(t, "stop") /\ Occupying(container.state) /\ ~container.ending
  /\ container' = [container EXCEPT !.ending = TRUE]
  /\ UNCHANGED <<helperVars, task, brokerVars, boundVars, misled>>

StopDone(t) ==
  /\ Composing(t, "stop") /\ ~Occupying(container.state)
  /\ Goes(t, "list")
  /\ UNCHANGED <<dockerVars, mutex, task, brokerVars, boundVars, misled>>

(* status(): docker ps ... *)
List(t) ==
  /\ thread[t].at = "list"
  /\ IF container.state = "missing"
       THEN Finish(t, [state |-> "missing", model |-> None]) /\ Release(t)
       ELSE /\ thread' = [thread EXCEPT ![t].at = "inspect", ![t].found = TRUE]
            /\ UNCHANGED <<mutex, task, misled>>
  /\ UNCHANGED <<dockerVars, brokerVars, boundVars>>

(* ... then docker inspect of the container it named. *)
Inspect(t) ==
  /\ thread[t].at = "inspect"
  /\ Finish(t, IF thread[t].found
                 THEN [state |-> container.state, model |-> container.model]
                 ELSE Failed)
  /\ Release(t)
  /\ UNCHANGED <<dockerVars, brokerVars, boundVars>>

(* A docker command fails or exceeds its time limit and is killed. *)
CommandFails(t) ==
  /\ thread[t].at \in {"compose", "list", "inspect"} /\ Spend
  /\ Finish(t, Failed)
  /\ Release(t)
  /\ UNCHANGED <<dockerVars, brokerVars, restarts>>

(* The helper is restarted: its threads end where they are. *)
HelperRestarts ==
  /\ \E t \in Threads : thread[t] # Resting
  /\ Spend
  /\ thread' = [t \in Threads |-> Resting] /\ mutex' = None
  /\ task' = IF task.call = None THEN task
             ELSE [task EXCEPT !.call = None, !.answer = Failed]
  /\ UNCHANGED <<dockerVars, brokerVars, restarts, misled>>

-----------------------------------------------------------------------------
(* The broker's calls *)

(* The call runs on a thread of its own; the task awaits its answer. *)
Ask(op, next) ==
  \E t \in Threads :
    /\ thread[t] = Resting /\ \A u \in Threads : thread[u] = Resting => t <= u
    /\ thread' = [thread EXCEPT ![t] =
         [Resting EXCEPT !.op = op, !.at = IF op = "status" THEN "list" ELSE "lock",
                         !.model = IF op = "start" THEN next.model ELSE None,
                         !.waited = op # "status" /\ mutex # None]]
    /\ task' = [next EXCEPT !.call = t, !.answer = None]

(* The client stops waiting.  Its limit is longer than one docker command   *)
(* may take: it has to wait for the lock or for a second command besides.   *)
GiveUp ==
  LET t == task.call IN
  /\ t # None
  /\ \/ thread[t].waited
     \/ thread[t].at = "inspect"
     \/ thread[t].at = "list" /\ thread[t].op # "status"
  /\ Spend
  /\ task' = [task EXCEPT !.call = None, !.answer = Failed]
  /\ UNCHANGED <<dockerVars, helperVars, brokerVars, restarts, misled>>

(* What an answer says. *)
Runs(answer, m) == Occupying(answer.state) /\ answer.model = m
\* MISTAKE: a model of the service may be replaced by another
Reached(answer, m) == answer.state # "failed"

Clear(answer, m) == answer.state # "failed" /\ (Occupying(answer.state) => answer.model = m)
\* MISTAKE: a call that fails is taken for the proof that nothing runs
NotSeen(answer, m) == ~Runs(answer, m)

Gone(answer, m) == answer.state # "failed" /\ ~Runs(answer, m)

Answered(op, step) == task.op = op /\ task.at = step /\ task.answer # None

-----------------------------------------------------------------------------
(* ManagedService.load and unload, within a task of the scheduler *)

End == task' = NoTask /\ UNCHANGED thread

Begin(op, m) ==
  Ask("status", [NoTask EXCEPT !.op = op, !.at = "check", !.model = m,
                               !.own = op = "unload"])
Change(op)   == Ask(op, [task EXCEPT !.at = "change"])
Watch        == Ask("status", [task EXCEPT !.at = "wait"])

(* load_failed: the service is asked whether the model is gone. *)
Confirm ==
  /\ Ask("status", [task EXCEPT !.op = "confirm", !.at = "check"])
  /\ Becomes(task.model, "failing")

(* What a survey has read is older than the end of a load. *)
Ages == look' = IF look = None THEN None ELSE [look EXCEPT !.old = TRUE]

(* A swap loads a model: its resources are claimed from the decision on,    *)
(* which was taken before, when no survey was under way.                    *)
Load(m) ==
  /\ task = NoTask /\ ~blind /\ \A n \in Models : known[n] = "no"
  /\ Becomes(m, "loading")
  /\ Begin("load", m)
  /\ UNCHANGED <<dockerVars, mutex, look, blind, overtaken, boundVars, misled>>

LoadChecked ==
  /\ Answered("load", "check")
  /\ \/ ~Clear(task.answer, task.model) /\ Confirm
     \/ /\ Clear(task.answer, task.model) /\ UNCHANGED known
        /\ IF Occupying(task.answer.state) THEN Watch ELSE Change("start")
  /\ UNCHANGED <<dockerVars, mutex, look, blind, overtaken, boundVars, misled>>

(* The record is a victim from its choice on, as long as it is the one that *)
(* was chosen (own).                                                        *)
Unload(m) ==
  /\ task = NoTask /\ known[m] \in {"ready", "unsure"}
  /\ Begin("unload", m)
  /\ UNCHANGED <<dockerVars, mutex, brokerVars, boundVars, misled>>

UnloadChecked ==
  /\ Answered("unload", "check")
  /\ \/ ~Clear(task.answer, task.model) /\ End
     \/ /\ Clear(task.answer, task.model)
        /\ IF Occupying(task.answer.state) THEN Change("stop") ELSE Watch
  /\ UNCHANGED <<dockerVars, mutex, brokerVars, boundVars, misled>>

Changed ==
  /\ task.at = "change" /\ task.answer # None
  /\ \/ task.answer.state # "failed" /\ Watch /\ UNCHANGED known
     \/ task.answer.state = "failed" /\ task.op = "load" /\ Confirm
     \/ task.answer.state = "failed" /\ task.op = "unload" /\ End /\ UNCHANGED known
  /\ UNCHANGED <<dockerVars, mutex, look, blind, overtaken, boundVars, misled>>

(* wait_for_state: look again after a pause, unless the deadline is over.   *)
\* MISTAKE: the deadline is not looked at
Never == FALSE

Late == task.late
Pause == task' = [task EXCEPT !.answer = None] /\ UNCHANGED thread

Deadline ==
  /\ task.at = "wait" /\ ~task.late
  /\ task' = [task EXCEPT !.late = TRUE]
  /\ UNCHANGED <<dockerVars, helperVars, brokerVars, boundVars, misled>>

Poll ==
  /\ task.op \in {"load", "unload"} /\ task.at = "wait"
  /\ task.call = None /\ task.answer = None
  /\ Watch
  /\ UNCHANGED <<dockerVars, mutex, brokerVars, boundVars, misled>>

(* Loaded: the container is the model's, runs, and its API answers. *)
IsLoaded(answer, m) == answer.state = "running" /\ answer.model = m /\ ApiAnswers

AwaitLoaded ==
  /\ Answered("load", "wait")
  /\ LET a == task.answer
         hopeless == a.state \in {"failed", "exited", "missing"} \/ ~Clear(a, task.model)
     IN \/ IsLoaded(a, task.model) /\ Becomes(task.model, "ready") /\ Ages /\ End
        \/ hopeless /\ Confirm /\ UNCHANGED look
        \/ /\ ~IsLoaded(a, task.model) /\ ~hopeless /\ UNCHANGED look
           /\ IF Late THEN Confirm ELSE Pause /\ UNCHANGED known
  /\ UNCHANGED <<dockerVars, mutex, blind, overtaken, boundVars, misled>>

(* The record is dropped by its name, also one that took its place. *)
AwaitUnloaded ==
  /\ Answered("unload", "wait")
  /\ \/ Gone(task.answer, task.model) /\ Becomes(task.model, "no") /\ End
     \/ /\ ~Gone(task.answer, task.model) /\ UNCHANGED known
        /\ IF task.answer.state = "failed" \/ Late THEN End ELSE Pause
  /\ UNCHANGED <<dockerVars, mutex, look, blind, overtaken, boundVars, misled>>

(* load_failed: the resources are released only if the model is not there.  *)
ConfirmFailed ==
  /\ task.op = "confirm" /\ task.answer # None
  /\ Becomes(task.model, IF Gone(task.answer, task.model) THEN "no" ELSE "unsure")
  /\ Ages /\ End
  /\ UNCHANGED <<dockerVars, mutex, blind, overtaken, boundVars, misled>>

-----------------------------------------------------------------------------
(* The waits for adopted models, and the surveys.  Their status calls only  *)
(* read, and are taken as of the moment that they do; they may all fail.    *)

Seen == [state |-> container.state, model |-> container.model]

(* finish_load: the model is seen loaded, or it is not in time. *)
Adoption(m) ==
  /\ known[m] = "adopted"
  /\ \/ IsLoaded(Seen, m) /\ Becomes(m, "ready")
     \/ Becomes(m, "failing")
  /\ UNCHANGED <<dockerVars, helperVars, task, look, blind, overtaken, boundVars, misled>>

(* load_failed *)
AdoptionFailed(m) ==
  /\ known[m] = "failing" /\ ~(task.op = "confirm" /\ task.model = m)
  /\ \/ Gone(Seen, m) /\ Becomes(m, "no") /\ misled' = (misled \/ Abandoned # {})
     \/ Becomes(m, "unsure") /\ UNCHANGED misled
  /\ UNCHANGED <<dockerVars, helperVars, task, look, blind, overtaken, boundVars>>

(* reinspect, also at start-up: the service is read ...                     *)
SurveyRead ==
  /\ look = None
  /\ look' = [model |-> IF Occupying(container.state) THEN container.model ELSE None,
              old |-> FALSE]
  /\ misled' = (misled \/ Abandoned # {})
  /\ UNCHANGED <<dockerVars, helperVars, task, known, blind, overtaken, boundVars>>

(* ... and the answer is merged.  The model that is listed is adopted,      *)
(* unless there is a record that has not failed; one that is not listed is  *)
(* dropped, unless it is a victim, is loading or serves a request.          *)
Replaced(m) == look.model = m /\ known[m] \in {"no", "failing", "unsure"}

Droppable(m) ==
  /\ look.model # m /\ known[m] \in {"ready", "unsure"}
  /\ ~(task.op = "unload" /\ task.model = m /\ task.own)

Merge ==
  /\ look # None /\ look' = None
  /\ \E dropped \in SUBSET {m \in Models : Droppable(m)} :
       /\ \A m \in Models : Droppable(m) /\ known[m] = "unsure" => m \in dropped
       /\ known' = [m \in Models |->
            CASE Replaced(m) -> IF ApiAnswers THEN "ready" ELSE "adopted"
              [] m \in dropped -> "no"
              [] OTHER -> known[m]]
  /\ task' = CASE task.op = "confirm" /\ Replaced(task.model) -> NoTask
               [] task.op = "unload" /\ Replaced(task.model) -> [task EXCEPT !.own = FALSE]
               [] OTHER -> task
  /\ blind' = FALSE /\ overtaken' = (overtaken \/ look.old)
  /\ UNCHANGED <<dockerVars, helperVars, boundVars, misled>>

(* The broker is restarted: the helper goes on with what it was asked. *)
BrokerRestarts ==
  /\ restarts < MaxRestarts /\ restarts' = restarts + 1
  /\ task' = NoTask /\ known' = [m \in Models |-> "no"] /\ look' = None /\ blind' = TRUE
  /\ UNCHANGED <<dockerVars, helperVars, overtaken, faults, misled>>

-----------------------------------------------------------------------------
HelperStep(t) ==
  \/ Lock(t) \/ UpStopOld(t) \/ UpRemoveOld(t) \/ UpCreate(t) \/ UpStart(t)
  \/ StopAsk(t) \/ StopDone(t) \/ List(t) \/ Inspect(t)

TaskStep ==
  \/ LoadChecked \/ UnloadChecked \/ Changed \/ Poll
  \/ AwaitLoaded \/ AwaitUnloaded \/ ConfirmFailed

Next ==
  \/ Ready \/ Crash \/ ComesBack \/ Stopped
  \/ \E t \in Threads : HelperStep(t) \/ CommandFails(t)
  \/ HelperRestarts \/ GiveUp \/ BrokerRestarts
  \/ \E m \in Models : Load(m) \/ Unload(m) \/ Adoption(m) \/ AdoptionFailed(m)
  \/ SurveyRead \/ Merge \/ TaskStep \/ Deadline

Spec == Init /\ [][Next]_vars

(* Fairness: threads and the broker's task go on, a deadline passes, and a  *)
(* container that was asked to stop stops.  Commands and calls that hang    *)
(* end at their time limits; as these are failures, none is assumed.        *)
FairSpec ==
  /\ Spec
  /\ \A t \in Threads : WF_vars(HelperStep(t))
  /\ WF_vars(TaskStep) /\ WF_vars(Deadline) /\ WF_vars(Stopped)

-----------------------------------------------------------------------------
(* Properties *)

ThreadType ==
  [op : {"none", "status", "start", "stop"}, found : BOOLEAN, waited : BOOLEAN,
   at : {"none", "lock", "compose", "list", "inspect"}, model : Models \cup {None}]
TaskType ==
  [op : {"none", "load", "unload", "confirm"},
   at : {"none", "check", "change", "wait"}, model : Models \cup {None},
   call : Threads \cup {None}, answer : Answer \cup {None},
   late : BOOLEAN, raced : BOOLEAN, own : BOOLEAN]
LookType == [model : Kinds, old : BOOLEAN]

(* Every variable has its type, and the lock is held by exactly the thread  *)
(* that changes the container or reads it afterwards.                       *)
TypeOK ==
  /\ container \in [state : DockerState, model : Kinds, api : BOOLEAN, ending : BOOLEAN]
  /\ thread \in [Threads -> ThreadType]
  /\ task \in TaskType
  /\ known \in [Models -> Views] /\ look \in LookType \cup {None}
  /\ {blind, misled, overtaken} \subseteq BOOLEAN
  /\ \A t \in Threads :
       mutex = t <=> /\ thread[t].op \in {"start", "stop"}
                     /\ thread[t].at \in {"compose", "list", "inspect"}

Holder == Occupying(container.state) /\ container.model \in Models

(* The model whose container runs holds its resources in the broker's view, *)
(* whichever calls failed: nothing else may be placed on its GPUs.  Two     *)
(* kinds of answers only may mislead it: one given while an abandoned       *)
(* change was under way, and that of a survey merged after a load has ended *)
(* that had not when it was given.                                          *)
HolderTracked ==
  Holder /\ ~blind /\ ~misled /\ ~overtaken => known[container.model] # "no"

(* A container is asked to stop for no other reason than that its own model *)
(* is being unloaded, although the check and the change are two calls: a    *)
(* start never takes the place of a model that runs, and a stop never hits  *)
(* another one.  This is so unless an abandoned change raced with the task. *)
StoppedToUnload ==
  [][~container.ending /\ container'.ending /\ mutex = task.call /\ ~task.raced
       => task.op = "unload" /\ container.model = task.model]_vars

(* Every load, unload and confirmation that a load has failed comes to an  *)
(* end, whatever fails.                                                     *)
TaskEnds == task.op # "none" ~> task.op = "none"

(* "A timeout or a lost connection does not show that the worker has gone;  *)
(* it may still be loading onto its GPUs.  The model then keeps its         *)
(* resources": also when it is the call to start the container that was     *)
(* given up, and its status still says that nothing runs.  The code does    *)
(* not keep this.                                                           *)
LateStartKept ==
  Holder /\ ~blind /\ ~overtaken => known[container.model] # "no"

=============================================================================
