----------------------------- MODULE Scheduler ------------------------------
(***************************************************************************)
(* The scheduler of the model broker (scheduler.py): requests are admitted  *)
(* to loaded models, and models are unloaded and loaded to make room when   *)
(* every model in the way is idle.                                          *)
(*                                                                          *)
(* The broker is one asyncio process, so an action here is the code between *)
(* two awaits that may really suspend.  Requests, the background task of a  *)
(* record (a swap, or the wait for an adopted model) and the servers that   *)
(* hold the models interleave.                                              *)
(*                                                                          *)
(* Time is abstract.  A record is `recent' while its last activity lies in  *)
(* the protection window, a request is `late' once its deadline has passed, *)
(* and a request that waits (wait_for_change) may look again at any moment: *)
(* notifications and the poll only decide when.  A decode count is `moved'  *)
(* when it is unknown or differs from the last one observed.                *)
(***************************************************************************)
EXTENDS Claims, Integers

CONSTANTS
  Requests,     \* connections to the broker; each carries one request at a time
  Backends,     \* the servers: the llama.cpp router and the managed services
  Services,     \* those that change model by restarting a container
  BackendOf,    \* the backend that serves each model
  Records,      \* identities of LoadedModel objects
  ModelOf,      \* the model a LoadedModel is a record of (its variant)
  Cancellable,  \* the requests whose client may leave while they wait
  None,
  Boot,         \* the broker's own start-up, which surveys before serving
  MaxFaults,    \* bound: failures of servers and of calls to them
  MaxRestarts,  \* bound: restarts of the broker
  MaxOutside    \* bound: work sent to the servers behind the broker's back

ASSUME SchedulerAssumption ==
  /\ BackendOf \in [Models -> Backends] /\ Services \subseteq Backends
  /\ ModelOf \in [Records -> Models]
  /\ Cancellable \subseteq Requests
  /\ None \notin Records /\ None \notin Models /\ None \notin Requests
  /\ Boot \notin Requests /\ Boot # None
  /\ MaxFaults \in Nat /\ MaxRestarts \in Nat /\ MaxOutside \in Nat
  /\ IsFiniteSet(Requests)

VARIABLES
  (* The broker's view of the servers (RouterView) *)
  loaded,    \* for each model its LoadedModel, or None
  rec,       \* the fields of every LoadedModel
  problems,  \* is view.problems non-empty?
  (* The requests *)
  pc,        \* where the request is suspended, "idle" when there is none
  want,      \* the model it asks for
  on,        \* the LoadedModel it is queued on or admitted to
  ahead,     \* the requests whose tickets were queued before its own
  late,      \* the requests whose max_wait_seconds are over
  (* The scheduling lock and what its holder has read *)
  lock,      \* its holder
  stage,     \* what the holder awaits
  probe,     \* place(): the models in the way and what was seen of them
  scan,      \* reinspect(): what the servers reported, and the models to track
  (* The background task of each record *)
  job,
  (* The servers *)
  server,    \* the state of each model on its server
  outside,   \* the models working for somebody else than the broker
  faults, restarts, outsiders,  \* counters that bound the environment
  (* History, read by the properties only *)
  misled,    \* has a survey misled the broker?  (Misleads)
  blind      \* the backends not yet read since the broker started

viewVars   == <<loaded, rec, problems>>
reqVars    == <<pc, want, on, ahead, late>>
lockVars   == <<lock, stage, probe, scan>>
serverVars == <<server, outside>>
boundVars  == <<faults, restarts, outsiders>>
histVars   == <<misled, blind>>
vars == <<viewVars, reqVars, lockVars, job, serverVars, boundVars, histVars>>

-----------------------------------------------------------------------------
(* Data *)
(*                                                                          *)
(* Here and below, a definition marked MISTAKE is what the definition after *)
(* it would be if the code had a plausible bug.  No action uses it: the     *)
(* properties are tested by putting it in the other's place.                *)

(* LoadedModel.  `adopted' tells a model found on a server from one this    *)
(* broker loaded: only the swap stamps last_activity when the load ends.    *)
LoadedModel ==
  [active : Int, queued : Int, ready : BOOLEAN, error : BOOLEAN,
   leaving : BOOLEAN, recent : BOOLEAN, moved : BOOLEAN, adopted : BOOLEAN]

Blank == [active |-> 0, queued |-> 0, ready |-> TRUE, error |-> FALSE,
          leaving |-> FALSE, recent |-> FALSE, moved |-> FALSE, adopted |-> FALSE]

(* A model the broker starts to load; the request that placed it is queued. *)
Placed == [Blank EXCEPT !.queued = 1, !.ready = FALSE,
                        !.recent = TRUE, !.moved = TRUE]

(* A model found on a server, in the state the server reported. *)
Adopted(status) == [Blank EXCEPT !.ready = status # "loading", !.recent = TRUE, !.moved = TRUE, !.adopted = TRUE]

NoProbe == [conflicts |-> {}, left |-> {}, at |-> None, warm |-> FALSE]
NoScan  == [seen |-> [m \in Models |-> "unread"], flawed |-> FALSE,
            todo |-> {}, at |-> None]
NoJob   == [at |-> "none", victims |-> {}, victim |-> None]

(* ModelState, as the server has it; `failed' is reported as unloaded with  *)
(* the flag set, and `unloading' as loaded.                                 *)
ServerState == {"unloaded", "failed", "loading", "loaded", "unloading"}
Held(m) == server[m] \in {"loading", "loaded", "unloading"}
Report(m) == CASE server[m] = "loading" -> "loading"
               [] server[m] \in {"loaded", "unloading"} -> "loaded"
               [] OTHER -> "unloaded"

Spend == faults < MaxFaults /\ faults' = faults + 1

(* A record nothing refers to any more. *)
Free(m) ==
  {i \in Records : /\ ModelOf[i] = m
                   /\ loaded[m] # i
                   /\ \A r \in Requests : on[r] # i
                   /\ job[i].at = "none"
                   /\ \A j \in Records : i \notin job[j].victims
                   /\ i \notin probe.conflicts \cup scan.todo \cup {scan.at}}
Fresh(m) == CHOOSE i \in Free(m) : TRUE

(* Once a record is no longer tracked, only requests still queued on it     *)
(* read it, to learn that it is ready and whether it failed.  What is never *)
(* read again is put back to Blank, so that equal situations are one state. *)
Outlived(record) == [Blank EXCEPT !.active = record.active, !.queued = record.queued,
                                  !.ready = record.ready,
                                  !.error = record.error /\ record.queued > 0]
UnqueuedOnSuccess(i) == rec[i]   \* MISTAKE: `queued -= 1' is skipped on an exception
Unqueued(i) ==
  [rec[i] EXCEPT !.queued = @ - 1,
                 !.error = @ /\ (\/ rec[i].queued > 1
                                \/ loaded[ModelOf[i]] = i
                                \/ job[i].at # "none")]

Tickets == {r \in Requests : pc[r] \in {"try", "place"}}

(* Unable to be unloaded, as busy() and place() see it without awaiting. *)
InUse(i) == rec[i].active > 0 \/ rec[i].queued > 0

(* The models in the way of m. *)
Tracked(S) == {loaded[n] : n \in {k \in S : loaded[k] # None}}
LoadedRivals(m) == Tracked(Rivals(m))

(* A server holds the model no more. *)
\* MISTAKE: the unload is not waited for once it is asked for
GoneAccepted(m) == server[m] # "loaded"
Gone(m) == ~Held(m)

Init ==
  /\ loaded = [m \in Models |-> None]
  /\ rec = [i \in Records |-> Blank]
  /\ problems = FALSE
  /\ pc = [r \in Requests |-> "idle"]
  /\ want = [r \in Requests |-> None]
  /\ on = [r \in Requests |-> None]
  /\ ahead = [r \in Requests |-> {}]
  /\ late = {}
  /\ lock = Boot /\ stage = "survey" /\ probe = NoProbe /\ scan = NoScan
  /\ job = [i \in Records |-> NoJob]
  /\ server \in [Models -> ServerState \ {"failed"}]
  /\ Compatible({m \in Models : Held(m)})
  /\ outside = {}
  /\ faults = 0 /\ restarts = 0 /\ outsiders = 0
  /\ misled = FALSE /\ blind = Backends

-----------------------------------------------------------------------------
(* A request's way through acquire() *)

(* The request is answered, or its client is gone. *)
Leave(r) ==
  /\ pc' = [pc EXCEPT ![r] = "idle"]
  /\ want' = [want EXCEPT ![r] = None]
  /\ on' = [on EXCEPT ![r] = None]

(* Its ticket is removed from `waiting'. *)
Withdraw(r) ==
  /\ ahead' = [s \in Requests |-> IF s = r THEN {} ELSE ahead[s] \ {r}]
  /\ late' = late \ {r}

(* check_router() has passed: the ticket is appended to `waiting'. *)
Enter(r) ==
  /\ pc' = [pc EXCEPT ![r] = "try"]
  /\ ahead' = [ahead EXCEPT ![r] = Tickets]
  /\ UNCHANGED late

Arrive(r, m) ==
  /\ pc[r] = "idle" /\ lock # Boot
  /\ want' = [want EXCEPT ![r] = m]
  /\ IF problems
       THEN pc' = [pc EXCEPT ![r] = "check"] /\ UNCHANGED <<ahead, late>>
       ELSE Enter(r)
  /\ UNCHANGED <<viewVars, on, lockVars, job, serverVars, boundVars, histVars>>

(* place() answered Blocked: refused after the deadline, else look again.   *)
\* MISTAKE: the deadline is never looked at
BlockedForGood(r) ==
  pc' = [pc EXCEPT ![r] = "try"] /\ UNCHANGED <<want, on, ahead, late>>
Blocked(r) ==
  IF r \in late THEN Leave(r) /\ Withdraw(r)
                ELSE /\ pc' = [pc EXCEPT ![r] = "try"]
                     /\ UNCHANGED <<want, on, ahead, late>>

(* place() answered Blocked with an obstacle that has already gone.         *)
LookAgain(r) ==
  /\ pc' = [pc EXCEPT ![r] = "try"]
  /\ UNCHANGED <<want, on, ahead, late>>

(* An admission: join() without waiting. *)
Admit(r, i) ==
  /\ rec' = [rec EXCEPT ![i].active = @ + 1]
  /\ pc' = [pc EXCEPT ![r] = "active"]
  /\ on' = [on EXCEPT ![r] = i]
  /\ UNCHANGED want

(* The model is loaded or loading, and stays: join it. *)
Join(r) ==
  /\ pc[r] = "try"
  /\ LET i == loaded[want[r]] IN
     /\ i # None
     /\ ~rec[i].leaving
     /\ Withdraw(r)
     /\ \/ rec[i].ready /\ ~rec[i].error /\ Admit(r, i)
        \/ rec[i].ready /\ rec[i].error /\ Leave(r) /\ UNCHANGED rec
        \/ /\ ~rec[i].ready
           /\ rec' = [rec EXCEPT ![i].queued = @ + 1]
           /\ pc' = [pc EXCEPT ![r] = "wait"]
           /\ on' = [on EXCEPT ![r] = i]
           /\ UNCHANGED want
  /\ UNCHANGED <<loaded, problems, lockVars, job, serverVars, boundVars, histVars>>

Joinable(m) == loaded[m] # None /\ ~rec[loaded[m]].leaving
\* MISTAKE: only requests that are already in place() count
EarlierInLock(r) == \E s \in ahead[r] : want[s] \in Rivals(want[r]) /\ pc[s] = "place"
EarlierRival(r) == \E s \in ahead[r] : want[s] \in Rivals(want[r])

(* An earlier request waits for the same resources. *)
YieldToEarlier(r) ==
  /\ pc[r] = "try"
  /\ ~Joinable(want[r])
  /\ EarlierRival(r)
  /\ Blocked(r)
  /\ UNCHANGED <<viewVars, lockVars, job, serverVars, boundVars, histVars>>

(* First in line: ask for the scheduling lock. *)
AskLock(r) ==
  /\ pc[r] = "try"
  /\ ~Joinable(want[r])
  /\ ~EarlierRival(r)
  /\ pc' = [pc EXCEPT ![r] = "place"]
  /\ UNCHANGED <<viewVars, want, on, ahead, late, lockVars, job, serverVars,
                 boundVars, histVars>>

Deadline(r) ==
  /\ r \in Tickets \ late
  /\ late' = late \cup {r}
  /\ UNCHANGED <<viewVars, pc, want, on, ahead, lockVars, job, serverVars,
                 boundVars, histVars>>

(* The load it waited for has ended, well or badly. *)
Wake(r) ==
  /\ pc[r] = "wait"
  /\ rec[on[r]].ready
  /\ IF rec[on[r]].error
       THEN /\ rec' = [rec EXCEPT ![on[r]] = Unqueued(on[r])]
            /\ Leave(r)
       ELSE /\ rec' = [rec EXCEPT ![on[r]].queued = @ - 1, ![on[r]].active = @ + 1]
            /\ pc' = [pc EXCEPT ![r] = "active"]
            /\ UNCHANGED <<want, on>>
  /\ UNCHANGED <<loaded, problems, ahead, late, lockVars, job, serverVars,
                 boundVars, histVars>>

(* The proxied response has ended, however it ended. *)
Finish(r) ==
  /\ pc[r] = "active"
  /\ \E moved \in {rec[on[r]].moved, TRUE} :
       rec' = [rec EXCEPT ![on[r]].active = @ - 1, ![on[r]].recent = TRUE,
                          ![on[r]].moved = moved]
  /\ Leave(r)
  /\ UNCHANGED <<loaded, problems, ahead, late, lockVars, job, serverVars,
                 boundVars, histVars>>

(* The protection window of a model ends. *)
Expire(m) ==
  /\ loaded[m] # None
  /\ rec[loaded[m]].recent
  /\ rec' = [rec EXCEPT ![loaded[m]].recent = FALSE]
  /\ UNCHANGED <<loaded, problems, reqVars, lockVars, job, serverVars,
                 boundVars, histVars>>

-----------------------------------------------------------------------------
(* place(): the decision, under the lock *)

\* MISTAKE: what the holder was doing is kept
Release == lock' = None /\ UNCHANGED <<stage, probe, scan>>
Unlock == lock' = None /\ stage' = "none" /\ probe' = NoProbe /\ scan' = NoScan

(* A model that busy() finds in use without asking its server. *)
Occupied(i) == rec[i].leaving \/ InUse(i) \/ ~rec[i].ready

(* What place() checks again after its awaits. *)
Leaving(i) == rec[i].leaving   \* MISTAKE: the counters are not looked at again
JustUsed(i) == InUse(i) \/ rec[i].leaving

(* The last step of place(), with no await in it: check the models in the   *)
(* way once more, then mark them as leaving, and start the swap.  records   *)
(* is rec with what the last observation wrote; the lock is released.       *)
Decide(r, conflicts, records) ==
  IF \E i \in conflicts : JustUsed(i)
    THEN LookAgain(r) /\ rec' = records /\ UNCHANGED <<loaded, job>>
    ELSE /\ Free(want[r]) # {}
         /\ LET new == Fresh(want[r]) IN
            /\ rec' = [i \in Records |->
                         IF i = new THEN Placed
                         ELSE [records[i] EXCEPT !.leaving = @ \/ i \in conflicts]]
            /\ loaded' = [loaded EXCEPT ![want[r]] = new]
            /\ job' = [job EXCEPT ![new] =
                         [at |-> IF conflicts = {} THEN "load" ELSE "unload",
                          victims |-> conflicts, victim |-> None]]
            /\ on' = [on EXCEPT ![r] = new]
         /\ pc' = [pc EXCEPT ![r] = "wait"]
         /\ Withdraw(r)
         /\ UNCHANGED want

(* The lock is held and no await is needed to see that r cannot be placed:  *)
(* its model has been placed meanwhile, or is being unloaded.               *)
PlaceKnown(r) ==
  /\ pc[r] = "place" /\ lock = None
  /\ loaded[want[r]] # None
  /\ IF rec[loaded[want[r]]].leaving THEN Blocked(r) ELSE LookAgain(r)
  /\ UNCHANGED <<viewVars, lockVars, job, serverVars, boundVars, histVars>>

(* Nothing is in the way. *)
PlaceFree(r) ==
  /\ pc[r] = "place" /\ lock = None
  /\ loaded[want[r]] = None
  /\ LoadedRivals(want[r]) = {}
  /\ Decide(r, {}, rec)
  /\ UNCHANGED <<problems, lockVars, serverVars, boundVars, histVars>>

(* busy() starts: the first model in the way is occupied, or is observed.   *)
PlaceObserve(r) ==
  /\ pc[r] = "place" /\ lock = None
  /\ loaded[want[r]] = None
  /\ LET rivals == LoadedRivals(want[r]) IN
     \E i \in rivals :
       IF Occupied(i)
         THEN Blocked(r) /\ UNCHANGED lockVars
         ELSE /\ lock' = r /\ stage' = "observe"
              /\ probe' = [conflicts |-> rivals, left |-> rivals \ {i},
                           at |-> i, warm |-> FALSE]
              /\ UNCHANGED <<reqVars, scan>>
  /\ UNCHANGED <<viewVars, job, serverVars, boundVars, histVars>>

(* A model's activity can be read while its server lists it as loaded.      *)
\* MISTAKE: a model that cannot be read is taken for one without work
AnyObservable(m) == TRUE
Observable(m) == server[m] \in {"loaded", "unloading"}

(* The read of a model's activity fails: nothing is known about it. *)
ObserveFails(r) ==
  /\ lock = r /\ stage = "observe"
  /\ IF Observable(ModelOf[probe.at]) THEN Spend ELSE UNCHANGED faults
  /\ Blocked(r) /\ Unlock
  /\ UNCHANGED <<viewVars, job, serverVars, restarts, outsiders, histVars>>

(* What an observation writes: unseen work counts as activity now.          *)
Observed(i) == [rec EXCEPT ![i].recent = @ \/ rec[i].moved, ![i].moved = FALSE]

(* The server works on the model, for somebody else or for a request that   *)
(* has joined it while its activity was read.                               *)
ObserveWorking(r) ==
  /\ lock = r /\ stage = "observe"
  /\ Observable(ModelOf[probe.at])
  /\ ModelOf[probe.at] \in outside \/ rec[probe.at].active > 0
  /\ rec' = Observed(probe.at)
  /\ Blocked(r) /\ Unlock
  /\ UNCHANGED <<loaded, problems, job, serverVars, boundVars, histVars>>

(* The server is idle: go on to the next model in the way. *)
ObserveNext(r) ==
  /\ lock = r /\ stage = "observe"
  /\ Observable(ModelOf[probe.at])
  /\ ModelOf[probe.at] \notin outside
  /\ rec' = Observed(probe.at)
  /\ \E i \in probe.left :
       IF Occupied(i)
         THEN Blocked(r) /\ Unlock
         ELSE /\ probe' = [probe EXCEPT !.left = @ \ {i}, !.at = i,
                                        !.warm = @ \/ rec'[probe.at].recent]
              /\ UNCHANGED <<reqVars, lock, stage, scan>>
  /\ UNCHANGED <<loaded, problems, job, serverVars, boundVars, histVars>>

(* The last one is idle too: wait for the protection windows, or decide.    *)
ObserveLast(r) ==
  /\ lock = r /\ stage = "observe" /\ probe.left = {}
  /\ Observable(ModelOf[probe.at])
  /\ ModelOf[probe.at] \notin outside
  /\ Unlock
  /\ IF probe.warm \/ Observed(probe.at)[probe.at].recent
       THEN rec' = Observed(probe.at) /\ Blocked(r) /\ UNCHANGED <<loaded, job>>
       ELSE Decide(r, probe.conflicts, Observed(probe.at))
  /\ UNCHANGED <<problems, serverVars, boundVars, histVars>>

-----------------------------------------------------------------------------
(* check_router() and reinspect(), under the lock; start-up runs the same   *)
(* survey with nothing tracked yet.                                         *)

CheckRouter(r) ==
  /\ pc[r] = "check" /\ lock = None
  /\ IF problems
       THEN lock' = r /\ stage' = "survey" /\ UNCHANGED <<reqVars, probe, scan>>
       ELSE Enter(r) /\ UNCHANGED <<want, on, lockVars>>
  /\ UNCHANGED <<viewVars, job, serverVars, boundVars, histVars>>

Served(b) == {m \in Models : BackendOf[m] = b}

(* survey() reads one server, the router before the services: it answers,   *)
(* shows a problem with its settings besides, or cannot be reached.         *)
SurveyRead(b) ==
  /\ stage = "survey"
  /\ \E m \in Served(b) : scan.seen[m] = "unread"
  /\ b \in Services =>
       \A m \in Models : BackendOf[m] \notin Services => scan.seen[m] # "unread"
  /\ \/ /\ scan' = [scan EXCEPT !.seen =
              [m \in Models |-> IF m \in Served(b) THEN Report(m) ELSE @[m]]]
        /\ UNCHANGED faults
     \/ /\ Spend
        /\ \/ scan' = [scan EXCEPT !.flawed = TRUE, !.seen =
                 [m \in Models |-> IF m \in Served(b) THEN Report(m) ELSE @[m]]]
           \/ scan' = [scan EXCEPT !.seen =
                 [m \in Models |-> IF m \in Served(b) THEN "down" ELSE @[m]]]
  /\ UNCHANGED <<viewVars, reqVars, lock, stage, probe, job, serverVars,
                 restarts, outsiders, histVars>>

Listed(m) == scan.seen[m] \in {"loading", "loaded"}

(* A listed model without a sound record is adopted; a tracked one that is  *)
(* not listed stays while it is in progress, or if its server is down.      *)
ToAdopt == {m \in Models : /\ Listed(m)
                           /\ loaded[m] # None => rec[loaded[m]].error}
\* MISTAKE: the models of an unreachable server are dropped
StaysKnown(m) ==
  loaded[m] # None /\ (Listed(m) \/ LET i == loaded[m] IN
                         rec[i].active > 0 \/ rec[i].leaving \/ ~rec[i].ready)
Stays(m) ==
  /\ loaded[m] # None
  /\ LET i == loaded[m] IN
     \/ Listed(m)
     \/ scan.seen[m] = "down"
     \/ rec[i].active > 0 \/ rec[i].leaving \/ ~rec[i].ready

(* The task that waits for an adopted model. *)
Watcher == [NoJob EXCEPT !.at = "loading"]

(* track(): the models still loading get a task each; the next ready one in *)
(* line has its decode count read, which the holder awaits.  When none is   *)
(* left the lock is released, and a request goes on or is refused.          *)
Track(todo, ready, unfit) ==
  \E watched \in SUBSET (todo \ ready) :
    /\ job' = [i \in Records |->
                 IF i \in watched THEN Watcher ELSE job[i]]
    /\ \/ \E i \in todo \cap ready :
            /\ stage' = "track"
            /\ scan' = [scan EXCEPT !.todo = todo \ (watched \cup {i}), !.at = i]
            /\ UNCHANGED <<reqVars, lock, probe>>
       \/ /\ watched = todo
          /\ Unlock
          /\ IF lock = Boot THEN UNCHANGED reqVars
             ELSE IF unfit THEN Leave(lock) /\ UNCHANGED <<ahead, late>>
             ELSE Enter(lock) /\ UNCHANGED <<want, on>>

(* The merge misleads the broker: a server has changed since it was read,   *)
(* or a record is given up that a swap or a waiting request still counts on.*)
Misleads ==
  \/ \E m \in Models : scan.seen[m] # "down" /\ Listed(m) # Held(m)
  \/ \E m \in Models :
       /\ loaded[m] # None /\ loaded'[m] # loaded[m]
       /\ rec[loaded[m]].leaving \/ rec[loaded[m]].queued > 0

(* The last server has answered: what they report is merged with the        *)
(* records tracked now.                                                     *)
Merge ==
  /\ stage = "survey"
  /\ \A m \in Models : scan.seen[m] # "unread"
  /\ \A m \in ToAdopt : Free(m) # {}
  /\ loaded' = [m \in Models |-> IF m \in ToAdopt THEN Fresh(m)
                                 ELSE IF Stays(m) THEN loaded[m] ELSE None]
  /\ rec' = [i \in Records |->
               IF ModelOf[i] \in ToAdopt /\ i = Fresh(ModelOf[i])
                 THEN Adopted(scan.seen[ModelOf[i]])
               ELSE IF i = loaded[ModelOf[i]] /\ i # loaded'[ModelOf[i]] /\ job[i].at = "none"
                 THEN Outlived(rec[i]) ELSE rec[i]]
  /\ problems' = \/ scan.flawed
                 \/ \E m \in Models : scan.seen[m] = "down"
                 \/ ~Compatible({m \in Models : Listed(m)})
  /\ Track({Fresh(m) : m \in ToAdopt},
           {Fresh(m) : m \in {k \in ToAdopt : scan.seen[k] = "loaded"}}, problems')
  /\ misled' = (misled \/ Misleads)
  /\ blind' = {b \in blind : \E m \in Served(b) : scan.seen[m] = "down"}
  /\ UNCHANGED <<serverVars, boundVars>>

(* record_baseline() of a model being tracked. *)
TrackNext ==
  /\ stage = "track"
  /\ \/ Observable(ModelOf[scan.at]) /\ UNCHANGED faults
        /\ rec' = [rec EXCEPT ![scan.at].moved = FALSE]
     \/ /\ IF Observable(ModelOf[scan.at]) THEN Spend ELSE UNCHANGED faults
        /\ UNCHANGED rec
  /\ Track(scan.todo, {i \in scan.todo : rec[i].ready}, problems)
  /\ UNCHANGED <<loaded, problems, serverVars, restarts, outsiders, histVars>>

-----------------------------------------------------------------------------
(* A client leaves while its request waits: the finally blocks run. *)

Cancel(r) ==
  /\ r \in Cancellable /\ pc[r] \in {"check", "try", "place", "wait"}
  /\ IF pc[r] = "wait" THEN rec' = [rec EXCEPT ![on[r]] = Unqueued(on[r])]
                       ELSE UNCHANGED rec
  /\ IF lock = r THEN Unlock ELSE UNCHANGED lockVars
  /\ Leave(r) /\ Withdraw(r)
  /\ UNCHANGED <<loaded, problems, job, serverVars, boundVars, histVars>>

-----------------------------------------------------------------------------
(* The background task of a record: swap(), or finish_load() *)

At(i, step) == job' = [job EXCEPT ![i].at = step]

(* The model's load, or the wait for it, has failed: load_failed() starts.  *)
LoadFails(i) ==
  /\ rec' = [rec EXCEPT ![i].error = TRUE]
  /\ At(i, "confirm")

(* A victim is gone: it is dropped by name, and the next one is unloaded.   *)
(* Nothing under that name is a KeyError, which ends the task there.        *)
Removed(i, v) ==
  LET rest == job[i].victims \ {v} IN
  IF loaded[ModelOf[v]] = None
    THEN /\ job' = [job EXCEPT ![i] = [NoJob EXCEPT !.at = "died"]]
         /\ UNCHANGED <<loaded, rec>>
    ELSE /\ rec' = [rec EXCEPT ![v] = Outlived(@)]
         /\ job' = [job EXCEPT ![i] =
                      [at |-> IF rest = {} THEN "load" ELSE "unload",
                       victims |-> rest, victim |-> None]]
         /\ loaded' = [loaded EXCEPT ![ModelOf[v]] = None]

(* An unload has failed: the remaining victims stay, the model is given up. *)
\* MISTAKE: the waiters are not released
GivenUpUnready(i) == Outlived([rec[i] EXCEPT !.error = TRUE])
GivenUp(i) == Outlived([rec[i] EXCEPT !.error = TRUE, !.ready = TRUE])

\* MISTAKE: only the victim that has failed to unload is released
OneReleased(i) ==
  /\ rec' = [j \in Records |->
               IF j = i THEN GivenUp(i)
               ELSE [rec[j] EXCEPT !.leaving = @ /\ j # job[i].victim]]
  /\ loaded' = [loaded EXCEPT ![ModelOf[i]] = None]
  /\ job' = [job EXCEPT ![i] = NoJob]

\* MISTAKE: the model that is given up stays tracked
StaysTracked(i) ==
  /\ rec' = [j \in Records |->
               IF j = i THEN GivenUp(i)
               ELSE [rec[j] EXCEPT !.leaving = @ /\ j \notin job[i].victims]]
  /\ job' = [job EXCEPT ![i] = NoJob]
  /\ UNCHANGED loaded

SwapFails(i) ==
  /\ rec' = [j \in Records |->
               IF j = i THEN GivenUp(i)
               ELSE [rec[j] EXCEPT !.leaving = @ /\ j \notin job[i].victims]]
  /\ loaded' = [loaded EXCEPT ![ModelOf[i]] = None]
  /\ job' = [job EXCEPT ![i] = NoJob]

(* POST /models/unload for the next victim.  A model that is not running    *)
(* counts as unloaded; a call that fails may or may not have had an effect. *)
AskUnload(i) ==
  /\ job[i].at = "unload"
  /\ \E v \in job[i].victims :
       LET m == ModelOf[v] IN
       \/ /\ Held(m)
          /\ server' = [server EXCEPT ![m] = "unloading"]
          /\ job' = [job EXCEPT ![i].at = "drain", ![i].victim = v]
          /\ UNCHANGED <<loaded, rec, faults>>
       \/ /\ Gone(m)
          /\ Removed(i, v)
          /\ UNCHANGED <<server, faults>>
       \/ /\ Spend
          /\ SwapFails(i)
          /\ server' \in {server, [server EXCEPT ![m] = IF Held(m) THEN "unloading" ELSE @]}
  /\ UNCHANGED <<problems, reqVars, lockVars, outside, restarts, outsiders, histVars>>

(* wait_for_state(unloaded): fails at a timeout or when the connection is   *)
(* lost; the router's adapter also takes a worker that exited badly for a   *)
(* failure.                                                                 *)
AwaitUnloaded(i) ==
  /\ job[i].at = "drain"
  /\ LET v == job[i].victim
         badExit == /\ server[ModelOf[v]] = "failed"
                    /\ BackendOf[ModelOf[v]] \notin Services
     IN \/ /\ Gone(ModelOf[v]) /\ ~badExit
           /\ Removed(i, v)
           /\ UNCHANGED faults
        \/ /\ IF badExit THEN UNCHANGED faults ELSE Spend
           /\ SwapFails(i)
  /\ UNCHANGED <<problems, reqVars, lockVars, serverVars, restarts, outsiders, histVars>>

(* POST /models/load.  A router refuses a model it holds already, a managed *)
(* service that runs it is only waited for; a call that fails may or may    *)
(* not have had an effect.                                                  *)
AskLoad(i) ==
  /\ job[i].at = "load"
  /\ LET m == ModelOf[i]
         refused == Held(m) /\ BackendOf[m] \notin Services
         started == [server EXCEPT ![m] = IF Held(m) THEN @ ELSE "loading"]
     IN \/ ~refused /\ server' = started /\ At(i, "loading") /\ UNCHANGED <<rec, faults>>
        \/ refused /\ LoadFails(i) /\ UNCHANGED <<server, faults>>
        \/ Spend /\ LoadFails(i) /\ server' \in {server, started}
  /\ UNCHANGED <<loaded, problems, reqVars, lockVars, outside, restarts, outsiders, histVars>>

(* wait_for_state(loaded): fails with the load, at the timeout, or when the *)
(* connection is lost.  A model that is neither held nor failed can only    *)
(* time out.                                                                *)
AwaitLoaded(i) ==
  /\ job[i].at = "loading"
  /\ \/ Report(ModelOf[i]) = "loaded" /\ At(i, "baseline") /\ UNCHANGED <<rec, faults>>
     \/ /\ IF Held(ModelOf[i]) THEN Spend ELSE UNCHANGED faults
        /\ LoadFails(i)
  /\ UNCHANGED <<loaded, problems, reqVars, lockVars, serverVars, restarts, outsiders, histVars>>

(* The end of the task: the record is ready, its waiters go on.  Only a     *)
(* swap also stamps the last activity.                                      *)
Settled(i) == [rec[i] EXCEPT !.ready = TRUE, !.recent = @ \/ ~rec[i].adopted]

(* What load_failed() takes for the proof that the model has gone. *)
\* MISTAKE: a model that still loads is taken for gone
NotLoaded(m) == Report(m) # "loaded"
Unloaded(m) == Report(m) = "unloaded"

(* load_failed(): the model is dropped only if its server says it is not    *)
(* there, and only if the record is still the one tracked.                  *)
ConfirmFailed(i) ==
  /\ job[i].at = "confirm"
  /\ \/ /\ Unloaded(ModelOf[i])
        /\ loaded' = [loaded EXCEPT ![ModelOf[i]] = IF @ = i THEN None ELSE @]
        /\ UNCHANGED <<problems, faults>>
     \/ /\ IF Unloaded(ModelOf[i]) THEN Spend ELSE UNCHANGED faults
        /\ problems' = TRUE
        /\ UNCHANGED loaded
  /\ rec' = [rec EXCEPT ![i] =
               IF loaded'[ModelOf[i]] = i THEN Settled(i) ELSE Outlived(Settled(i))]
  /\ At(i, "none")
  /\ UNCHANGED <<reqVars, lockVars, serverVars, restarts, outsiders, histVars>>

(* record_baseline(): if it fails, the decode count stays unknown. *)
RecordBaseline(i) ==
  /\ job[i].at = "baseline"
  /\ \/ /\ Observable(ModelOf[i])
        /\ rec' = [rec EXCEPT ![i] = [Settled(i) EXCEPT !.moved = FALSE]]
        /\ UNCHANGED faults
     \/ /\ IF Observable(ModelOf[i]) THEN Spend ELSE UNCHANGED faults
        /\ rec' = [rec EXCEPT ![i] = Settled(i)]
  /\ At(i, "none")
  /\ UNCHANGED <<loaded, problems, reqVars, lockVars, serverVars, restarts,
                 outsiders, histVars>>

-----------------------------------------------------------------------------
(* The servers and the world outside *)

Becomes(m, state) ==
  /\ server' = [server EXCEPT ![m] = state]
  /\ outside' = outside \ {m}
  /\ UNCHANGED <<viewVars, reqVars, lockVars, job, restarts, outsiders, histVars>>

ServerLoads(m)   == server[m] = "loading" /\ Becomes(m, "loaded") /\ UNCHANGED faults
ServerUnloads(m) == server[m] = "unloading" /\ Becomes(m, "unloaded") /\ UNCHANGED faults

(* A load fails, a worker crashes, or one being stopped exits badly. *)
ServerFails(m) == Held(m) /\ Spend /\ Becomes(m, "failed")

(* Work that reaches a server without the broker. *)
OutsideWork(m) ==
  /\ IF m \in outside
       THEN outside' = outside \ {m} /\ UNCHANGED outsiders
       ELSE /\ server[m] = "loaded" /\ outsiders < MaxOutside
            /\ outsiders' = outsiders + 1
            /\ outside' = outside \cup {m}
  /\ rec' = [i \in Records |->
               IF i = loaded[m] THEN [rec[i] EXCEPT !.moved = TRUE] ELSE rec[i]]
  /\ UNCHANGED <<loaded, problems, reqVars, lockVars, job, server, faults,
                 restarts, histVars>>

(* The broker stops, at any moment, and starts again: what it knew is lost, *)
(* what the servers do is not.                                              *)
Restart ==
  /\ restarts < MaxRestarts /\ restarts' = restarts + 1
  /\ loaded' = [m \in Models |-> None]
  /\ rec' = [i \in Records |-> Blank]
  /\ problems' = FALSE
  /\ pc' = [r \in Requests |-> "idle"]
  /\ want' = [r \in Requests |-> None]
  /\ on' = [r \in Requests |-> None]
  /\ ahead' = [r \in Requests |-> {}]
  /\ late' = {}
  /\ lock' = Boot /\ stage' = "survey" /\ probe' = NoProbe /\ scan' = NoScan
  /\ job' = [i \in Records |-> NoJob]
  /\ blind' = Backends
  /\ UNCHANGED <<serverVars, faults, outsiders, misled>>

-----------------------------------------------------------------------------
RequestStep(r) ==
  \/ \E m \in Models : Arrive(r, m)
  \/ CheckRouter(r) \/ Join(r) \/ YieldToEarlier(r) \/ AskLock(r) \/ Deadline(r)
  \/ PlaceKnown(r) \/ PlaceFree(r) \/ PlaceObserve(r)
  \/ ObserveFails(r) \/ ObserveWorking(r) \/ ObserveNext(r) \/ ObserveLast(r)
  \/ Wake(r) \/ Finish(r) \/ Cancel(r)

TaskStep(i) ==
  \/ AskUnload(i) \/ AwaitUnloaded(i) \/ AskLoad(i) \/ AwaitLoaded(i)
  \/ ConfirmFailed(i) \/ RecordBaseline(i)

ServerStep(m) ==
  \/ ServerLoads(m) \/ ServerUnloads(m) \/ ServerFails(m) \/ OutsideWork(m)

Next ==
  \/ \E r \in Requests : RequestStep(r)
  \/ \E i \in Records : TaskStep(i)
  \/ \E b \in Backends : SurveyRead(b)
  \/ Merge \/ TrackNext
  \/ \E m \in Models : Expire(m) \/ ServerStep(m)
  \/ Restart

Spec == Init /\ [][Next]_vars

-----------------------------------------------------------------------------
(* Fairness: the event loop runs every coroutine that can go on, in the end *)
(* a proxied response ends, a deadline passes, a server that loads or       *)
(* unloads a model comes to an end, and work sent past the broker is over.  *)
(* asyncio.Lock is first-in first-out, so a request that asks for the lock  *)
(* gets it even if it is free only now and then.  Nothing is assumed of     *)
(* arrivals, cancellations, restarts, faults and protection windows.        *)

Place(r) == PlaceKnown(r) \/ PlaceFree(r) \/ PlaceObserve(r)
Proceed(r) ==
  \/ Join(r) \/ YieldToEarlier(r) \/ AskLock(r) \/ Wake(r) \/ Finish(r)
  \/ ObserveFails(r) \/ ObserveWorking(r) \/ ObserveNext(r) \/ ObserveLast(r)
Survey == (\E b \in Backends : SurveyRead(b)) \/ Merge \/ TrackNext

Fairness ==
  /\ \A r \in Requests :
       /\ WF_vars(Proceed(r)) /\ WF_vars(Deadline(r))
       /\ SF_vars(Place(r)) /\ SF_vars(CheckRouter(r))
  /\ \A i \in Records : WF_vars(TaskStep(i))
  /\ WF_vars(Survey)
  /\ \A m \in Models :
       /\ WF_vars(ServerLoads(m) \/ ServerUnloads(m))
       /\ WF_vars(m \in outside /\ OutsideWork(m))

FairSpec == Spec /\ Fairness

-----------------------------------------------------------------------------
(* Properties *)

Steps == {"none", "unload", "drain", "load", "loading", "confirm", "baseline", "died"}

ViewType ==
  /\ loaded \in [Models -> Records \cup {None}]
  /\ \A m \in Models : loaded[m] # None => ModelOf[loaded[m]] = m
  /\ rec \in [Records -> LoadedModel]
  /\ problems \in BOOLEAN

RequestType ==
  /\ pc \in [Requests -> {"idle", "check", "try", "place", "wait", "active"}]
  /\ want \in [Requests -> Models \cup {None}]
  /\ on \in [Requests -> Records \cup {None}]
  /\ \A r \in Requests : /\ want[r] = None <=> pc[r] = "idle"
                         /\ on[r] # None <=> pc[r] \in {"wait", "active"}
                         /\ on[r] # None => ModelOf[on[r]] = want[r]
  /\ ahead \in [Requests -> SUBSET Requests]
  /\ \A r \in Requests : ahead[r] \subseteq Tickets
  /\ late \subseteq Tickets

LockType ==
  /\ lock \in Requests \cup {Boot, None}
  /\ stage \in {"none", "survey", "track", "observe"}
  /\ lock = None <=> stage = "none"
  /\ stage = "observe" => lock \in Requests /\ probe.at \in Records
  /\ stage = "track" => scan.at \in Records
  /\ lock \in Requests => pc[lock] = IF stage = "observe" THEN "place" ELSE "check"
  /\ probe \in [conflicts : SUBSET Records, left : SUBSET Records,
                at : Records \cup {None}, warm : BOOLEAN]
  /\ scan \in [seen : [Models -> {"unread", "down", "unloaded", "loading", "loaded"}],
               flawed : BOOLEAN, todo : SUBSET Records, at : Records \cup {None}]

JobType ==
  /\ job \in [Records -> [at : Steps, victims : SUBSET Records,
                          victim : Records \cup {None}]]
  /\ \A i \in Records : job[i].at = "drain" => job[i].victim \in Records

WorldType ==
  /\ server \in [Models -> ServerState]
  /\ outside \subseteq Models
  /\ faults \in Nat /\ restarts \in Nat /\ outsiders \in Nat
  /\ misled \in BOOLEAN /\ blind \subseteq Backends

(* Every variable has its type, and whoever holds the lock is suspended     *)
(* where it awaits: releasing the lock and moving on go together.           *)
TypeOK == ViewType /\ RequestType /\ LockType /\ JobType /\ WorldType

(* The counters of a record are the requests on it: no admission is counted *)
(* twice, lost, or released twice, whatever loads fail and clients leave.   *)
OnRecord(i, state) == {r \in Requests : pc[r] = state /\ on[r] = i}
CountsMatch ==
  \A i \in Records : /\ rec[i].active = Cardinality(OnRecord(i, "active"))
                      /\ rec[i].queued = Cardinality(OnRecord(i, "wait"))

(* A record that a swap has chosen to unload has no request admitted to it  *)
(* or queued on it, from the decision until it is gone or the swap fails.   *)
VictimsUnused == \A i \in Records : rec[i].leaving => ~InUse(i)

(* A swap is decided on the models that are in the way at that moment,      *)
(* although place() lists them before it awaits the observation of each:    *)
(* whatever joins, fails or is unloaded meanwhile, none is missed and none  *)
(* that has gone is taken for a victim, unless a survey misled the broker.  *)
DecisionCurrent ==
  [][\A r \in Requests :
       pc[r] = "place" /\ pc'[r] = "wait" /\ ~misled =>
         /\ job'[on'[r]].victims = Tracked(Rivals(want[r]))
         /\ loaded[want[r]] = None]_vars

(* A request that waits for a load the broker started is not forgotten: the *)
(* task that will end the wait is still running, whatever failed so far.    *)
Driven(i) == job[i].at \notin {"none", "died"} \/ i \in scan.todo
WaitersDriven ==
  ~misled => \A r \in Requests :
               pc[r] = "wait" /\ ~rec[on[r]].ready /\ ~rec[on[r]].adopted
                 => Driven(on[r])

(* Two models on the servers never claim the same resource, a model being   *)
(* unloaded or of unknown fate included, as long as no survey has misled    *)
(* the broker.                                                              *)
ResourceExclusive == ~misled => Compatible({m \in Models : Held(m)})

(* The broker tracks every model that a server it has read holds, so its    *)
(* resources stay claimed: no failure path forgets one too early.           *)
HoldersTracked ==
  ~misled => \A m \in Models :
              Held(m) /\ BackendOf[m] \notin blind => loaded[m] # None

(* A model is held back for a swap only while that swap has still to unload *)
(* it: when one of several unloads fails, none of the others stays leaving, *)
(* and its requests are not turned away for ever.                           *)
LeavingIsVictim ==
  ~misled => \A i \in Records :
              rec[i].leaving => \E j \in Records : i \in job[j].victims

(* The models that the swap of a record has still to unload. *)
Victims(i) == {ModelOf[v] : v \in job[i].victims}

(* Two tracked models that conflict are the model of a swap and a victim of *)
(* that swap which has not gone yet.                                        *)
SwapExclusive ==
  ~misled => \A m \in Models : \A n \in Rivals(m) :
              loaded[m] # None /\ loaded[n] # None =>
                \/ n \in Victims(loaded[m])
                \/ m \in Victims(loaded[n])

(* A model is placed only for a request with no earlier waiting request for *)
(* a conflicting model.                                                     *)
ArrivalOrder ==
  [][\A r, s \in Requests :
       pc[r] = "place" /\ pc'[r] = "wait" /\ s \in ahead[r] =>
         want[s] \notin Rivals(want[r])]_vars

(* A load is asked for only once the server holds none of the models in its *)
(* way any more, the ones this very swap has asked to unload included.      *)
LoadAfterUnload ==
  [][\A m \in Models : ~Held(m) /\ server'[m] = "loading" /\ ~misled =>
        \A n \in Rivals(m) : ~Held(n)]_vars

(* Every request is answered: no load, unload or survey that fails leaves   *)
(* it waiting.  The exception is a request that looks for room for ever     *)
(* while others are admitted again and again.                               *)
Answered ==
  \A r \in Requests :
    \/ []<>(pc[r] = "idle")
    \/ /\ <>[](r \in Tickets)
       /\ \E s \in Requests \ {r} : []<>(pc[s] = "active")

=============================================================================
