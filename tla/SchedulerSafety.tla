-------------------------- MODULE SchedulerSafety ---------------------------
(***************************************************************************)
(* What keeps the models on the servers apart, for any catalogue, servers,  *)
(* requests, faults and restarts, as long as no survey misleads the broker: *)
(* the records, the tasks that work on them and the servers agree.          *)
(***************************************************************************)
EXTENDS SchedulerProofs, SchedulerTurns

USE SchedulerAssumption, ClaimsAssumption DEF SchedulerAssumption, ClaimsAssumption

-----------------------------------------------------------------------------
(* The inductive invariant *)

(* The swap of i has not yet asked its server to load the model. *)
Swapping(i) == job[i].at \in {"unload", "drain", "load"}

(* A record with a task is not ready.  Until its load has failed it is      *)
(* sound and tracked; before its load is asked for, no server holds the     *)
(* model.  A record that waits without a task was adopted, and sound.       *)
JobsSound ==
  \A i \in Records :
    /\ job[i].at # "died"
    /\ job[i].at \notin {"none", "confirm"} =>
         loaded[ModelOf[i]] = i /\ ~rec[i].ready /\ ~rec[i].error
    /\ job[i].at = "confirm" => ~rec[i].ready /\ rec[i].error
    /\ job[i].at = "none" /\ ~rec[i].ready => rec[i].adopted /\ ~rec[i].error
    /\ Swapping(i) => ~Held(ModelOf[i])
    /\ job[i].at \in {"unload", "drain"} <=> job[i].victims # {}
    /\ job[i].at = "drain" => job[i].victim \in job[i].victims

(* A victim is tracked, ready, leaving, and the victim of one swap only.    *)
VictimsSound ==
  \A i \in Records : \A v \in job[i].victims :
    /\ loaded[ModelOf[v]] = v /\ rec[v].leaving /\ rec[v].ready
    /\ \A j \in Records : v \in job[j].victims => i = j

(* An adopted model that still loads and has no task yet is tracked.        *)
Adopting ==
  \A i \in scan.todo :
    ~rec[i].ready => loaded[ModelOf[i]] = i /\ job[i].at = "none"

(* What relates the records, the tasks and the servers. *)
Sound ==
  /\ JobsSound /\ VictimsSound /\ LeavingIsVictim /\ Adopting
  /\ HoldersTracked /\ SwapExclusive

(* While the broker has not read every server, no request gets past the     *)
(* check, so that it has not decided anything, and what it knows of is      *)
(* compatible with what it does not know of.                                *)
Uninformed ==
  blind # {} =>
    /\ \A r \in Requests : pc[r] \in {"idle", "check"}
    /\ problems \/ (lock = Boot /\ stage = "survey")
    /\ \A i \in Records : ~Swapping(i)
    /\ Compatible({m \in Models : Held(m) \/ loaded[m] # None})

(* While place() observes, its list of the models in the way misses none    *)
(* that is tracked, and those it has passed are tracked and stay.           *)
Placing ==
  stage = "observe" =>
    /\ loaded[want[lock]] = None
    /\ Tracked(Rivals(want[lock])) \subseteq probe.conflicts
    /\ probe.at \in probe.conflicts \ probe.left /\ probe.left \subseteq probe.conflicts
    /\ \A i \in probe.conflicts :
         /\ ModelOf[i] \in Rivals(want[lock])
         /\ loaded[ModelOf[i]] \in {i, None}
         /\ i \notin probe.left => rec[i].ready /\ ~rec[i].leaving
         /\ i \notin probe.left \cup {probe.at} => loaded[ModelOf[i]] = i

(* The record a request is on is tracked unless its load has failed, and    *)
(* one with an admitted request is ready and sound.                         *)
Attached ==
  \A r \in Requests :
    /\ pc[r] \in {"wait", "active"} /\ ~rec[on[r]].error => loaded[want[r]] = on[r]
    /\ pc[r] = "active" => rec[on[r]].ready /\ ~rec[on[r]].error

Safe == Sound /\ Uninformed /\ Placing /\ Attached

SafeInv == Inv /\ (~misled => Safe)

-----------------------------------------------------------------------------
(* Types in the form the lemmas below need them *)

LEMMA Types ==
  ASSUME Inv
  PROVE  /\ rec \in [Records -> LoadedModel] /\ \A i \in Records : rec[i] \in LoadedModel
         /\ loaded \in [Models -> Records \cup {None}]
         /\ \A m \in Models : loaded[m] # None => ModelOf[loaded[m]] = m
         /\ pc \in [Requests -> {"idle", "check", "try", "place", "wait", "active"}]
         /\ want \in [Requests -> Models \cup {None}]
         /\ on \in [Requests -> Records \cup {None}]
         /\ \A r \in Requests : /\ want[r] = None <=> pc[r] = "idle"
                                /\ on[r] # None <=> pc[r] \in {"wait", "active"}
                                /\ on[r] # None => ModelOf[on[r]] = want[r]
         /\ job \in [Records -> [at : Steps, victims : SUBSET Records,
                                 victim : Records \cup {None}]]
         /\ \A i \in Records : job[i].victims \in SUBSET Records
         /\ scan.todo \in SUBSET Records
         /\ server \in [Models -> ServerState]
BY DEF Inv, TypeOK, ViewType, RequestType, JobType, LockType, WorldType

(* Nothing is chosen, dropped or loaded; a model may end on its server. *)
Quiet ==
  /\ UNCHANGED <<loaded, job, blind>>
  /\ scan'.todo \subseteq scan.todo
  /\ \A m \in Models : Held(m)' => Held(m)
  /\ \A i \in Records :
       /\ rec'[i].ready = rec[i].ready
       /\ rec'[i].leaving = rec[i].leaving
       /\ rec'[i].adopted = rec[i].adopted
       /\ rec'[i].error = rec[i].error \/ (rec[i].ready /\ ~rec'[i].error)

LEMMA QuietSound ==
  ASSUME Inv, Sound, ~misled, Quiet
  PROVE  Sound'
<1> USE Types DEF Quiet, Sound
<1>1. JobsSound'
  BY DEF JobsSound, Swapping
<1>2. VictimsSound'
  BY DEF VictimsSound
<1>3. Adopting'
  BY DEF Adopting
<1>4. HoldersTracked'
  BY DEF HoldersTracked
<1>5. SwapExclusive'
  BY DEF SwapExclusive, Rivals, Victims
<1>6. LeavingIsVictim'
  BY DEF LeavingIsVictim
<1> QED BY <1>1, <1>2, <1>3, <1>4, <1>5, <1>6

(* The flags of a record that the invariant speaks of. *)
SameFlags(record, other) ==
  /\ record.ready = other.ready /\ record.error = other.error
  /\ record.leaving = other.leaving /\ record.adopted = other.adopted

LEMMA FlagsKept ==
  ASSUME Inv, NEW i \in Records
  PROVE  \A j \in Records :
           /\ SameFlags([rec EXCEPT ![i].active = @ + 1][j], rec[j])
           /\ SameFlags([rec EXCEPT ![i].queued = @ + 1][j], rec[j])
           /\ SameFlags([rec EXCEPT ![i].queued = @ - 1, ![i].active = @ + 1][j], rec[j])
           /\ \A moved \in BOOLEAN :
                SameFlags([rec EXCEPT ![i].active = @ - 1, ![i].recent = TRUE,
                                      ![i].moved = moved][j], rec[j])
           /\ SameFlags([rec EXCEPT ![i].recent = FALSE][j], rec[j])
           /\ SameFlags([rec EXCEPT ![i].moved = FALSE][j], rec[j])
           /\ SameFlags(Observed(i)[j], rec[j])
<1>1. rec \in [Records -> LoadedModel] /\ rec[i] \in LoadedModel
  BY Types
<1> QED BY <1>1 DEF SameFlags, LoadedModel, Observed

(* A request that leaves the record it was queued on changes at most its    *)
(* error, and that only on a record which is ready.                         *)
LEMMA UnqueuedFlags ==
  ASSUME Inv, JobsSound, NEW i \in Records
  PROVE  /\ Unqueued(i).ready = rec[i].ready
         /\ Unqueued(i).leaving = rec[i].leaving
         /\ Unqueued(i).adopted = rec[i].adopted
         /\ \/ Unqueued(i).error = rec[i].error
            \/ rec[i].ready /\ ~Unqueued(i).error
         /\ rec[i].queued > 1 \/ loaded[ModelOf[i]] = i => Unqueued(i).error = rec[i].error
<1>1. rec[i] \in LoadedModel
  BY Types
<1>2. /\ Unqueued(i).ready = rec[i].ready
      /\ Unqueued(i).leaving = rec[i].leaving
      /\ Unqueued(i).adopted = rec[i].adopted
      /\ Unqueued(i).error = (rec[i].error /\ (\/ rec[i].queued > 1
                                               \/ loaded[ModelOf[i]] = i
                                               \/ job[i].at # "none"))
  BY <1>1, Zenon DEF Unqueued, LoadedModel
<1>3. rec[i].error /\ ~rec[i].ready => job[i].at # "none"
  BY DEF JobsSound
<1> QED BY <1>1, <1>2, <1>3 DEF LoadedModel

(* Steps that only move a request, look or fail to look. *)
LEMMA RequestQuiet ==
  ASSUME Inv, Sound, NEW r \in Requests,
         \/ \E m \in Models : Arrive(r, m)
         \/ CheckRouter(r) \/ Join(r) \/ YieldToEarlier(r) \/ AskLock(r) \/ Deadline(r)
         \/ PlaceKnown(r) \/ PlaceObserve(r) \/ ObserveFails(r) \/ ObserveWorking(r)
         \/ ObserveNext(r) \/ Wake(r) \/ Finish(r) \/ Cancel(r)
  PROVE  /\ Quiet /\ (problems' = problems) /\ UNCHANGED server
         /\ \/ \A j \in Records : SameFlags(rec'[j], rec[j])
            \/ /\ pc[r] = "wait" /\ (Wake(r) \/ Cancel(r))
               /\ rec' = [rec EXCEPT ![on[r]] = Unqueued(on[r])]
<1> USE Types DEF viewVars, reqVars, lockVars, serverVars, boundVars, histVars, NoScan, Unlock
<1>1. ASSUME UNCHANGED <<loaded, job, server, histVars>>, scan'.todo \subseteq scan.todo,
             \A i \in Records :
               /\ rec'[i].ready = rec[i].ready
               /\ rec'[i].leaving = rec[i].leaving
               /\ rec'[i].adopted = rec[i].adopted
               /\ rec'[i].error = rec[i].error \/ (rec[i].ready /\ ~rec'[i].error)
      PROVE  Quiet
  BY <1>1 DEF Quiet, Held
<1>2. ASSUME \/ \E m \in Models : Arrive(r, m)
             \/ CheckRouter(r) \/ YieldToEarlier(r) \/ AskLock(r) \/ Deadline(r)
             \/ PlaceKnown(r) \/ PlaceObserve(r) \/ ObserveFails(r)
      PROVE  /\ Quiet /\ (problems' = problems) /\ UNCHANGED server
             /\ \A j \in Records : SameFlags(rec'[j], rec[j])
  <2>1. /\ UNCHANGED <<loaded, job, server, histVars, problems, rec>>
        /\ scan' = scan \/ scan' = NoScan
    BY <1>2 DEF Arrive, CheckRouter, YieldToEarlier, AskLock, Deadline, PlaceKnown,
                PlaceObserve, ObserveFails
  <2> QED BY <1>1, <2>1 DEF SameFlags
<1>3. CASE Join(r)
  <2> DEFINE i == loaded[want[r]]
  <2>1. /\ i \in Records
        /\ \/ rec' = [rec EXCEPT ![i].active = @ + 1]
           \/ rec' = [rec EXCEPT ![i].queued = @ + 1]
           \/ rec' = rec
    BY <1>3 DEF Join, Admit
  <2>2. \A j \in Records : SameFlags(rec'[j], rec[j])
    <3> HIDE DEF i
    <3>1. CASE rec' = rec
      BY <3>1 DEF SameFlags
    <3> QED BY <2>1, <3>1, FlagsKept, Zenon
  <2>3. UNCHANGED <<loaded, job, server, histVars, problems, scan>>
    BY <1>3 DEF Join
  <2>4. Quiet
    BY <1>1, <2>2, <2>3 DEF SameFlags
  <2> QED BY <2>2, <2>3, <2>4
<1>4. CASE ObserveWorking(r) \/ ObserveNext(r)
  <2>1. probe.at \in Records /\ rec' = Observed(probe.at)
    BY <1>4 DEF ObserveWorking, ObserveNext, Inv, TypeOK, LockType
  <2>2. \A i \in Records : SameFlags(rec'[i], rec[i])
    BY <2>1, FlagsKept
  <2>3. /\ UNCHANGED <<loaded, job, server, histVars, problems>>
        /\ scan' = scan \/ scan' = NoScan
    BY <1>4 DEF ObserveWorking, ObserveNext
  <2>4. Quiet
    BY <1>1, <2>2, <2>3 DEF SameFlags
  <2> QED BY <2>2, <2>3, <2>4
<1>5. CASE Wake(r) \/ Finish(r) \/ Cancel(r)
  <2> DEFINE i == on[r]
  <2>0. /\ UNCHANGED <<loaded, job, server, histVars, problems>>
        /\ scan' = scan \/ scan' = NoScan
    BY <1>5 DEF Wake, Finish, Cancel
  <2>1. ASSUME pc[r] = "wait", rec' = [rec EXCEPT ![i] = Unqueued(i)], i \in Records
        PROVE  Quiet /\ (problems' = problems) /\ UNCHANGED server
    <3>1. \A j \in Records : rec'[j] = IF j = i THEN Unqueued(i) ELSE rec[j]
      BY <2>1
    <3>2. Quiet
      BY <1>1, <2>0, <2>1, <3>1, UnqueuedFlags DEF Sound
    <3> QED BY <2>0, <3>2
  <2>2. CASE \A j \in Records : SameFlags(rec'[j], rec[j])
    BY <1>1, <2>0, <2>2 DEF SameFlags
  <2>3. CASE Wake(r) \/ (Cancel(r) /\ pc[r] = "wait")
    <3>1. i \in Records
      BY <2>3 DEF Wake
    <3> QED BY <2>1, <2>2, <2>3, <3>1, FlagsKept DEF Wake, Cancel
  <2>4. CASE Finish(r)
    <3>1. i \in Records /\ rec[i].moved \in BOOLEAN
      BY <2>4 DEF Finish, LoadedModel
    <3>2. PICK moved \in BOOLEAN :
            rec' = [rec EXCEPT ![i].active = @ - 1, ![i].recent = TRUE, ![i].moved = moved]
      BY <2>4, <3>1 DEF Finish
    <3> QED BY <2>2, <3>1, <3>2, FlagsKept
  <2>5. CASE Cancel(r) /\ pc[r] # "wait"
    BY <2>2, <2>5 DEF Cancel, SameFlags
  <2> QED BY <1>5, <2>3, <2>4, <2>5
<1> QED BY <1>2, <1>3, <1>4, <1>5
  DEF Join, ObserveWorking, ObserveNext, Wake, Finish, Cancel

(* Steps of servers and of surveys, and the end of a protection window. *)
LEMMA OtherQuiet ==
  ASSUME Inv,
         \/ \E b \in Backends : SurveyRead(b)
         \/ \E m \in Models : Expire(m) \/ ServerStep(m)
  PROVE  /\ Quiet /\ UNCHANGED <<problems, reqVars, lock, stage, probe>>
         /\ \A i \in Records : SameFlags(rec'[i], rec[i])
<1> USE Types DEF viewVars, reqVars, lockVars, serverVars, boundVars, histVars
<1>1. CASE \E b \in Backends : SurveyRead(b)
  <2>1. scan'.todo = scan.todo
    BY <1>1 DEF SurveyRead, Inv, TypeOK, LockType
  <2> QED BY <1>1, <2>1 DEF SurveyRead, Quiet, Held, SameFlags
<1>2. ASSUME NEW m \in Models, Expire(m)
      PROVE  /\ Quiet /\ UNCHANGED <<problems, reqVars, lock, stage, probe>>
             /\ \A i \in Records : SameFlags(rec'[i], rec[i])
  <2>0. loaded[m] \in Records
    BY <1>2 DEF Expire
  <2>1. \A i \in Records : SameFlags(rec'[i], rec[i])
    BY <1>2, <2>0, FlagsKept DEF Expire
  <2> QED BY <1>2, <2>1 DEF Expire, Quiet, Held, SameFlags
<1>3. ASSUME NEW m \in Models, ServerStep(m)
      PROVE  /\ Quiet /\ UNCHANGED <<problems, reqVars, lock, stage, probe>>
             /\ \A i \in Records : SameFlags(rec'[i], rec[i])
  <2>1. CASE OutsideWork(m)
    <3>1. \A i \in Records : SameFlags(rec'[i], rec[i])
      BY <2>1 DEF OutsideWork, SameFlags, LoadedModel
    <3> QED BY <2>1, <3>1 DEF OutsideWork, Quiet, Held, SameFlags
  <2>2. CASE ServerLoads(m) \/ ServerUnloads(m) \/ ServerFails(m)
    <3>1. \A n \in Models : Held(n)' => Held(n)
      BY <2>2 DEF ServerLoads, ServerUnloads, ServerFails, Becomes, Held
    <3> QED BY <2>2, <3>1
          DEF ServerLoads, ServerUnloads, ServerFails, Becomes, Quiet, SameFlags
  <2> QED BY <1>3, <2>1, <2>2 DEF ServerStep
<1> QED BY <1>1, <1>2, <1>3

-----------------------------------------------------------------------------
(* The decision of place() *)

(* A record that nothing refers to is taken for a model. *)
LEMMA FreshUnused ==
  ASSUME NEW m \in Models, Free(m) # {}
  PROVE  /\ Fresh(m) \in Records /\ ModelOf[Fresh(m)] = m /\ loaded[m] # Fresh(m)
         /\ \A r \in Requests : on[r] # Fresh(m)
         /\ job[Fresh(m)].at = "none"
         /\ \A j \in Records : Fresh(m) \notin job[j].victims
         /\ Fresh(m) \notin scan.todo
<1>1. Fresh(m) \in Free(m)
  BY DEF Fresh
<1> QED BY <1>1 DEF Free

(* What place() has in hand when it decides: a model that is not tracked    *)
(* and that no server holds, and all the tracked models in its way.         *)
CanDecide(r, conflicts) ==
  /\ r \in Requests /\ want[r] \in Models
  /\ loaded[want[r]] = None /\ ~Held(want[r])
  /\ conflicts = Tracked(Rivals(want[r]))
  /\ \A i \in conflicts : rec[i].ready

LEMMA DecideSound ==
  ASSUME Inv, Sound, ~misled, NEW r, NEW conflicts, NEW records,
         CanDecide(r, conflicts), Decide(r, conflicts, records),
         \A i \in Records : records[i] \in LoadedModel /\ SameFlags(records[i], rec[i]),
         UNCHANGED <<server, histVars>>, scan'.todo \subseteq scan.todo
  PROVE  Sound'
<1> USE Types DEF histVars
<1> DEFINE m == want[r]
           new == Fresh(m)
<1>1. CASE \E i \in conflicts : JustUsed(i)
  <2>1. Quiet
    BY <1>1 DEF Decide, Quiet, Held, SameFlags
  <2> QED BY <2>1, QuietSound
<1>2. CASE ~ \E i \in conflicts : JustUsed(i)
  <2>1. /\ rec' = [i \in Records |->
                     IF i = new THEN Placed
                     ELSE [records[i] EXCEPT !.leaving = @ \/ i \in conflicts]]
        /\ loaded' = [loaded EXCEPT ![m] = new]
        /\ job' = [job EXCEPT ![new] =
                     [at |-> IF conflicts = {} THEN "load" ELSE "unload",
                      victims |-> conflicts, victim |-> None]]
        /\ Free(m) # {}
    BY <1>2 DEF Decide
  <2>2. /\ m \in Models /\ loaded[m] = None /\ ~Held(m)
        /\ conflicts = Tracked(Rivals(m))
        /\ \A i \in conflicts : rec[i].ready
    BY DEF CanDecide
  <2> HIDE DEF m
  <2>3. /\ new \in Records /\ ModelOf[new] = m
        /\ job[new].at = "none"
        /\ \A j \in Records : new \notin job[j].victims
        /\ new \notin scan.todo
    BY <2>1, <2>2, FreshUnused
  <2> HIDE DEF new
  <2>4. \A i \in conflicts : /\ i \in Records /\ ModelOf[i] \in Rivals(m)
                             /\ loaded[ModelOf[i]] = i /\ ModelOf[i] # m /\ i # new
                             /\ rec[i].ready /\ ~rec[i].leaving
    BY <1>2, <2>2, <2>3 DEF Tracked, Rivals, JustUsed
  <2>5. /\ ~rec'[new].ready /\ ~rec'[new].error /\ ~rec'[new].leaving
        /\ \A i \in Records \ {new} :
             /\ rec'[i].ready = rec[i].ready /\ rec'[i].error = rec[i].error
             /\ rec'[i].adopted = rec[i].adopted
             /\ rec'[i].leaving <=> (rec[i].leaving \/ i \in conflicts)
    <3>1. ~Placed.ready /\ ~Placed.error /\ ~Placed.leaving
      BY DEF Placed, Blank
    <3>2. ASSUME NEW i \in Records \ {new}
          PROVE  /\ rec'[i].ready = rec[i].ready /\ rec'[i].error = rec[i].error
                 /\ rec'[i].adopted = rec[i].adopted
                 /\ rec'[i].leaving <=> (rec[i].leaving \/ i \in conflicts)
      <4>1. rec'[i] = [records[i] EXCEPT !.leaving = @ \/ i \in conflicts]
        BY <2>1
      <4>2. records[i] \in LoadedModel /\ SameFlags(records[i], rec[i])
        OBVIOUS
      <4> QED BY <4>1, <4>2 DEF SameFlags, LoadedModel
    <3>3. rec'[new] = Placed
      BY <2>1, <2>3
    <3> QED BY <3>1, <3>2, <3>3
  <2>6. /\ loaded'[m] = new /\ \A n \in Models \ {m} : loaded'[n] = loaded[n]
        /\ job'[new].at = (IF conflicts = {} THEN "load" ELSE "unload")
        /\ job'[new].victims = conflicts
        /\ \A i \in Records \ {new} : job'[i] = job[i]
    BY <2>1, <2>2, <2>3
  <2>7. JobsSound'
    <3> SUFFICES ASSUME NEW i \in Records
        PROVE  /\ job'[i].at # "died"
               /\ job'[i].at \notin {"none", "confirm"} =>
                    loaded'[ModelOf[i]] = i /\ ~rec'[i].ready /\ ~rec'[i].error
               /\ job'[i].at = "confirm" => ~rec'[i].ready /\ rec'[i].error
               /\ job'[i].at = "none" /\ ~rec'[i].ready => rec'[i].adopted /\ ~rec'[i].error
               /\ Swapping(i)' => ~Held(ModelOf[i])'
               /\ job'[i].at \in {"unload", "drain"} <=> job'[i].victims # {}
               /\ job'[i].at = "drain" => job'[i].victim \in job'[i].victims
      BY DEF JobsSound
    <3>1. CASE i = new
      BY <2>2, <2>3, <2>5, <2>6, <3>1 DEF Held, Swapping
    <3>2. CASE i # new
      <4>1. job'[i] = job[i] /\ rec'[i].ready = rec[i].ready /\ rec'[i].error = rec[i].error
            /\ rec'[i].adopted = rec[i].adopted
        BY <2>5, <2>6, <3>2
      <4>2. loaded[ModelOf[i]] = i => loaded'[ModelOf[i]] = i
        BY <2>2, <2>6
      <4>3. Held(ModelOf[i])' = Held(ModelOf[i])
        BY DEF Held
      <4> QED BY <4>1, <4>2, <4>3 DEF Sound, JobsSound, Swapping
    <3> QED BY <3>1, <3>2
  <2>8. VictimsSound'
    <3> SUFFICES ASSUME NEW i \in Records, NEW v \in job'[i].victims
        PROVE  /\ loaded'[ModelOf[v]] = v /\ rec'[v].leaving /\ rec'[v].ready
               /\ \A j \in Records : v \in job'[j].victims => i = j
      BY DEF VictimsSound
    <3>1. CASE i = new
      <4>1. v \in conflicts
        BY <2>6, <3>1
      <4>2. \A j \in Records : v \notin job[j].victims
        BY <2>4, <4>1 DEF Sound, VictimsSound
      <4>3. ASSUME NEW j \in Records, v \in job'[j].victims PROVE i = j
        BY <2>6, <3>1, <4>2, <4>3
      <4>4. loaded'[ModelOf[v]] = v /\ rec'[v].leaving /\ rec'[v].ready
        BY <2>4, <2>5, <2>6, <4>1
      <4> QED BY <4>3, <4>4
    <3>2. CASE i # new
      <4>1. v \in job[i].victims /\ v \in Records
        BY <2>6, <3>2
      <4>2. /\ loaded[ModelOf[v]] = v /\ rec[v].leaving /\ rec[v].ready
            /\ \A j \in Records : v \in job[j].victims => i = j
        BY <4>1 DEF Sound, VictimsSound
      <4>3. v \notin conflicts /\ v # new /\ ModelOf[v] # m
        BY <2>2, <2>3, <2>4, <4>1, <4>2
      <4> QED BY <2>5, <2>6, <4>1, <4>2, <4>3
    <3> QED BY <3>1, <3>2
  <2>9. Adopting'
    <3> SUFFICES ASSUME NEW i \in scan.todo, ~rec'[i].ready
        PROVE  loaded'[ModelOf[i]] = i /\ job'[i].at = "none"
      BY DEF Adopting
    <3>1. i \in Records /\ i # new
      BY <2>3
    <3>2. loaded[ModelOf[i]] = i /\ job[i].at = "none"
      BY <2>5, <3>1 DEF Sound, Adopting
    <3> QED BY <2>2, <2>6, <3>1, <3>2
  <2>10. HoldersTracked'
    BY <2>3, <2>6 DEF Sound, HoldersTracked, Held
  <2>11. SwapExclusive'
    <3> SUFFICES ASSUME NEW a \in Models, NEW b \in Rivals(a),
                        loaded'[a] # None, loaded'[b] # None
        PROVE  \/ \E v \in job'[loaded'[a]].victims : ModelOf[v] = b
               \/ \E v \in job'[loaded'[b]].victims : ModelOf[v] = a
      BY DEF SwapExclusive, Rivals, Victims
    <3>1. b \in Models /\ a # b /\ a \in Rivals(b)
      BY DEF Rivals, ClaimsConflict
    <3>2. ASSUME NEW n \in Rivals(m), loaded'[n] # None
          PROVE  \E v \in job'[loaded'[m]].victims : ModelOf[v] = n
      <4>1. n \in Models /\ n # m
        BY DEF Rivals
      <4>2. loaded[n] \in conflicts /\ ModelOf[loaded[n]] = n
        BY <2>2, <2>6, <3>2, <4>1 DEF Tracked
      <4> QED BY <2>6, <4>2
    <3>3. CASE a = m \/ b = m
      BY <3>1, <3>2, <3>3
    <3>4. CASE a # m /\ b # m
      <4>1. loaded'[a] = loaded[a] /\ loaded'[b] = loaded[b]
        BY <2>6, <3>1, <3>4
      <4>2. loaded[a] \in Records \ {new} /\ loaded[b] \in Records \ {new}
        BY <2>3, <3>1, <3>4, <4>1
      <4>3. b \in Victims(loaded[a]) \/ a \in Victims(loaded[b])
        BY <4>1 DEF Sound, SwapExclusive
      <4> QED BY <2>6, <4>1, <4>2, <4>3 DEF Victims
    <3> QED BY <3>3, <3>4
  <2>12. LeavingIsVictim'
    <3> SUFFICES ASSUME NEW i \in Records, rec'[i].leaving
        PROVE  \E j \in Records : i \in job'[j].victims
      BY DEF LeavingIsVictim
    <3>1. i # new /\ (i \in conflicts \/ rec[i].leaving)
      BY <2>5
    <3>2. CASE i \in conflicts
      BY <2>3, <2>6, <3>2
    <3>3. CASE rec[i].leaving
      <4>1. PICK j \in Records : i \in job[j].victims
        BY <3>3 DEF Sound, LeavingIsVictim
      <4>2. j # new
        <5>1. job[new].victims = {}
          BY <2>3 DEF Sound, JobsSound
        <5> QED BY <4>1, <5>1
      <4> QED BY <2>6, <4>1, <4>2
    <3> QED BY <3>1, <3>2, <3>3
  <2> QED BY <2>7, <2>8, <2>9, <2>10, <2>11, <2>12 DEF Sound
<1> QED BY <1>1, <1>2

(* With nothing in the way there is nothing to observe. *)
LEMMA FreeDecision ==
  ASSUME Inv, Safe, ~misled, NEW r \in Requests, PlaceFree(r)
  PROVE  CanDecide(r, {}) /\ Decide(r, {}, rec)
<1> USE Types
<1>1. pc[r] = "place" /\ want[r] \in Models /\ loaded[want[r]] = None
      /\ Tracked(Rivals(want[r])) = {} /\ Decide(r, {}, rec)
  BY DEF PlaceFree, LoadedRivals
<1>2. blind = {}
  BY <1>1 DEF Safe, Uninformed
<1>3. ~Held(want[r])
  BY <1>1, <1>2 DEF Safe, Sound, HoldersTracked
<1> QED BY <1>1, <1>3 DEF CanDecide

(* When the last observation ends well, the models listed before the first  *)
(* one are the models in the way now: none has come, because the lock was   *)
(* held, and none has gone, because its activity could be read.             *)
LEMMA ObservedDecision ==
  ASSUME Inv, Safe, ~misled, NEW r \in Requests, ObserveLast(r)
  PROVE  CanDecide(r, probe.conflicts)
<1> USE Types
<1> DEFINE m == want[r]
           at == probe.at
<1>1. /\ pc[r] = "place" /\ m \in Models /\ lock = r /\ stage = "observe"
      /\ probe.left = {} /\ at \in Records /\ Held(ModelOf[at])
  BY ObserverType DEF ObserveLast, Observable, Held, Inv
<1>2. blind = {}
  BY <1>1 DEF Safe, Uninformed
<1>3. ASSUME NEW n \in Models, Held(n) PROVE loaded[n] # None
  BY <1>2, <1>3 DEF Safe, Sound, HoldersTracked
<1>4. /\ loaded[m] = None
      /\ Tracked(Rivals(m)) \subseteq probe.conflicts
      /\ at \in probe.conflicts
      /\ \A i \in probe.conflicts :
           /\ ModelOf[i] \in Rivals(m)
           /\ loaded[ModelOf[i]] \in {i, None}
           /\ rec[i].ready
           /\ i # at => loaded[ModelOf[i]] = i
  BY <1>1 DEF Safe, Placing
<1>5. ASSUME NEW i \in probe.conflicts PROVE i \in Tracked(Rivals(m))
  <2>1. loaded[ModelOf[i]] = i
    BY <1>1, <1>3, <1>4
  <2>2. i \in Records
    BY DEF Inv, TypeOK, LockType
  <2>3. ModelOf[i] \in Rivals(m)
    BY <1>4
  <2> QED BY <2>1, <2>2, <2>3 DEF Tracked, Rivals
<1>6. probe.conflicts \subseteq Tracked(Rivals(m))
  BY <1>5
<1>7. probe.conflicts = Tracked(Rivals(m))
  <2>1. Tracked(Rivals(m)) \subseteq probe.conflicts
    BY <1>4
  <2>2. ASSUME NEW A, NEW B, A \subseteq B, B \subseteq A PROVE A = B
    BY <2>2
  <2> QED BY <1>6, <2>1, <2>2
<1>8. ~Held(m)
  BY <1>1, <1>3, <1>4
<1> QED BY <1>1, <1>4, <1>7, <1>8 DEF CanDecide

LEMMA PlaceSound ==
  ASSUME Inv, Safe, ~misled, NEW r \in Requests, PlaceFree(r) \/ ObserveLast(r)
  PROVE  Sound'
<1> USE Types DEF viewVars, reqVars, lockVars, serverVars, boundVars, histVars
<1>1. CASE PlaceFree(r)
  <2>1. CanDecide(r, {}) /\ Decide(r, {}, rec)
    BY <1>1, FreeDecision
  <2>2. UNCHANGED <<server, histVars, scan>>
    BY <1>1 DEF PlaceFree
  <2> QED BY <2>1, <2>2, DecideSound DEF Safe, SameFlags
<1>2. CASE ObserveLast(r)
  <2>1. /\ UNCHANGED <<server, histVars>> /\ scan'.todo = {}
    BY <1>2 DEF ObserveLast, Unlock, NoScan
  <2>2. probe.at \in Records
    BY <1>2, ObserverType DEF ObserveLast, Inv
  <2>3. \A i \in Records : /\ Observed(probe.at)[i] \in LoadedModel
                           /\ SameFlags(Observed(probe.at)[i], rec[i])
    <3>1. Observed(probe.at) \in [Records -> LoadedModel]
      BY <2>2, CounterTypes DEF Inv, TypeOK
    <3> QED BY <2>2, <3>1, FlagsKept
  <2>4. CASE rec' = Observed(probe.at) /\ UNCHANGED <<loaded, job>>
    <3>1. Quiet
      BY <2>1, <2>3, <2>4 DEF Quiet, Held, SameFlags
    <3> QED BY <3>1, QuietSound DEF Safe
  <2>5. CASE Decide(r, probe.conflicts, Observed(probe.at))
    BY <1>2, <2>1, <2>3, <2>5, ObservedDecision, DecideSound DEF Safe
  <2> QED BY <1>2, <2>4, <2>5 DEF ObserveLast
<1> QED BY <1>1, <1>2

-----------------------------------------------------------------------------
(* The background tasks *)

(* A record that is tracked is the only one of its model, so a record with  *)
(* a sound task is none of the victims.                                     *)
LEMMA TrackedOnce ==
  ASSUME Inv, Sound, NEW i \in Records, job[i].at \notin {"none", "confirm"}
  PROVE  /\ loaded[ModelOf[i]] = i
         /\ \A j \in Records : loaded[ModelOf[j]] = j /\ j # i => ModelOf[j] # ModelOf[i]
         /\ \A j \in Records : i \notin job[j].victims
BY DEF Sound, JobsSound, VictimsSound

(* A victim has gone from its server. *)
LEMMA RemovedSound ==
  ASSUME Inv, Sound, ~misled, NEW i \in Records, NEW v \in job[i].victims,
         Removed(i, v), ~Held(ModelOf[v]), UNCHANGED <<server, scan, histVars>>
  PROVE  Sound'
<1> USE Types DEF histVars
<1> DEFINE n == ModelOf[v]
           rest == job[i].victims \ {v}
<1>1. /\ v \in Records /\ n \in Models /\ loaded[n] = v /\ rec[v].ready /\ rec[v].leaving
      /\ \A j \in Records : v \in job[j].victims => i = j
      /\ job[i].at \in {"unload", "drain"} /\ ~rec[i].ready
  BY DEF Sound, VictimsSound, JobsSound
<1>2. /\ rec' = [rec EXCEPT ![v] = Outlived(@)]
      /\ job' = [job EXCEPT ![i] = [at |-> IF rest = {} THEN "load" ELSE "unload",
                                    victims |-> rest, victim |-> None]]
      /\ loaded' = [loaded EXCEPT ![n] = None]
  BY <1>1 DEF Removed
<1> HIDE DEF rest, n
<1>3. /\ Outlived(rec[v]).ready /\ ~Outlived(rec[v]).leaving
      /\ \A j \in Records \ {v} : rec'[j] = rec[j]
      /\ rec'[v].ready
  BY <1>1, <1>2 DEF Outlived, Blank
<1>4. /\ job'[i].at = (IF rest = {} THEN "load" ELSE "unload") /\ job'[i].victims = rest
      /\ \A j \in Records \ {i} : job'[j] = job[j]
      /\ loaded'[n] = None /\ \A m \in Models \ {n} : loaded'[m] = loaded[m]
  BY <1>1, <1>2
<1>5. \A j \in Records \ {v} : loaded[ModelOf[j]] = j => loaded'[ModelOf[j]] = j
  BY <1>1, <1>4
<1>6. JobsSound'
  <2> SUFFICES ASSUME NEW j \in Records
      PROVE  /\ job'[j].at # "died"
             /\ job'[j].at \notin {"none", "confirm"} =>
                  loaded'[ModelOf[j]] = j /\ ~rec'[j].ready /\ ~rec'[j].error
             /\ job'[j].at = "confirm" => ~rec'[j].ready /\ rec'[j].error
             /\ job'[j].at = "none" /\ ~rec'[j].ready => rec'[j].adopted /\ ~rec'[j].error
             /\ Swapping(j)' => ~Held(ModelOf[j])'
             /\ job'[j].at \in {"unload", "drain"} <=> job'[j].victims # {}
             /\ job'[j].at = "drain" => job'[j].victim \in job'[j].victims
    BY DEF JobsSound
  <2>0. Held(ModelOf[j])' = Held(ModelOf[j])
    BY DEF Held
  <2>1. CASE j = i
    BY <1>1, <1>3, <1>4, <1>5, <2>0, <2>1 DEF Sound, JobsSound, Swapping
  <2>2. CASE j = v
    <3>1. job'[j] = job[j] /\ job[j].at = "none"
      BY <1>1, <1>4, <2>2 DEF Sound, JobsSound
    <3> QED BY <1>3, <2>2, <3>1 DEF Sound, JobsSound, Swapping
  <2>3. CASE j # i /\ j # v
    <3>1. job'[j] = job[j] /\ rec'[j] = rec[j]
          /\ (loaded[ModelOf[j]] = j => loaded'[ModelOf[j]] = j)
      BY <1>3, <1>4, <1>5, <2>3
    <3> QED BY <2>0, <3>1 DEF Sound, JobsSound, Swapping
  <2> QED BY <2>1, <2>2, <2>3
<1>7. VictimsSound'
  <2> SUFFICES ASSUME NEW j \in Records, NEW w \in job'[j].victims
      PROVE  /\ loaded'[ModelOf[w]] = w /\ rec'[w].leaving /\ rec'[w].ready
             /\ \A k \in Records : w \in job'[k].victims => j = k
    BY DEF VictimsSound
  <2>1. \A k \in Records : job'[k].victims \subseteq job[k].victims
    BY <1>4 DEF rest
  <2>2. w \in job[j].victims /\ w \in Records /\ w # v
    BY <1>1, <1>4, <2>1 DEF rest
  <2> QED BY <1>3, <1>5, <2>1, <2>2 DEF Sound, VictimsSound
<1>8. Adopting'
  <2>1. \A j \in scan.todo : job[j].at = "none" => job'[j] = job[j]
    BY <1>1, <1>4
  <2> QED BY <1>1, <1>3, <1>5, <2>1 DEF Sound, Adopting
<1>9. HoldersTracked'
  BY <1>4 DEF Sound, HoldersTracked, Held, n
<1>10. SwapExclusive'
  <2> SUFFICES ASSUME NEW a \in Models, NEW b \in Rivals(a),
                      loaded'[a] # None, loaded'[b] # None
      PROVE  \/ \E w \in job'[loaded'[a]].victims : ModelOf[w] = b
             \/ \E w \in job'[loaded'[b]].victims : ModelOf[w] = a
    BY DEF SwapExclusive, Rivals, Victims
  <2>1. b \in Models /\ a # n /\ b # n /\ loaded'[a] = loaded[a] /\ loaded'[b] = loaded[b]
    BY <1>4 DEF Rivals
  <2>2. \/ \E w \in job[loaded[a]].victims : ModelOf[w] = b
        \/ \E w \in job[loaded[b]].victims : ModelOf[w] = a
    BY <2>1 DEF Sound, SwapExclusive, Victims
  <2>3. \A j \in Records : \A w \in job[j].victims : ModelOf[w] # n => w \in job'[j].victims
    BY <1>4 DEF rest, n
  <2> QED BY <2>1, <2>2, <2>3
<1>11. LeavingIsVictim'
  <2> SUFFICES ASSUME NEW j \in Records, rec'[j].leaving
      PROVE  \E k \in Records : j \in job'[k].victims
    BY DEF LeavingIsVictim
  <2>1. j # v /\ rec[j].leaving
    BY <1>1, <1>2, <1>3
  <2>2. PICK k \in Records : j \in job[k].victims
    BY <2>1 DEF Sound, LeavingIsVictim
  <2> QED BY <1>4, <2>1, <2>2 DEF rest
<1> QED BY <1>6, <1>7, <1>8, <1>9, <1>10, <1>11 DEF Sound

(* An unload has failed: the swap of i gives up. *)
LEMMA SwapFailsSound ==
  ASSUME Inv, Sound, ~misled, NEW i \in Records, job[i].at \in {"unload", "drain"},
         SwapFails(i), \A m \in Models : Held(m)' => Held(m),
         UNCHANGED <<scan, histVars>>
  PROVE  Sound'
<1> USE Types DEF histVars
<1> DEFINE n == ModelOf[i]
<1>1. /\ n \in Models /\ loaded[n] = i /\ ~Held(n)
      /\ \A j \in Records : loaded[ModelOf[j]] = j /\ j # i => ModelOf[j] # n
      /\ \A j \in Records : i \notin job[j].victims
      /\ ~rec[i].ready
  BY TrackedOnce DEF Sound, JobsSound, Swapping
<1>2. /\ rec'[i] = GivenUp(i)
      /\ \A j \in Records \ {i} :
           rec'[j] = [rec[j] EXCEPT !.leaving = @ /\ j \notin job[i].victims]
      /\ loaded' = [loaded EXCEPT ![n] = None]
      /\ job' = [job EXCEPT ![i] = NoJob]
  BY DEF SwapFails
<1> HIDE DEF n
<1>3. GivenUp(i).ready /\ ~GivenUp(i).leaving
  BY DEF GivenUp, Outlived, Blank
<1>4. ASSUME NEW j \in Records \ {i}
      PROVE  /\ rec'[j].ready = rec[j].ready /\ rec'[j].error = rec[j].error
             /\ rec'[j].adopted = rec[j].adopted
             /\ rec'[j].leaving <=> rec[j].leaving /\ j \notin job[i].victims
  <2>1. rec'[j] = [rec[j] EXCEPT !.leaving = @ /\ j \notin job[i].victims]
    BY <1>2
  <2>2. rec[j] \in LoadedModel
    OBVIOUS
  <2> QED BY <2>1, <2>2 DEF LoadedModel
<1>5. /\ job'[i].at = "none" /\ job'[i].victims = {}
      /\ \A j \in Records \ {i} : job'[j] = job[j]
      /\ loaded'[n] = None /\ \A m \in Models \ {n} : loaded'[m] = loaded[m]
  BY <1>1, <1>2 DEF NoJob
<1>6. \A j \in Records \ {i} : loaded[ModelOf[j]] = j => loaded'[ModelOf[j]] = j
  BY <1>1, <1>5
<1>7. JobsSound'
  <2> SUFFICES ASSUME NEW j \in Records
      PROVE  /\ job'[j].at # "died"
             /\ job'[j].at \notin {"none", "confirm"} =>
                  loaded'[ModelOf[j]] = j /\ ~rec'[j].ready /\ ~rec'[j].error
             /\ job'[j].at = "confirm" => ~rec'[j].ready /\ rec'[j].error
             /\ job'[j].at = "none" /\ ~rec'[j].ready => rec'[j].adopted /\ ~rec'[j].error
             /\ Swapping(j)' => ~Held(ModelOf[j])'
             /\ job'[j].at \in {"unload", "drain"} <=> job'[j].victims # {}
             /\ job'[j].at = "drain" => job'[j].victim \in job'[j].victims
    BY DEF JobsSound
  <2>1. CASE j = i
    BY <1>2, <1>3, <1>5, <2>1 DEF Swapping
  <2>2. CASE j # i
    <3>1. job'[j] = job[j] /\ (loaded[ModelOf[j]] = j => loaded'[ModelOf[j]] = j)
      BY <1>5, <1>6, <2>2
    <3> QED BY <1>4, <2>2, <3>1 DEF Sound, JobsSound, Swapping
  <2> QED BY <2>1, <2>2
<1>8. VictimsSound'
  <2> SUFFICES ASSUME NEW j \in Records, NEW w \in job'[j].victims
      PROVE  /\ loaded'[ModelOf[w]] = w /\ rec'[w].leaving /\ rec'[w].ready
             /\ \A k \in Records : w \in job'[k].victims => j = k
    BY DEF VictimsSound
  <2>1. \A k \in Records : job'[k].victims \subseteq job[k].victims
    BY <1>5
  <2>2. j # i /\ w \in job[j].victims /\ w \in Records /\ w # i
    BY <1>1, <1>5
  <2>3. w \notin job[i].victims
    BY <2>2 DEF Sound, VictimsSound
  <2> QED BY <1>4, <1>6, <2>1, <2>2, <2>3 DEF Sound, VictimsSound
<1>9. Adopting'
  BY <1>2, <1>3, <1>4, <1>5, <1>6 DEF Sound, Adopting
<1>10. HoldersTracked'
  BY <1>1, <1>5 DEF Sound, HoldersTracked
<1>11. SwapExclusive'
  <2> SUFFICES ASSUME NEW a \in Models, NEW b \in Rivals(a),
                      loaded'[a] # None, loaded'[b] # None
      PROVE  \/ \E w \in job'[loaded'[a]].victims : ModelOf[w] = b
             \/ \E w \in job'[loaded'[b]].victims : ModelOf[w] = a
    BY DEF SwapExclusive, Rivals, Victims
  <2>1. b \in Models /\ a # n /\ b # n /\ loaded'[a] = loaded[a] /\ loaded'[b] = loaded[b]
    BY <1>5 DEF Rivals
  <2>2. \/ \E w \in job[loaded[a]].victims : ModelOf[w] = b
        \/ \E w \in job[loaded[b]].victims : ModelOf[w] = a
    BY <2>1 DEF Sound, SwapExclusive, Victims
  <2>3. loaded[a] \in Records \ {i} /\ loaded[b] \in Records \ {i}
    BY <2>1 DEF n
  <2> QED BY <1>5, <2>1, <2>2, <2>3
<1>12. LeavingIsVictim'
  <2> SUFFICES ASSUME NEW j \in Records, rec'[j].leaving
      PROVE  \E k \in Records : j \in job'[k].victims
    BY DEF LeavingIsVictim
  <2>1. j # i /\ rec[j].leaving /\ j \notin job[i].victims
    BY <1>2, <1>3, <1>4
  <2>2. PICK k \in Records : j \in job[k].victims
    BY <2>1 DEF Sound, LeavingIsVictim
  <2> QED BY <1>5, <2>1, <2>2
<1> QED BY <1>7, <1>8, <1>9, <1>10, <1>11, <1>12 DEF Sound

(* The load of i goes on, fails or ends: the record is dropped at most when *)
(* no server holds its model.                                               *)
LEMMA LoadSound ==
  ASSUME Inv, Sound, ~misled, NEW i \in Records,
         job[i].at \in {"load", "loading", "confirm", "baseline"},
         NEW step \in {"loading", "confirm", "baseline", "none"}, At(i, step),
         \A j \in Records \ {i} : rec'[j] = rec[j],
         rec'[i].leaving => rec[i].leaving,
         \/ /\ step \in {"loading", "baseline"} /\ job[i].at \in {"load", "loading"}
            /\ SameFlags(rec'[i], rec[i])
         \/ step = "confirm" /\ ~rec'[i].ready /\ rec'[i].error
         \/ step = "none" /\ rec'[i].ready,
         \/ /\ loaded' = loaded
            /\ \A m \in Models : Held(m)' => Held(m) \/ loaded[m] = i
         \/ /\ step = "none" /\ loaded' = [loaded EXCEPT ![ModelOf[i]] = None]
            /\ loaded[ModelOf[i]] = i /\ ~Held(ModelOf[i]) /\ UNCHANGED server,
         UNCHANGED <<scan, histVars>>
  PROVE  Sound'
<1> USE Types DEF histVars
<1>1. /\ job'[i].at = step /\ job'[i].victims = {} /\ job[i].victims = {}
      /\ \A j \in Records \ {i} : job'[j] = job[j]
      /\ ~rec[i].ready
      /\ \A j \in Records : i \notin job[j].victims
  BY DEF At, Sound, JobsSound, VictimsSound
<1>2. \A j \in Records : job'[j].victims = job[j].victims
  BY <1>1
<1>3. \A j \in Records \ {i} : loaded[ModelOf[j]] = j => loaded'[ModelOf[j]] = j
  OBVIOUS
<1>4. \A m \in Models : loaded'[m] # None => loaded'[m] = loaded[m]
  OBVIOUS
<1>5. JobsSound'
  <2> SUFFICES ASSUME NEW j \in Records
      PROVE  /\ job'[j].at # "died"
             /\ job'[j].at \notin {"none", "confirm"} =>
                  loaded'[ModelOf[j]] = j /\ ~rec'[j].ready /\ ~rec'[j].error
             /\ job'[j].at = "confirm" => ~rec'[j].ready /\ rec'[j].error
             /\ job'[j].at = "none" /\ ~rec'[j].ready => rec'[j].adopted /\ ~rec'[j].error
             /\ Swapping(j)' => ~Held(ModelOf[j])'
             /\ job'[j].at \in {"unload", "drain"} <=> job'[j].victims # {}
             /\ job'[j].at = "drain" => job'[j].victim \in job'[j].victims
    BY DEF JobsSound
  <2>1. CASE j = i
    <3>1. step \in {"loading", "baseline"} =>
            loaded'[ModelOf[i]] = i /\ ~rec'[i].ready /\ ~rec'[i].error
      BY DEF Sound, JobsSound, SameFlags
    <3> QED BY <1>1, <2>1, <3>1 DEF Swapping
  <2>2. CASE j # i
    <3>1. job'[j] = job[j] /\ rec'[j] = rec[j]
          /\ (loaded[ModelOf[j]] = j => loaded'[ModelOf[j]] = j)
      BY <1>1, <1>3, <2>2
    <3>2. Held(ModelOf[j])' /\ loaded[ModelOf[j]] = j => Held(ModelOf[j])
      BY <2>2 DEF Held
    <3> QED BY <3>1, <3>2 DEF Sound, JobsSound, Swapping
  <2> QED BY <2>1, <2>2
<1>6. VictimsSound'
  BY <1>1, <1>2, <1>3 DEF Sound, VictimsSound
<1>7. Adopting'
  BY <1>1, <1>3 DEF Sound, Adopting, JobsSound
<1>8. HoldersTracked'
  BY DEF Sound, HoldersTracked, Held
<1>9. SwapExclusive'
  <2> SUFFICES ASSUME NEW a \in Models, NEW b \in Rivals(a),
                      loaded'[a] # None, loaded'[b] # None
      PROVE  \/ \E w \in job'[loaded'[a]].victims : ModelOf[w] = b
             \/ \E w \in job'[loaded'[b]].victims : ModelOf[w] = a
    BY DEF SwapExclusive, Rivals, Victims
  <2>1. b \in Models /\ loaded'[a] = loaded[a] /\ loaded'[b] = loaded[b]
    BY <1>4 DEF Rivals
  <2>2. \/ \E w \in job[loaded[a]].victims : ModelOf[w] = b
        \/ \E w \in job[loaded[b]].victims : ModelOf[w] = a
    BY <2>1 DEF Sound, SwapExclusive, Victims
  <2> QED BY <1>2, <2>1, <2>2
<1>10. LeavingIsVictim'
  BY <1>2 DEF Sound, LeavingIsVictim
<1> QED BY <1>5, <1>6, <1>7, <1>8, <1>9, <1>10 DEF Sound

LEMMA AskUnloadSound ==
  ASSUME Inv, Sound, ~misled, NEW i \in Records, AskUnload(i)
  PROVE  Sound'
<1> USE Types DEF viewVars, reqVars, lockVars, serverVars, boundVars, histVars
<1>1. PICK v \in job[i].victims :
        \/ /\ Held(ModelOf[v])
           /\ server' = [server EXCEPT ![ModelOf[v]] = "unloading"]
           /\ job' = [job EXCEPT ![i].at = "drain", ![i].victim = v]
           /\ UNCHANGED <<loaded, rec>>
        \/ Gone(ModelOf[v]) /\ Removed(i, v) /\ UNCHANGED server
        \/ /\ SwapFails(i)
           /\ server' \in {server, [server EXCEPT ![ModelOf[v]] = IF Held(ModelOf[v])
                                                         THEN "unloading" ELSE @]}
  BY DEF AskUnload
<1>2. /\ UNCHANGED <<scan, histVars>> /\ job[i].at = "unload" /\ v \in Records
  BY DEF AskUnload
<1>3. CASE Gone(ModelOf[v]) /\ Removed(i, v) /\ UNCHANGED server
  BY <1>2, <1>3, RemovedSound DEF Gone
<1>4. CASE /\ SwapFails(i)
           /\ server' \in {server, [server EXCEPT ![ModelOf[v]] = IF Held(ModelOf[v])
                                                         THEN "unloading" ELSE @]}
  <2>1. \A m \in Models : Held(m)' => Held(m)
    BY <1>4 DEF Held
  <2> QED BY <1>2, <1>4, <2>1, SwapFailsSound
<1>5. CASE /\ Held(ModelOf[v])
           /\ server' = [server EXCEPT ![ModelOf[v]] = "unloading"]
           /\ job' = [job EXCEPT ![i].at = "drain", ![i].victim = v]
           /\ UNCHANGED <<loaded, rec>>
  <2>1. \A m \in Models : Held(m)' <=> Held(m)
    BY <1>5 DEF Held
  <2>2. /\ job'[i].at = "drain" /\ job'[i].victim = v
        /\ \A j \in Records : job'[j].victims = job[j].victims
        /\ \A j \in Records \ {i} : job'[j] = job[j]
    BY <1>5
  <2>3. JobsSound'
    BY <1>2, <1>5, <2>1, <2>2 DEF Sound, JobsSound, Swapping
  <2>4. VictimsSound'
    BY <1>5, <2>2 DEF Sound, VictimsSound
  <2>5. Adopting'
    BY <1>2, <1>5, <2>2 DEF Sound, Adopting
  <2>6. HoldersTracked'
    BY <1>2, <1>5, <2>1 DEF Sound, HoldersTracked
  <2>7. SwapExclusive'
    <3> SUFFICES ASSUME NEW a \in Models, NEW b \in Rivals(a),
                        loaded'[a] # None, loaded'[b] # None
        PROVE  \/ \E w \in job'[loaded'[a]].victims : ModelOf[w] = b
               \/ \E w \in job'[loaded'[b]].victims : ModelOf[w] = a
      BY DEF SwapExclusive, Rivals, Victims
    <3>1. b \in Models /\ loaded' = loaded
      BY <1>5 DEF Rivals
    <3>2. \/ \E w \in job[loaded[a]].victims : ModelOf[w] = b
          \/ \E w \in job[loaded[b]].victims : ModelOf[w] = a
      BY <3>1 DEF Sound, SwapExclusive, Victims
    <3> QED BY <2>2, <3>1, <3>2
  <2>8. LeavingIsVictim'
    BY <1>2, <1>5, <2>2 DEF Sound, LeavingIsVictim, histVars
  <2> QED BY <2>3, <2>4, <2>5, <2>6, <2>7, <2>8 DEF Sound
<1> QED BY <1>1, <1>3, <1>4, <1>5

LEMMA TaskSound ==
  ASSUME Inv, Sound, ~misled, NEW i \in Records, TaskStep(i)
  PROVE  Sound'
<1> USE Types DEF viewVars, reqVars, lockVars, serverVars, boundVars, histVars
<1>0. rec[i] \in LoadedModel
  OBVIOUS
<1>1. CASE AskUnload(i)
  BY <1>1, AskUnloadSound
<1>2. CASE AwaitUnloaded(i)
  <2>1. job[i].at = "drain" /\ job[i].victim \in job[i].victims
    BY <1>2 DEF AwaitUnloaded, Sound, JobsSound
  <2>2. UNCHANGED <<server, scan, histVars>>
    BY <1>2 DEF AwaitUnloaded
  <2>3. \A m \in Models : Held(m)' => Held(m)
    BY <2>2 DEF Held
  <2>4. CASE Gone(ModelOf[job[i].victim]) /\ Removed(i, job[i].victim)
    BY <2>1, <2>2, <2>4, RemovedSound DEF Gone
  <2>5. CASE SwapFails(i)
    BY <2>1, <2>2, <2>3, <2>5, SwapFailsSound
  <2> QED BY <1>2, <2>4, <2>5 DEF AwaitUnloaded
<1>3. ASSUME LoadFails(i), job[i].at \in {"load", "loading"}, UNCHANGED <<loaded, scan, histVars>>,
             \A m \in Models : Held(m)' => Held(m) \/ loaded[m] = i
      PROVE  Sound'
  <2>1. /\ rec'[i] = [rec[i] EXCEPT !.error = TRUE] /\ At(i, "confirm")
        /\ \A j \in Records \ {i} : rec'[j] = rec[j]
    BY <1>3 DEF LoadFails
  <2>2. rec'[i].error /\ ~rec'[i].ready /\ rec'[i].leaving = rec[i].leaving
    BY <1>0, <1>3, <2>1 DEF Sound, JobsSound, LoadedModel
  <2> QED BY <1>3, <2>1, <2>2, LoadSound
<1>4. CASE AskLoad(i)
  <2>1. job[i].at = "load" /\ loaded[ModelOf[i]] = i /\ UNCHANGED <<loaded, scan, histVars>>
    BY <1>4 DEF AskLoad, Sound, JobsSound
  <2>2. \A m \in Models : Held(m)' => Held(m) \/ loaded[m] = i
    BY <1>4, <2>1 DEF AskLoad, Held
  <2>3. CASE At(i, "loading") /\ UNCHANGED rec
    BY <2>1, <2>2, <2>3, LoadSound DEF SameFlags
  <2> QED BY <1>3, <1>4, <2>1, <2>2, <2>3 DEF AskLoad
<1>5. CASE AwaitLoaded(i)
  <2>1. job[i].at = "loading" /\ UNCHANGED <<loaded, server, scan, histVars>>
    BY <1>5 DEF AwaitLoaded
  <2>2. \A m \in Models : Held(m)' => Held(m) \/ loaded[m] = i
    BY <2>1 DEF Held
  <2>3. CASE At(i, "baseline") /\ UNCHANGED rec
    BY <2>1, <2>2, <2>3, LoadSound DEF SameFlags
  <2> QED BY <1>3, <1>5, <2>1, <2>2, <2>3 DEF AwaitLoaded
<1>6. CASE ConfirmFailed(i)
  <2>1. job[i].at = "confirm" /\ UNCHANGED <<server, scan, histVars>> /\ At(i, "none")
    BY <1>6 DEF ConfirmFailed
  <2>2. /\ Settled(i).ready /\ Outlived(Settled(i)).ready
        /\ Settled(i).leaving = rec[i].leaving /\ ~Outlived(Settled(i)).leaving
    BY <1>0 DEF Settled, Outlived, LoadedModel, Blank
  <2>3. /\ rec'[i].ready /\ (rec'[i].leaving => rec[i].leaving)
        /\ \A j \in Records \ {i} : rec'[j] = rec[j]
    BY <1>6, <2>2 DEF ConfirmFailed
  <2>4. \A m \in Models : Held(m)' => Held(m)
    BY <2>1 DEF Held
  <2>5. \/ loaded' = loaded
        \/ /\ loaded' = [loaded EXCEPT ![ModelOf[i]] = None]
           /\ loaded[ModelOf[i]] = i /\ ~Held(ModelOf[i])
    BY <1>6 DEF ConfirmFailed, Unloaded, Report, Held
  <2> QED BY <2>1, <2>3, <2>4, <2>5, LoadSound
<1>7. CASE RecordBaseline(i)
  <2>1. job[i].at = "baseline" /\ UNCHANGED <<loaded, server, scan, histVars>> /\ At(i, "none")
    BY <1>7 DEF RecordBaseline
  <2>2. /\ Settled(i).ready /\ [Settled(i) EXCEPT !.moved = FALSE].ready
        /\ Settled(i).leaving = rec[i].leaving
        /\ [Settled(i) EXCEPT !.moved = FALSE].leaving = rec[i].leaving
    BY <1>0 DEF Settled, LoadedModel
  <2>3. \E new \in {Settled(i), [Settled(i) EXCEPT !.moved = FALSE]} :
          rec' = [rec EXCEPT ![i] = new]
    BY <1>7 DEF RecordBaseline
  <2>4. /\ rec'[i].ready /\ (rec'[i].leaving => rec[i].leaving)
        /\ \A j \in Records \ {i} : rec'[j] = rec[j]
    <3>1. PICK new \in {Settled(i), [Settled(i) EXCEPT !.moved = FALSE]} :
            rec' = [rec EXCEPT ![i] = new]
      BY <2>3
    <3>2. new.ready /\ new.leaving = rec[i].leaving
      BY <2>2
    <3> QED BY <3>1, <3>2
  <2>5. \A m \in Models : Held(m)' => Held(m) \/ loaded[m] = i
    BY <2>1 DEF Held
  <2> QED BY <2>1, <2>4, <2>5, LoadSound
<1> QED BY <1>1, <1>2, <1>4, <1>5, <1>6, <1>7 DEF TaskStep

-----------------------------------------------------------------------------
(* The survey *)

(* Two models on the servers are compatible: once every server was read,    *)
(* both are tracked, so that one would be a victim of a swap to the other,  *)
(* which asks for its load only later.                                      *)
LEMMA HeldExclusive ==
  ASSUME Inv, Sound, Uninformed, ~misled
  PROVE  Compatible({m \in Models : Held(m)})
<1> USE Types
<1>1. CASE blind # {}
  BY <1>1 DEF Uninformed, Compatible
<1>2. CASE blind = {}
  <2> SUFFICES ASSUME NEW a \in Models, NEW b \in Models, Held(a), Held(b), a # b,
                      ClaimsConflict(a, b)
      PROVE  FALSE
    BY DEF Compatible
  <2>1. loaded[a] # None /\ loaded[b] # None
    BY <1>2 DEF Sound, HoldersTracked
  <2>2. b \in Rivals(a)
    BY DEF Rivals
  <2>3. b \in Victims(loaded[a]) \/ a \in Victims(loaded[b])
    BY <2>1, <2>2 DEF Sound, SwapExclusive
  <2>4. Swapping(loaded[a]) \/ Swapping(loaded[b])
    BY <2>1, <2>3 DEF Victims, Sound, JobsSound, Swapping
  <2> QED BY <2>1, <2>4 DEF Sound, JobsSound
<1> QED BY <1>1, <1>2

(* The models that a merge adopts, keeps and gives up, when it does not     *)
(* mislead the broker.                                                      *)
LEMMA MergeViews ==
  ASSUME Inv, Sound, Uninformed, ~misled, Merge, ~misled'
  PROVE  /\ \A m \in ToAdopt :
              /\ m \in Models /\ Held(m) /\ Listed(m) /\ loaded'[m] = Fresh(m)
              /\ Fresh(m) \in Records /\ ModelOf[Fresh(m)] = m /\ loaded[m] # Fresh(m)
              /\ rec'[Fresh(m)] = Adopted(scan.seen[m])
              /\ \A r \in Requests : on[r] # Fresh(m)
              /\ job[Fresh(m)].at = "none" /\ job[Fresh(m)].victims = {}
              /\ \A j \in Records : Fresh(m) \notin job[j].victims
         /\ \A m \in Models \ ToAdopt :
              loaded'[m] = IF Stays(m) THEN loaded[m] ELSE None
         /\ \A m \in Models : scan.seen[m] # "down" => (Listed(m) <=> Held(m))
         /\ \A m \in Models :
              loaded[m] # None /\ loaded'[m] # loaded[m] =>
                /\ ~rec[loaded[m]].leaving /\ rec[loaded[m]].queued <= 0
                /\ rec[loaded[m]].error \/ (rec[loaded[m]].ready /\ rec[loaded[m]].active <= 0)
         /\ \A i \in Records :
              \/ ModelOf[i] \in ToAdopt /\ i = Fresh(ModelOf[i])
              \/ rec'[i] = rec[i]
              \/ /\ rec'[i] = Outlived(rec[i]) /\ job[i].at = "none"
                 /\ loaded[ModelOf[i]] = i /\ loaded'[ModelOf[i]] # i
         /\ UNCHANGED server
<1> USE Types
<1>1. /\ loaded' = [m \in Models |-> IF m \in ToAdopt THEN Fresh(m)
                                     ELSE IF Stays(m) THEN loaded[m] ELSE None]
      /\ rec' = [i \in Records |->
                   IF ModelOf[i] \in ToAdopt /\ i = Fresh(ModelOf[i])
                     THEN Adopted(scan.seen[ModelOf[i]])
                   ELSE IF i = loaded[ModelOf[i]] /\ i # loaded'[ModelOf[i]] /\ job[i].at = "none"
                     THEN Outlived(rec[i]) ELSE rec[i]]
      /\ \A m \in ToAdopt : m \in Models /\ Free(m) # {}
      /\ ~Misleads
      /\ UNCHANGED server
  BY DEF Merge, ToAdopt, serverVars
<1>2. \A m \in Models : scan.seen[m] # "down" => (Listed(m) <=> Held(m))
  BY <1>1 DEF Misleads, Listed, Held
<1>3. ASSUME NEW m \in ToAdopt
      PROVE  /\ m \in Models /\ Held(m) /\ Listed(m) /\ loaded'[m] = Fresh(m)
             /\ Fresh(m) \in Records /\ ModelOf[Fresh(m)] = m /\ loaded[m] # Fresh(m)
             /\ rec'[Fresh(m)] = Adopted(scan.seen[m])
             /\ \A r \in Requests : on[r] # Fresh(m)
             /\ job[Fresh(m)].at = "none" /\ job[Fresh(m)].victims = {}
             /\ \A j \in Records : Fresh(m) \notin job[j].victims
  <2>1. /\ Fresh(m) \in Records /\ ModelOf[Fresh(m)] = m /\ loaded[m] # Fresh(m)
        /\ \A r \in Requests : on[r] # Fresh(m)
        /\ job[Fresh(m)].at = "none"
        /\ \A j \in Records : Fresh(m) \notin job[j].victims
    BY <1>1, FreshUnused
  <2>2. job[Fresh(m)].victims = {}
    BY <2>1 DEF Sound, JobsSound
  <2>3. Listed(m) /\ scan.seen[m] # "down"
    BY DEF ToAdopt, Listed
  <2>4. Held(m)
    BY <1>1, <1>2, <2>3
  <2>5. loaded'[m] = Fresh(m)
    BY <1>1
  <2>6. rec'[Fresh(m)] = Adopted(scan.seen[m])
    BY <1>1, <2>1
  <2> QED BY <1>1, <2>1, <2>2, <2>3, <2>4, <2>5, <2>6
<1>4. \A m \in Models \ ToAdopt : loaded'[m] = IF Stays(m) THEN loaded[m] ELSE None
  BY <1>1
<1>5. ASSUME NEW m \in Models, loaded[m] # None, loaded'[m] # loaded[m]
      PROVE  /\ ~rec[loaded[m]].leaving /\ rec[loaded[m]].queued <= 0
             /\ rec[loaded[m]].error \/ (rec[loaded[m]].ready /\ rec[loaded[m]].active <= 0)
  <2>1. ~rec[loaded[m]].leaving /\ ~(rec[loaded[m]].queued > 0)
    BY <1>1, <1>5, Zenon DEF Misleads
  <2>2. rec[loaded[m]] \in LoadedModel
    BY <1>5
  <2>3. rec[loaded[m]].queued <= 0
    BY <2>1, <2>2 DEF LoadedModel
  <2>4. CASE m \in ToAdopt
    <3>1. rec[loaded[m]].error
      BY <1>5, <2>4, Zenon DEF ToAdopt
    <3> QED BY <2>1, <2>3, <3>1, Zenon
  <2>5. CASE m \notin ToAdopt
    <3>1. ~Stays(m)
      BY <1>4, <1>5, <2>5
    <3> QED BY <1>5, <2>1, <2>2, <2>3, <3>1 DEF Stays, LoadedModel
  <2> QED BY <2>4, <2>5
<1>6. \A i \in Records :
        \/ ModelOf[i] \in ToAdopt /\ i = Fresh(ModelOf[i])
        \/ rec'[i] = rec[i]
        \/ /\ rec'[i] = Outlived(rec[i]) /\ job[i].at = "none"
           /\ loaded[ModelOf[i]] = i /\ loaded'[ModelOf[i]] # i
  BY <1>1
<1> QED BY <1>1, <1>2, <1>3, <1>4, <1>5, <1>6

(* The tasks of a merge or of the next step of tracking: those watched get  *)
(* one, and the lock is kept for the next model in line, or let go.         *)
LEMMA TrackJobs ==
  ASSUME Inv, NEW todo \in SUBSET Records, NEW ready, NEW unfit, Track(todo, ready, unfit)
  PROVE  /\ scan'.todo \subseteq todo
         /\ \A i \in Records :
              \/ job'[i] = job[i]
              \/ i \in todo \ ready /\ i \notin scan'.todo /\ job'[i] = Watcher
         /\ stage' \in {"track", "none"}
<1>1. PICK watched \in SUBSET (todo \ ready) :
        /\ job' = [i \in Records |-> IF i \in watched THEN Watcher ELSE job[i]]
        /\ \/ \E i \in todo \cap ready :
                /\ stage' = "track"
                /\ scan' = [scan EXCEPT !.todo = todo \ (watched \cup {i}), !.at = i]
                /\ UNCHANGED <<reqVars, lock, probe>>
           \/ /\ watched = todo /\ Unlock
              /\ IF lock = Boot THEN UNCHANGED reqVars
                 ELSE IF unfit THEN Leave(lock) /\ UNCHANGED <<ahead, late>>
                 ELSE Enter(lock) /\ UNCHANGED <<want, on>>
  BY DEF Track
<1>2. CASE \E i \in todo \cap ready :
             /\ stage' = "track"
             /\ scan' = [scan EXCEPT !.todo = todo \ (watched \cup {i}), !.at = i]
             /\ UNCHANGED <<reqVars, lock, probe>>
  <2>1. PICK i \in todo \cap ready : scan' = [scan EXCEPT !.todo = todo \ (watched \cup {i}), !.at = i]
    BY <1>2
  <2>2. scan'.todo = todo \ (watched \cup {i})
    BY <2>1 DEF Inv, TypeOK, LockType
  <2> QED BY <1>1, <1>2, <2>1, <2>2
<1>3. CASE watched = todo /\ Unlock
  <2>1. scan'.todo = {} /\ stage' = "none"
    BY <1>3 DEF Unlock, NoScan
  <2> QED BY <1>1, <1>2, <1>3, <2>1
<1> QED BY <1>1, <1>2, <1>3

LEMMA MergeSound ==
  ASSUME Inv, Safe, ~misled, Merge, ~misled'
  PROVE  Sound'
<1> USE Types
<1> DEFINE todo == {Fresh(m) : m \in ToAdopt}
           ready == {Fresh(m) : m \in {k \in ToAdopt : scan.seen[k] = "loaded"}}
<1>1. /\ \A m \in ToAdopt :
           /\ m \in Models /\ Held(m) /\ Listed(m) /\ loaded'[m] = Fresh(m)
           /\ Fresh(m) \in Records /\ ModelOf[Fresh(m)] = m /\ loaded[m] # Fresh(m)
           /\ rec'[Fresh(m)] = Adopted(scan.seen[m])
           /\ job[Fresh(m)].at = "none" /\ job[Fresh(m)].victims = {}
           /\ \A j \in Records : Fresh(m) \notin job[j].victims
      /\ \A m \in Models \ ToAdopt :
           loaded'[m] = IF Stays(m) THEN loaded[m] ELSE None
      /\ \A m \in Models : scan.seen[m] # "down" => (Listed(m) <=> Held(m))
      /\ UNCHANGED server
  BY MergeViews DEF Safe
<1>2. \A m \in Models :
        loaded[m] # None /\ loaded'[m] # loaded[m] =>
          /\ ~rec[loaded[m]].leaving
          /\ rec[loaded[m]].error \/ rec[loaded[m]].ready
  BY MergeViews DEF Safe
<1>3. \A i \in Records :
        \/ ModelOf[i] \in ToAdopt /\ i = Fresh(ModelOf[i])
        \/ rec'[i] = rec[i]
        \/ /\ rec'[i] = Outlived(rec[i]) /\ job[i].at = "none"
           /\ loaded[ModelOf[i]] = i /\ loaded'[ModelOf[i]] # i
  BY MergeViews DEF Safe
<1>4. /\ todo \in SUBSET Records
      /\ Track(todo, ready, problems')
      /\ blind' = {b \in blind : \E m \in Served(b) : scan.seen[m] = "down"}
  <2>1. todo \subseteq Records
    BY <1>1
  <2> QED BY <2>1, Zenon DEF Merge
<1>5. /\ scan'.todo \subseteq todo
      /\ \A i \in Records :
           \/ job'[i] = job[i]
           \/ i \in todo \ ready /\ i \notin scan'.todo /\ job'[i] = Watcher
  <2> HIDE DEF todo, ready
  <2> QED BY <1>4, TrackJobs
<1>6. /\ \A i \in todo : \E m \in ToAdopt : i = Fresh(m)
      /\ \A m \in ToAdopt : Fresh(m) \in todo
      /\ \A m \in ToAdopt : Fresh(m) \notin ready => scan.seen[m] # "loaded"
  OBVIOUS
<1> HIDE DEF todo, ready
<1>7. JobsSound'
  <2> SUFFICES ASSUME NEW i \in Records
      PROVE  /\ job'[i].at # "died"
             /\ job'[i].at \notin {"none", "confirm"} =>
                  loaded'[ModelOf[i]] = i /\ ~rec'[i].ready /\ ~rec'[i].error
             /\ job'[i].at = "confirm" => ~rec'[i].ready /\ rec'[i].error
             /\ job'[i].at = "none" /\ ~rec'[i].ready => rec'[i].adopted /\ ~rec'[i].error
             /\ Swapping(i)' => ~Held(ModelOf[i])'
             /\ job'[i].at \in {"unload", "drain"} <=> job'[i].victims # {}
             /\ job'[i].at = "drain" => job'[i].victim \in job'[i].victims
    BY DEF JobsSound
  <2>1. CASE ModelOf[i] \in ToAdopt /\ i = Fresh(ModelOf[i])
    <3> DEFINE m == ModelOf[i]
    <3>1. /\ rec'[i].ready = (scan.seen[m] # "loading") /\ ~rec'[i].error
          /\ rec'[i].adopted /\ loaded'[m] = i /\ job[i].at = "none" /\ job[i].victims = {}
      <4>1. /\ Adopted(scan.seen[m]).ready = (scan.seen[m] # "loading")
            /\ ~Adopted(scan.seen[m]).error /\ Adopted(scan.seen[m]).adopted
        BY DEF Adopted, Blank
      <4> QED BY <1>1, <2>1, <4>1
    <3>2. CASE job'[i] = job[i]
      BY <3>1, <3>2 DEF Swapping
    <3>3. CASE job'[i] = Watcher /\ i \in todo \ ready
      <4>1. scan.seen[m] = "loading"
        BY <1>1, <1>6, <2>1, <3>3 DEF Listed
      <4> QED BY <3>1, <3>3, <4>1 DEF Swapping, Watcher, NoJob
    <3> QED BY <1>5, <3>2, <3>3
  <2>2. CASE ~(ModelOf[i] \in ToAdopt /\ i = Fresh(ModelOf[i]))
    <3>1. job'[i] = job[i]
      BY <1>1, <1>5, <1>6, <2>2
    <3>2. rec'[i].ready = rec[i].ready
      <4>1. Outlived(rec[i]).ready = rec[i].ready
        BY DEF Outlived, Blank
      <4> QED BY <1>3, <2>2, <4>1
    <3>3. Held(ModelOf[i])' = Held(ModelOf[i])
      BY <1>1 DEF Held
    <3>4. loaded[ModelOf[i]] = i /\ loaded'[ModelOf[i]] # i => rec[i].error \/ rec[i].ready
      BY <1>2
    <3>5. job[i].at # "none" => rec'[i] = rec[i]
      BY <1>3, <2>2
    <3>6. ~rec[i].ready => rec'[i] = rec[i]
      BY <1>3, <2>2, <3>4 DEF Safe, Sound, JobsSound
    <3> QED BY <3>1, <3>2, <3>3, <3>4, <3>5, <3>6 DEF Safe, Sound, JobsSound, Swapping
  <2> QED BY <2>1, <2>2
<1>8. VictimsSound'
  <2> SUFFICES ASSUME NEW i \in Records, NEW v \in job'[i].victims
      PROVE  /\ loaded'[ModelOf[v]] = v /\ rec'[v].leaving /\ rec'[v].ready
             /\ \A j \in Records : v \in job'[j].victims => i = j
    BY DEF VictimsSound
  <2>1. \A j \in Records : job'[j].victims \subseteq job[j].victims
    BY <1>5 DEF Watcher, NoJob
  <2>2. /\ v \in job[i].victims /\ v \in Records
        /\ loaded[ModelOf[v]] = v /\ rec[v].leaving /\ rec[v].ready
        /\ \A j \in Records : v \in job[j].victims => i = j
    BY <2>1 DEF Safe, Sound, VictimsSound
  <2>3. loaded'[ModelOf[v]] = v
    BY <1>2, <2>2
  <2>4. rec'[v] = rec[v]
    BY <1>1, <1>3, <2>2, <2>3
  <2> QED BY <2>1, <2>2, <2>3, <2>4
<1>9. Adopting'
  <2> SUFFICES ASSUME NEW i \in scan'.todo
      PROVE  loaded'[ModelOf[i]] = i /\ job'[i].at = "none"
    BY DEF Adopting
  <2>1. i \in todo /\ job'[i] = job[i]
    BY <1>4, <1>5
  <2> QED BY <1>1, <1>6, <2>1
<1>10. HoldersTracked'
  <2> SUFFICES ASSUME NEW m \in Models, Held(m), BackendOf[m] \notin blind'
      PROVE  loaded'[m] # None
    BY <1>1 DEF HoldersTracked, Held
  <2>1. CASE m \in ToAdopt
    BY <1>1, <2>1
  <2>2. CASE m \notin ToAdopt /\ scan.seen[m] # "down"
    <3>1. Listed(m) /\ loaded[m] # None
      BY <1>1, <2>2 DEF ToAdopt
    <3> QED BY <1>1, <2>2, <3>1 DEF Stays
  <2>3. CASE m \notin ToAdopt /\ scan.seen[m] = "down"
    <3>1. BackendOf[m] \notin blind
      BY <1>4, <2>3 DEF Served
    <3>2. loaded[m] # None
      BY <3>1 DEF Safe, Sound, HoldersTracked
    <3> QED BY <1>1, <2>3, <3>2 DEF Stays
  <2> QED BY <2>1, <2>2, <2>3
<1>11. SwapExclusive'
  <2> SUFFICES ASSUME NEW a \in Models, NEW b \in Rivals(a),
                      loaded'[a] # None, loaded'[b] # None
      PROVE  \/ \E w \in job'[loaded'[a]].victims : ModelOf[w] = b
             \/ \E w \in job'[loaded'[b]].victims : ModelOf[w] = a
    BY DEF SwapExclusive, Rivals, Victims
  <2>1. b \in Models /\ a # b /\ a \in Rivals(b)
    BY DEF Rivals, ClaimsConflict
  <2>2. ASSUME NEW m \in ToAdopt, NEW n \in Rivals(m), loaded'[n] # None PROVE FALSE
    <3>1. /\ m \in Models /\ Held(m) /\ n \in Models /\ n # m /\ ClaimsConflict(m, n)
          /\ loaded'[m] # loaded[m]
      BY <1>1, <2>2 DEF Rivals
    <3>2. ~Held(n)
      BY <3>1, HeldExclusive DEF Safe, Compatible
    <3>3. loaded[n] # None
      BY <1>1, <2>2, <3>1, <3>2
    <3>4. blind = {}
      BY <3>1, <3>3 DEF Safe, Uninformed, Compatible
    <3>5. loaded[m] # None
      BY <3>1, <3>4 DEF Safe, Sound, HoldersTracked
    <3>6. \/ \E w \in job[loaded[m]].victims : ModelOf[w] = n
          \/ \E w \in job[loaded[n]].victims : ModelOf[w] = m
      BY <2>2, <3>1, <3>3, <3>5 DEF Safe, Sound, SwapExclusive, Victims
    <3>7. ~ \E w \in job[loaded[m]].victims : ModelOf[w] = n
      BY <3>1, <3>5 DEF Safe, Sound, JobsSound, Swapping
    <3>8. ~ \E w \in job[loaded[n]].victims : ModelOf[w] = m
      BY <1>2, <3>1, <3>3, <3>5 DEF Safe, Sound, VictimsSound
    <3> QED BY <3>6, <3>7, <3>8
  <2>3. a \notin ToAdopt /\ b \notin ToAdopt
    BY <2>1, <2>2
  <2>4. loaded'[a] = loaded[a] /\ loaded'[b] = loaded[b]
    BY <1>1, <2>1, <2>3
  <2>5. job'[loaded[a]] = job[loaded[a]] /\ job'[loaded[b]] = job[loaded[b]]
    BY <1>1, <1>5, <1>6, <2>1, <2>3, <2>4
  <2>6. \/ \E w \in job[loaded[a]].victims : ModelOf[w] = b
        \/ \E w \in job[loaded[b]].victims : ModelOf[w] = a
    BY <2>4 DEF Safe, Sound, SwapExclusive, Victims
  <2> QED BY <2>4, <2>5, <2>6
<1>12. LeavingIsVictim'
  <2> SUFFICES ASSUME NEW i \in Records, rec'[i].leaving
      PROVE  \E j \in Records : i \in job'[j].victims
    BY DEF LeavingIsVictim
  <2>1. rec'[i] = rec[i]
    <3>1. ~Outlived(rec[i]).leaving /\ \A status : ~Adopted(status).leaving
      BY DEF Outlived, Adopted, Blank
    <3> QED BY <1>1, <1>3, <3>1
  <2>2. PICK j \in Records : i \in job[j].victims
    BY <2>1 DEF Safe, Sound, LeavingIsVictim
  <2>3. job'[j] = job[j]
    <3>1. \A k \in todo : job[k].victims = {}
      BY <1>1, <1>6
    <3> QED BY <1>5, <2>2, <3>1
  <2> QED BY <2>2, <2>3
<1> QED BY <1>7, <1>8, <1>9, <1>10, <1>11, <1>12 DEF Sound

(* The next model of a survey is tracked. *)
LEMMA TrackNextSound ==
  ASSUME Inv, Sound, ~misled, TrackNext
  PROVE  Sound'
<1> USE Types DEF histVars, serverVars
<1> DEFINE ready == {i \in scan.todo : rec[i].ready}
<1>1. /\ Track(scan.todo, ready, problems)
      /\ UNCHANGED <<loaded, server, misled, blind>>
      /\ scan.at \in Records
      /\ rec' = rec \/ rec' = [rec EXCEPT ![scan.at].moved = FALSE]
  BY DEF TrackNext, Inv, TypeOK, LockType
<1>2. \A i \in Records : SameFlags(rec'[i], rec[i])
  <2>1. CASE rec' = rec
    BY <2>1 DEF SameFlags
  <2> QED BY <1>1, <2>1, FlagsKept
<1> HIDE DEF ready
<1>3. /\ scan'.todo \subseteq scan.todo
      /\ \A i \in Records :
           \/ job'[i] = job[i]
           \/ i \in scan.todo \ ready /\ i \notin scan'.todo /\ job'[i] = Watcher
  <2>1. scan.todo \in SUBSET Records
    OBVIOUS
  <2> DEFINE todo == scan.todo
  <2>2. todo \in SUBSET Records /\ Track(todo, ready, problems)
    BY <1>1, <2>1
  <2>3. scan'.todo \subseteq todo
    <3> HIDE DEF todo
    <3> QED BY <2>2, TrackJobs
  <2>4. \A i \in Records :
          \/ job'[i] = job[i]
          \/ i \in todo \ ready /\ i \notin scan'.todo /\ job'[i] = Watcher
    <3> HIDE DEF todo
    <3> QED BY <2>2, TrackJobs
  <2> QED BY <2>3, <2>4
<1>4. ASSUME NEW i \in Records, job'[i] # job[i]
      PROVE  /\ job'[i] = Watcher /\ i \notin scan'.todo
             /\ ~rec[i].ready /\ loaded[ModelOf[i]] = i /\ job[i].at = "none"
             /\ ~rec[i].error /\ job[i].victims = {}
  <2>1. /\ job'[i] = Watcher /\ i \in scan.todo /\ i \notin scan'.todo /\ ~rec[i].ready
    BY <1>3, <1>4 DEF ready
  <2> QED BY <2>1 DEF Sound, Adopting, JobsSound
<1>5. \A i \in Records : job'[i].victims = job[i].victims
  <2>1. Watcher.victims = {}
    BY DEF Watcher, NoJob
  <2> QED BY <1>4, <2>1
<1>6. JobsSound'
  <2> SUFFICES ASSUME NEW i \in Records
      PROVE  /\ job'[i].at # "died"
             /\ job'[i].at \notin {"none", "confirm"} =>
                  loaded'[ModelOf[i]] = i /\ ~rec'[i].ready /\ ~rec'[i].error
             /\ job'[i].at = "confirm" => ~rec'[i].ready /\ rec'[i].error
             /\ job'[i].at = "none" /\ ~rec'[i].ready => rec'[i].adopted /\ ~rec'[i].error
             /\ Swapping(i)' => ~Held(ModelOf[i])'
             /\ job'[i].at \in {"unload", "drain"} <=> job'[i].victims # {}
             /\ job'[i].at = "drain" => job'[i].victim \in job'[i].victims
    BY DEF JobsSound
  <2>0. /\ loaded' = loaded /\ SameFlags(rec'[i], rec[i])
        /\ Held(ModelOf[i])' = Held(ModelOf[i])
    BY <1>1, <1>2 DEF Held
  <2>1. CASE job'[i] = job[i]
    BY <2>0, <2>1 DEF Sound, JobsSound, Swapping, SameFlags
  <2>2. CASE job'[i] # job[i]
    BY <1>4, <2>0, <2>2 DEF Swapping, Watcher, NoJob, SameFlags
  <2> QED BY <2>1, <2>2
<1>7. VictimsSound'
  BY <1>1, <1>2, <1>5 DEF Sound, VictimsSound, SameFlags
<1>8. Adopting'
  BY <1>1, <1>2, <1>3, <1>4 DEF Sound, Adopting, SameFlags
<1>9. HoldersTracked'
  BY <1>1 DEF Sound, HoldersTracked, Held
<1>10. SwapExclusive'
  <2> SUFFICES ASSUME NEW a \in Models, NEW b \in Rivals(a),
                      loaded'[a] # None, loaded'[b] # None
      PROVE  \/ \E w \in job'[loaded'[a]].victims : ModelOf[w] = b
             \/ \E w \in job'[loaded'[b]].victims : ModelOf[w] = a
    BY DEF SwapExclusive, Rivals, Victims
  <2>1. b \in Models /\ loaded' = loaded
    BY <1>1 DEF Rivals
  <2>2. \/ \E w \in job[loaded[a]].victims : ModelOf[w] = b
        \/ \E w \in job[loaded[b]].victims : ModelOf[w] = a
    BY <2>1 DEF Sound, SwapExclusive, Victims
  <2> QED BY <1>5, <2>1, <2>2
<1>11. LeavingIsVictim'
  BY <1>1, <1>2, <1>5 DEF Sound, LeavingIsVictim, SameFlags
<1> QED BY <1>6, <1>7, <1>8, <1>9, <1>10, <1>11 DEF Sound

(* The broker starts again, and knows nothing. *)
LEMMA RestartSound ==
  ASSUME Inv, Safe, ~misled, Restart
  PROVE  Safe'
<1> USE Types
<1>1. /\ loaded' = [m \in Models |-> None]
      /\ rec' = [i \in Records |-> Blank]
      /\ pc' = [r \in Requests |-> "idle"]
      /\ lock' = Boot /\ stage' = "survey" /\ scan' = NoScan
      /\ job' = [i \in Records |-> NoJob]
      /\ blind' = Backends
      /\ UNCHANGED <<server, misled>>
  BY DEF Restart, serverVars
<1>2. \A m \in Models : Held(m)' = Held(m)
  BY <1>1 DEF Held
<1>3. Sound'
  <2>1. JobsSound'
    BY <1>1 DEF JobsSound, NoJob, Blank, Swapping
  <2>2. VictimsSound'
    BY <1>1 DEF VictimsSound, NoJob
  <2>3. Adopting'
    BY <1>1 DEF Adopting, NoScan
  <2>4. HoldersTracked'
    BY <1>1 DEF HoldersTracked
  <2>5. SwapExclusive'
    BY <1>1 DEF SwapExclusive, Rivals
  <2>6. LeavingIsVictim'
    BY <1>1 DEF LeavingIsVictim, Blank
  <2> QED BY <2>1, <2>2, <2>3, <2>4, <2>5, <2>6 DEF Sound
<1>4. Uninformed'
  <2>1. Compatible({m \in Models : Held(m)})
    BY HeldExclusive DEF Safe
  <2>2. Compatible({m \in Models : Held(m) \/ loaded[m] # None})'
    BY <1>1, <1>2, <2>1 DEF Compatible
  <2>3. \A i \in Records : ~Swapping(i)'
    BY <1>1 DEF Swapping, NoJob
  <2> QED BY <1>1, <2>2, <2>3 DEF Uninformed
<1>5. Placing'
  BY <1>1 DEF Placing
<1>6. Attached'
  BY <1>1 DEF Attached
<1> QED BY <1>3, <1>4, <1>5, <1>6 DEF Safe

-----------------------------------------------------------------------------
(* The rest of the invariant, step by step *)

(* What a task changes.  Apart from the record it works on, which is not    *)
(* ready, and the models it unloads, every record and its place stay; a     *)
(* request that waits for the task is on a tracked record or learns that    *)
(* the load has failed.                                                     *)
TaskChange(i, j) ==
  \/ /\ SameFlags(rec'[j], rec[j])
     /\ loaded[ModelOf[j]] = j => loaded'[ModelOf[j]] = j
  \/ /\ j # i /\ rec[j].leaving
  \/ /\ j = i /\ ~rec[i].ready
     /\ rec[i].queued > 0 /\ ~rec'[i].error =>
          ~rec[i].error /\ loaded'[ModelOf[i]] = loaded[ModelOf[i]]

(* The flags of the records that tasks write. *)
LEMMA TaskFlags ==
  ASSUME Inv, NEW i \in Records
  PROVE  /\ rec[i].queued > 0 => GivenUp(i).error
         /\ Settled(i).error = rec[i].error
         /\ [Settled(i) EXCEPT !.moved = FALSE].error = rec[i].error
         /\ rec[i].queued > 0 => Outlived(Settled(i)).error = rec[i].error
         /\ [rec[i] EXCEPT !.error = TRUE].error
<1>1. rec[i] \in LoadedModel
  BY Types
<1>2. GivenUp(i).error = (rec[i].queued > 0)
  BY <1>1 DEF GivenUp, Outlived, Blank, LoadedModel
<1>3. Settled(i).error = rec[i].error /\ Settled(i).queued = rec[i].queued
      /\ [Settled(i) EXCEPT !.moved = FALSE].error = rec[i].error
  BY <1>1 DEF Settled, LoadedModel
<1>4. Outlived(Settled(i)).error = (Settled(i).error /\ Settled(i).queued > 0)
  BY DEF Outlived, Blank
<1> QED BY <1>1, <1>2, <1>3, <1>4 DEF LoadedModel

LEMMA TaskEffects ==
  ASSUME Inv, Sound, NEW i \in Records, TaskStep(i)
  PROVE  /\ UNCHANGED <<reqVars, lockVars, histVars>>
         /\ problems' = problems \/ problems'
         /\ \A m \in Models : loaded'[m] \in {loaded[m], None}
         /\ \A j \in Records : TaskChange(i, j)
<1> USE Types
<1>0. UNCHANGED <<reqVars, lockVars, histVars>>
  BY DEF TaskStep, AskUnload, AwaitUnloaded, AskLoad, AwaitLoaded, ConfirmFailed,
         RecordBaseline, lockVars
<1>1. ASSUME NEW v \in job[i].victims, Removed(i, v)
      PROVE  /\ \A m \in Models : loaded'[m] \in {loaded[m], None}
             /\ \A j \in Records : TaskChange(i, j)
  <2>1. v \in Records /\ rec[v].leaving /\ v # i
    BY DEF Sound, VictimsSound, JobsSound
  <2>2. \A j \in Records \ {v} : rec'[j] = rec[j]
    BY <1>1 DEF Removed
  <2>3. \A m \in Models : loaded'[m] = loaded[m] \/ (m = ModelOf[v] /\ loaded'[m] = None)
    BY <1>1 DEF Removed
  <2>4. loaded[ModelOf[v]] = v
    BY DEF Sound, VictimsSound
  <2>5. ASSUME NEW j \in Records PROVE TaskChange(i, j)
    <3>1. CASE j = v
      BY <2>1, <3>1 DEF TaskChange
    <3>2. CASE j # v
      BY <2>2, <2>3, <2>4, <3>2 DEF TaskChange, SameFlags
    <3> QED BY <3>1, <3>2
  <2> QED BY <2>3, <2>5
<1>2. ASSUME job[i].at \in {"unload", "drain"}, SwapFails(i)
      PROVE  /\ \A m \in Models : loaded'[m] \in {loaded[m], None}
             /\ \A j \in Records : TaskChange(i, j)
  <2>1. loaded[ModelOf[i]] = i /\ ~rec[i].ready
    BY <1>2 DEF Sound, JobsSound
  <2>2. \A m \in Models : loaded'[m] = loaded[m] \/ (m = ModelOf[i] /\ loaded'[m] = None)
    BY <1>2 DEF SwapFails
  <2>3. TaskChange(i, i)
    <3>1. rec'[i] = GivenUp(i)
      BY <1>2 DEF SwapFails
    <3>2. rec[i].queued > 0 => rec'[i].error
      BY <3>1, TaskFlags
    <3> QED BY <2>1, <3>2 DEF TaskChange
  <2>4. ASSUME NEW j \in Records \ {i} PROVE TaskChange(i, j)
    <3>1. rec'[j] = [rec[j] EXCEPT !.leaving = @ /\ j \notin job[i].victims]
      BY <1>2 DEF SwapFails
    <3>2. loaded[ModelOf[j]] = j => loaded'[ModelOf[j]] = j
      BY <2>1, <2>2
    <3>3. CASE rec[j].leaving
      BY <3>3 DEF TaskChange
    <3>4. CASE ~rec[j].leaving
      <4>1. rec[j] \in LoadedModel
        OBVIOUS
      <4>2. SameFlags(rec'[j], rec[j])
        BY <3>1, <3>4, <4>1 DEF SameFlags, LoadedModel
      <4> QED BY <3>2, <4>2 DEF TaskChange
    <3> QED BY <3>3, <3>4
  <2> QED BY <2>2, <2>3, <2>4
<1>3. ASSUME NEW record, rec' = [rec EXCEPT ![i] = record], ~rec[i].ready,
             \A m \in Models : loaded'[m] = loaded[m] \/ (loaded[m] = i /\ loaded'[m] = None),
             rec[i].queued > 0 /\ ~record.error =>
               ~rec[i].error /\ loaded'[ModelOf[i]] = loaded[ModelOf[i]]
      PROVE  /\ \A m \in Models : loaded'[m] \in {loaded[m], None}
             /\ \A j \in Records : TaskChange(i, j)
  <2>1. rec'[i] = record /\ \A j \in Records \ {i} : rec'[j] = rec[j]
    BY <1>3
  <2>2. ASSUME NEW j \in Records PROVE TaskChange(i, j)
    BY <1>3, <2>1 DEF TaskChange, SameFlags
  <2> QED BY <1>3, <2>2
<1>4. ASSUME job[i].at \in {"load", "loading"}, LoadFails(i), UNCHANGED loaded
      PROVE  /\ \A m \in Models : loaded'[m] \in {loaded[m], None}
             /\ \A j \in Records : TaskChange(i, j)
  <2>1. rec' = [rec EXCEPT ![i] = [rec[i] EXCEPT !.error = TRUE]]
    BY <1>4 DEF LoadFails
  <2>2. ~rec[i].ready
    BY <1>4 DEF Sound, JobsSound
  <2> QED BY <1>3, <1>4, <2>1, <2>2, TaskFlags
<1>5. ASSUME UNCHANGED <<loaded, rec>>
      PROVE  /\ \A m \in Models : loaded'[m] \in {loaded[m], None}
             /\ \A j \in Records : TaskChange(i, j)
  BY <1>5 DEF TaskChange, SameFlags
<1>6. CASE AskUnload(i)
  BY <1>0, <1>1, <1>2, <1>5, <1>6 DEF AskUnload
<1>7. CASE AwaitUnloaded(i)
  <2>1. job[i].victim \in job[i].victims
    BY <1>7 DEF AwaitUnloaded, Sound, JobsSound
  <2> QED BY <1>0, <1>1, <1>2, <1>7, <2>1 DEF AwaitUnloaded
<1>8. CASE AskLoad(i) \/ AwaitLoaded(i)
  BY <1>0, <1>4, <1>5, <1>8 DEF AskLoad, AwaitLoaded
<1>9. CASE ConfirmFailed(i)
  <2>1. /\ job[i].at = "confirm"
        /\ problems' = problems \/ problems'
        /\ rec' = [rec EXCEPT ![i] = IF loaded'[ModelOf[i]] = i THEN Settled(i)
                                     ELSE Outlived(Settled(i))]
        /\ \A m \in Models : loaded'[m] = loaded[m] \/ (loaded[m] = i /\ loaded'[m] = None)
    BY <1>9 DEF ConfirmFailed
  <2>2. ~rec[i].ready /\ rec[i].error
    BY <2>1 DEF Sound, JobsSound
  <2> DEFINE record == IF loaded'[ModelOf[i]] = i THEN Settled(i) ELSE Outlived(Settled(i))
  <2>3. rec[i].queued > 0 => record.error
    BY <2>2, TaskFlags
  <2>4. rec' = [rec EXCEPT ![i] = record]
    BY <2>1
  <2> HIDE DEF record
  <2> QED BY <1>0, <1>3, <2>1, <2>2, <2>3, <2>4
<1>10. CASE RecordBaseline(i)
  <2>1. /\ job[i].at = "baseline" /\ problems' = problems /\ loaded' = loaded
        /\ \/ rec' = [rec EXCEPT ![i] = [Settled(i) EXCEPT !.moved = FALSE]]
           \/ rec' = [rec EXCEPT ![i] = Settled(i)]
    BY <1>10, Zenon DEF RecordBaseline
  <2>2. ~rec[i].ready /\ ~rec[i].error
    BY <2>1 DEF Sound, JobsSound
  <2> QED BY <1>0, <1>3, <2>1, <2>2, TaskFlags
<1> QED BY <1>6, <1>7, <1>8, <1>9, <1>10 DEF TaskStep

(* Before every server was read, requests only arrive, ask for a survey, or *)
(* leave, and no task decides anything.                                     *)
LEMMA UninformedRequest ==
  ASSUME Inv, Safe, ~misled, NEW r \in Requests, RequestStep(r)
  PROVE  Uninformed'
<1> USE Types DEF viewVars, reqVars, lockVars, serverVars, boundVars, histVars
<1> SUFFICES ASSUME blind' # {}
    PROVE  /\ \A s \in Requests : pc'[s] \in {"idle", "check"}
           /\ problems' \/ (lock' = Boot /\ stage' = "survey")
           /\ \A i \in Records : ~Swapping(i)'
           /\ Compatible({m \in Models : Held(m) \/ loaded[m] # None})'
  BY DEF Uninformed
<1>1. blind' = blind
  BY DEF RequestStep, Arrive, CheckRouter, Join, YieldToEarlier, AskLock, Deadline,
         PlaceKnown, PlaceFree, PlaceObserve, ObserveFails, ObserveWorking, ObserveNext,
         ObserveLast, Wake, Finish, Cancel
<1>2. /\ \A s \in Requests : pc[s] \in {"idle", "check"}
      /\ problems \/ (lock = Boot /\ stage = "survey")
      /\ \A i \in Records : ~Swapping(i)
      /\ Compatible({m \in Models : Held(m) \/ loaded[m] # None})
  BY <1>1 DEF Safe, Uninformed
<1>3. ~(lock = r /\ stage = "observe")
  BY <1>2, ObserverType DEF Inv
<1>4. (\E m \in Models : Arrive(r, m)) \/ CheckRouter(r) \/ Cancel(r)
  BY <1>2, <1>3 DEF RequestStep, Join, YieldToEarlier, AskLock, Deadline, Tickets,
         PlaceKnown, PlaceFree, PlaceObserve, ObserveFails, ObserveWorking, ObserveNext,
         ObserveLast, Wake, Finish
<1>5. Quiet /\ (problems' = problems)
  BY <1>4, RequestQuiet DEF Safe
<1>6. /\ \A i \in Records : ~Swapping(i)'
      /\ Compatible({m \in Models : Held(m) \/ loaded[m] # None})'
  BY <1>2, <1>5 DEF Quiet, Swapping, Compatible
<1>7. CASE \E m \in Models : Arrive(r, m)
  BY <1>2, <1>5, <1>6, <1>7 DEF Arrive
<1>8. CASE CheckRouter(r)
  <2>1. lock # Boot /\ problems
    BY <1>2, <1>8 DEF CheckRouter
  <2> QED BY <1>2, <1>5, <1>6, <1>8, <2>1 DEF CheckRouter
<1>9. CASE Cancel(r)
  <2>1. lock = Boot => lock # r
    OBVIOUS
  <2> QED BY <1>2, <1>5, <1>6, <1>9, <2>1 DEF Cancel, Leave
<1> QED BY <1>4, <1>7, <1>8, <1>9

LEMMA UninformedTask ==
  ASSUME Inv, Safe, ~misled, NEW i \in Records, TaskStep(i)
  PROVE  Uninformed'
<1> USE Types DEF viewVars, reqVars, lockVars, serverVars, boundVars, histVars
<1> SUFFICES ASSUME blind' # {}
    PROVE  /\ \A s \in Requests : pc'[s] \in {"idle", "check"}
           /\ problems' \/ (lock' = Boot /\ stage' = "survey")
           /\ \A j \in Records : ~Swapping(j)'
           /\ Compatible({m \in Models : Held(m) \/ loaded[m] # None})'
  BY DEF Uninformed
<1>1. /\ UNCHANGED <<reqVars, lockVars, histVars>>
      /\ problems' = problems \/ problems'
      /\ \A m \in Models : loaded'[m] \in {loaded[m], None}
  BY TaskEffects DEF Safe
<1>2. /\ \A s \in Requests : pc[s] \in {"idle", "check"}
      /\ problems \/ (lock = Boot /\ stage = "survey")
      /\ \A j \in Records : ~Swapping(j)
      /\ Compatible({m \in Models : Held(m) \/ loaded[m] # None})
  BY <1>1 DEF Safe, Uninformed
<1>3. AwaitLoaded(i) \/ ConfirmFailed(i) \/ RecordBaseline(i)
  BY <1>2 DEF TaskStep, AskUnload, AwaitUnloaded, AskLoad, Swapping
<1>4. /\ UNCHANGED server
      /\ \E step \in {"baseline", "confirm", "none"} : At(i, step)
  BY <1>3 DEF AwaitLoaded, ConfirmFailed, RecordBaseline, LoadFails
<1>5. \A j \in Records : ~Swapping(j)'
  BY <1>2, <1>4 DEF At, Swapping
<1>6. Compatible({m \in Models : Held(m) \/ loaded[m] # None})'
  BY <1>1, <1>2, <1>4 DEF Compatible, Held
<1> QED BY <1>1, <1>2, <1>5, <1>6

LEMMA UninformedSurvey ==
  ASSUME Inv, Safe, ~misled, ~misled', Merge \/ TrackNext
  PROVE  Uninformed'
<1> USE Types
<1> SUFFICES ASSUME blind' # {}
    PROVE  /\ \A s \in Requests : pc'[s] \in {"idle", "check"}
           /\ problems'
           /\ \A j \in Records : ~Swapping(j)'
           /\ Compatible({m \in Models : Held(m) \/ loaded[m] # None})'
  BY DEF Uninformed
<1>1. ASSUME blind # {}, NEW todo \in SUBSET Records, NEW ready, NEW unfit, unfit,
             Track(todo, ready, unfit)
      PROVE  /\ \A s \in Requests : pc'[s] \in {"idle", "check"}
             /\ \A j \in Records : ~Swapping(j)'
  <2>0. \A j \in Records :
          \/ job'[j] = job[j]
          \/ j \in todo \ ready /\ j \notin scan'.todo /\ job'[j] = Watcher
    BY <1>1, TrackJobs
  <2>1. /\ \A j \in Records : job'[j] = job[j] \/ job'[j] = Watcher
        /\ UNCHANGED reqVars \/ Leave(lock)
    <3>1. UNCHANGED reqVars \/ Leave(lock)
      BY <1>1 DEF Track
    <3> QED BY <2>0, <3>1
  <2>2. \A s \in Requests : pc'[s] \in {"idle", "check"}
    BY <1>1, <2>1 DEF Safe, Uninformed, reqVars, Leave
  <2>3. \A j \in Records : ~Swapping(j)'
    BY <1>1, <2>1 DEF Safe, Uninformed, Swapping, Watcher, NoJob
  <2> QED BY <2>2, <2>3
<1>2. CASE Merge
  <2> DEFINE todo == {Fresh(m) : m \in ToAdopt}
             ready == {Fresh(m) : m \in {k \in ToAdopt : scan.seen[k] = "loaded"}}
  <2>1. /\ blind' = {b \in blind : \E m \in Served(b) : scan.seen[m] = "down"}
        /\ problems' = \/ scan.flawed
                       \/ \E m \in Models : scan.seen[m] = "down"
                       \/ ~Compatible({m \in Models : Listed(m)})
        /\ Track(todo, ready, problems')
    BY <1>2, Zenon DEF Merge
  <2>2. blind # {} /\ problems' = TRUE
    BY <2>1 DEF Served
  <2>3. /\ \A m \in ToAdopt : m \in Models /\ Held(m) /\ Fresh(m) \in Records
        /\ \A m \in Models \ ToAdopt : loaded'[m] = IF Stays(m) THEN loaded[m] ELSE None
        /\ UNCHANGED server
    BY <1>2, MergeViews DEF Safe
  <2>4. \A m \in Models : (Held(m)' \/ loaded'[m] # None) => (Held(m) \/ loaded[m] # None)
    BY <2>3 DEF Held
  <2>5. Compatible({m \in Models : Held(m) \/ loaded[m] # None})'
    BY <2>2, <2>4 DEF Safe, Uninformed, Compatible
  <2>6. todo \in SUBSET Records
    BY <2>3
  <2> HIDE DEF todo, ready
  <2> QED BY <1>1, <2>1, <2>2, <2>5, <2>6
<1>3. CASE TrackNext
  <2> DEFINE todo == scan.todo
             ready == {i \in scan.todo : rec[i].ready}
  <2>1. /\ Track(todo, ready, problems) /\ stage = "track"
        /\ UNCHANGED <<loaded, problems, server, blind>>
    BY <1>3 DEF TrackNext, histVars, serverVars
  <2>2. blind # {} /\ problems = TRUE /\ problems' = TRUE
    BY <2>1 DEF Safe, Uninformed, Inv, TypeOK, ViewType
  <2>3. Compatible({m \in Models : Held(m) \/ loaded[m] # None})'
    BY <2>1, <2>2 DEF Safe, Uninformed, Compatible, Held
  <2>4. todo \in SUBSET Records
    OBVIOUS
  <2> HIDE DEF todo, ready
  <2> QED BY <1>1, <2>1, <2>2, <2>3, <2>4
<1> QED BY <1>2, <1>3

(* The next state, with Tracked written out. *)
LEMMA PlacingNow ==
  ASSUME loaded'[want'[lock']] = None,
         \A n \in Rivals(want'[lock']) : loaded'[n] # None => loaded'[n] \in probe'.conflicts,
         probe'.at \in probe'.conflicts \ probe'.left, probe'.left \subseteq probe'.conflicts,
         \A i \in probe'.conflicts :
           /\ ModelOf[i] \in Rivals(want'[lock'])
           /\ loaded'[ModelOf[i]] \in {i, None}
           /\ i \notin probe'.left => rec'[i].ready /\ ~rec'[i].leaving
           /\ i \notin probe'.left \cup {probe'.at} => loaded'[ModelOf[i]] = i
  PROVE  Placing'
BY DEF Placing, Tracked, Rivals

(* While a request observes, no model is chosen: what it has listed can     *)
(* only go.                                                                 *)
LEMMA PlacingStays ==
  ASSUME Inv, Placing, UNCHANGED <<lock, stage, probe>>,
         stage = "observe" => want'[lock] = want[lock],
         \A m \in Models : loaded'[m] \in {loaded[m], None},
         \A i \in Records : rec[i].ready /\ ~rec[i].leaving =>
           /\ rec'[i].ready /\ ~rec'[i].leaving
           /\ loaded[ModelOf[i]] = i => loaded'[ModelOf[i]] = i
  PROVE  Placing'
<1> SUFFICES ASSUME stage = "observe"
    PROVE  /\ loaded'[want[lock]] = None
           /\ Tracked(Rivals(want[lock]))' \subseteq probe.conflicts
           /\ probe.at \in probe.conflicts \ probe.left
           /\ probe.left \subseteq probe.conflicts
           /\ \A i \in probe.conflicts :
                /\ ModelOf[i] \in Rivals(want[lock])
                /\ loaded'[ModelOf[i]] \in {i, None}
                /\ i \notin probe.left => rec'[i].ready /\ ~rec'[i].leaving
                /\ i \notin probe.left \cup {probe.at} => loaded'[ModelOf[i]] = i
  BY DEF Placing, Rivals
<1>1. /\ loaded[want[lock]] = None
      /\ Tracked(Rivals(want[lock])) \subseteq probe.conflicts
      /\ probe.at \in probe.conflicts \ probe.left /\ probe.left \subseteq probe.conflicts
      /\ \A i \in probe.conflicts :
           /\ ModelOf[i] \in Rivals(want[lock])
           /\ loaded[ModelOf[i]] \in {i, None}
           /\ i \notin probe.left => rec[i].ready /\ ~rec[i].leaving
           /\ i \notin probe.left \cup {probe.at} => loaded[ModelOf[i]] = i
      /\ probe.conflicts \subseteq Records
      /\ want[lock] \in Models
  BY Types DEF Placing, Inv, TypeOK, LockType
<1>2. loaded'[want[lock]] = None
  BY <1>1
<1>3. Tracked(Rivals(want[lock]))' \subseteq probe.conflicts
  <2> SUFFICES ASSUME NEW n \in Rivals(want[lock]), loaded'[n] # None
      PROVE  loaded'[n] \in probe.conflicts
    BY DEF Tracked, Rivals
  <2>1. n \in Models /\ loaded'[n] = loaded[n]
    BY DEF Rivals
  <2> QED BY <1>1, <2>1 DEF Tracked
<1>4. ASSUME NEW i \in probe.conflicts
      PROVE  /\ loaded'[ModelOf[i]] \in {i, None}
             /\ i \notin probe.left => rec'[i].ready /\ ~rec'[i].leaving
             /\ i \notin probe.left \cup {probe.at} => loaded'[ModelOf[i]] = i
  BY <1>1
<1> QED BY <1>1, <1>2, <1>3, <1>4

LEMMA PlacingRequest ==
  ASSUME Inv, Safe, ~misled, NEW r \in Requests, RequestStep(r)
  PROVE  Placing'
<1> USE Types DEF viewVars, reqVars, lockVars, serverVars, boundVars, histVars
<1>0. /\ lock \in Requests \cup {Boot, None} /\ (lock = None <=> stage = "none")
      /\ stage = "observe" => lock \in Requests /\ pc[lock] = "place" /\ probe.at \in Records
  BY DEF Inv, TypeOK, LockType
<1>1. ASSUME stage' # "observe" PROVE Placing'
  BY <1>1 DEF Placing
<1>2. CASE PlaceFree(r) \/ ObserveLast(r) \/ ObserveFails(r) \/ ObserveWorking(r)
  <2>1. stage' # "observe"
    BY <1>0, <1>2 DEF PlaceFree, ObserveLast, ObserveFails, ObserveWorking, Unlock
  <2> QED BY <1>1, <2>1
<1>3. CASE PlaceKnown(r) \/ CheckRouter(r)
  <2>1. stage' # "observe"
    BY <1>0, <1>3 DEF PlaceKnown, CheckRouter
  <2> QED BY <1>1, <2>1
<1>4. CASE \/ \E m \in Models : Arrive(r, m)
           \/ Join(r) \/ YieldToEarlier(r) \/ AskLock(r) \/ Deadline(r)
           \/ Wake(r) \/ Finish(r) \/ Cancel(r)
  <2>1. CASE Cancel(r) /\ lock = r
    BY <1>1, <2>1 DEF Cancel, Unlock
  <2>2. CASE ~(Cancel(r) /\ lock = r)
    <3>1. Quiet
      BY <1>4, RequestQuiet DEF Safe
    <3>2. UNCHANGED <<lock, stage, probe>>
      BY <1>4, <2>2 DEF Arrive, Join, YieldToEarlier, AskLock, Deadline, Wake, Finish, Cancel
    <3>3. stage = "observe" /\ lock # r => want'[lock] = want[lock]
      BY <1>0, <1>4 DEF Arrive, Join, Admit, YieldToEarlier, AskLock, Deadline, Wake, Finish,
                        Cancel, Blocked, Leave
    <3>4. stage = "observe" /\ lock = r => want'[lock] = want[lock]
      BY <1>0, <1>4, <2>2 DEF Arrive, Join, YieldToEarlier, AskLock, Deadline, Wake, Finish
    <3> QED BY <3>1, <3>2, <3>3, <3>4, PlacingStays DEF Safe, Quiet
  <2> QED BY <2>1, <2>2
<1>5. CASE PlaceObserve(r)
  <2> DEFINE rivals == Tracked(Rivals(want[r]))
  <2>1. /\ pc[r] = "place" /\ lock = None /\ loaded[want[r]] = None
        /\ UNCHANGED <<loaded, rec>>
    BY <1>5 DEF PlaceObserve
  <2>2. PICK i \in rivals :
          IF Occupied(i)
            THEN UNCHANGED lockVars
            ELSE /\ lock' = r /\ stage' = "observe"
                 /\ probe' = [conflicts |-> rivals, left |-> rivals \ {i},
                              at |-> i, warm |-> FALSE]
                 /\ UNCHANGED <<reqVars, scan>>
    BY <1>5 DEF PlaceObserve, LoadedRivals
  <2>3. CASE Occupied(i)
    BY <1>0, <1>1, <2>1, <2>2, <2>3
  <2>4. CASE ~Occupied(i)
    <3>1. /\ lock' = r /\ want' = want
          /\ probe'.conflicts = rivals /\ probe'.left = rivals \ {i} /\ probe'.at = i
      BY <2>2, <2>4
    <3>2. rec[i].ready /\ ~rec[i].leaving
      BY <2>4 DEF Occupied
    <3>3. \A j \in rivals : ModelOf[j] \in Rivals(want[r]) /\ loaded[ModelOf[j]] = j
      BY DEF Tracked, Rivals
    <3>4. \A n \in Rivals(want'[lock']) : loaded'[n] # None => loaded'[n] \in probe'.conflicts
      BY <2>1, <3>1 DEF Tracked
    <3> HIDE DEF rivals
    <3>5. i \in rivals
      BY <2>2
    <3> QED BY <2>1, <3>1, <3>2, <3>3, <3>4, <3>5, PlacingNow
  <2> QED BY <2>3, <2>4
<1>6. CASE ObserveNext(r)
  <2>1. /\ lock = r /\ stage = "observe" /\ Held(ModelOf[probe.at])
        /\ rec' = Observed(probe.at) /\ loaded' = loaded
    BY <1>6 DEF ObserveNext, Observable, Held
  <2>2. PICK i \in probe.left :
          IF Occupied(i)
            THEN Blocked(r) /\ Unlock
            ELSE /\ probe' = [probe EXCEPT !.left = @ \ {i}, !.at = i,
                                           !.warm = @ \/ rec'[probe.at].recent]
                 /\ UNCHANGED <<reqVars, lock, stage, scan>>
    BY <1>6 DEF ObserveNext
  <2>3. CASE Occupied(i)
    BY <1>1, <2>2, <2>3 DEF Unlock
  <2>4. CASE ~Occupied(i)
    <3>1. /\ lock' = r /\ want' = want /\ stage' = "observe"
          /\ probe'.conflicts = probe.conflicts /\ probe'.left = probe.left \ {i}
          /\ probe'.at = i
      <4> DEFINE warm == probe.warm \/ rec'[probe.at].recent
      <4>1. probe \in [conflicts : SUBSET Records, left : SUBSET Records,
                       at : Records \cup {None}, warm : BOOLEAN]
        BY DEF Inv, TypeOK, LockType
      <4>2. /\ lock' = r /\ want' = want /\ stage' = "observe"
            /\ probe' = [probe EXCEPT !.left = @ \ {i}, !.at = i, !.warm = warm]
        BY <2>1, <2>2, <2>4
      <4> HIDE DEF warm
      <4> QED BY <4>1, <4>2
    <3>2. rec[i].ready /\ ~rec[i].leaving
      BY <2>4 DEF Occupied
    <3>3. blind = {}
      BY <1>0, <2>1 DEF Safe, Uninformed
    <3>4. loaded[ModelOf[probe.at]] # None
      BY <1>0, <2>1, <3>3 DEF Safe, Sound, HoldersTracked
    <3>5. /\ loaded[want[r]] = None
          /\ Tracked(Rivals(want[r])) \subseteq probe.conflicts
          /\ probe.at \in probe.conflicts \ probe.left
          /\ probe.left \subseteq probe.conflicts
          /\ \A j \in probe.conflicts :
               /\ ModelOf[j] \in Rivals(want[r])
               /\ loaded[ModelOf[j]] \in {j, None}
               /\ j \notin probe.left => rec[j].ready /\ ~rec[j].leaving
               /\ j \notin probe.left \cup {probe.at} => loaded[ModelOf[j]] = j
          /\ probe.conflicts \subseteq Records
      BY <2>1 DEF Safe, Placing, Inv, TypeOK, LockType
    <3>6. \A j \in Records : SameFlags(rec'[j], rec[j])
      BY <1>0, <2>1, FlagsKept
    <3>8. i \in probe.conflicts
      BY <3>5
    <3>9. \A j \in probe.conflicts :
            /\ loaded'[ModelOf[j]] \in {j, None}
            /\ j \notin probe'.left => rec'[j].ready /\ ~rec'[j].leaving
            /\ j \notin probe'.left \cup {probe'.at} => loaded'[ModelOf[j]] = j
      BY <2>1, <3>1, <3>2, <3>4, <3>5, <3>6, <3>8 DEF SameFlags
    <3>10. \A n \in Rivals(want'[lock']) : loaded'[n] # None => loaded'[n] \in probe'.conflicts
      BY <2>1, <3>1, <3>5 DEF Tracked
    <3> QED BY <2>1, <3>1, <3>5, <3>8, <3>9, <3>10, PlacingNow
  <2> QED BY <2>3, <2>4
<1> QED BY <1>2, <1>3, <1>4, <1>5, <1>6 DEF RequestStep

LEMMA PlacingTask ==
  ASSUME Inv, Safe, NEW i \in Records, TaskStep(i)
  PROVE  Placing'
<1> USE Types DEF reqVars, lockVars
<1>1. /\ UNCHANGED <<reqVars, lockVars>>
      /\ \A m \in Models : loaded'[m] \in {loaded[m], None}
      /\ \A j \in Records : TaskChange(i, j)
  BY TaskEffects DEF Safe
<1>2. ASSUME NEW j \in Records, rec[j].ready, ~rec[j].leaving
      PROVE  /\ rec'[j].ready /\ ~rec'[j].leaving
             /\ loaded[ModelOf[j]] = j => loaded'[ModelOf[j]] = j
  <2>1. SameFlags(rec'[j], rec[j]) /\ (loaded[ModelOf[j]] = j => loaded'[ModelOf[j]] = j)
    BY <1>1, <1>2 DEF TaskChange
  <2> QED BY <1>2, <2>1 DEF SameFlags
<1> QED BY <1>1, <1>2, PlacingStays DEF Safe

(* A request that waits or is admitted is counted. *)
LEMMA Counted ==
  ASSUME Inv, NEW r \in Requests
  PROVE  /\ pc[r] = "wait" => rec[on[r]].queued > 0
         /\ pc[r] = "active" => rec[on[r]].active > 0
         /\ pc[r] \in {"wait", "active"} => on[r] \in Records /\ ~rec[on[r]].leaving
                                            /\ ModelOf[on[r]] = want[r]
<1>1. ASSUME NEW state, pc[r] = state PROVE Cardinality(OnRecord(on[r], state)) > 0
  <2>1. OnRecord(on[r], state) \in SUBSET Requests /\ r \in OnRecord(on[r], state)
    BY <1>1 DEF OnRecord
  <2> QED BY <2>1, Cardinalities
<1>2. pc[r] \in {"wait", "active"} => on[r] \in Records
  BY Types
<1> QED BY <1>1, <1>2, CountedInUse, Types DEF Inv, CountsMatch

(* Two requests that wait on one record are both counted. *)
LEMMA BothCounted ==
  ASSUME Inv, NEW r \in Requests, NEW s \in Requests \ {r},
         pc[r] = "wait", pc[s] = "wait", on[r] = on[s]
  PROVE  rec[on[r]].queued > 1
<1> DEFINE S == OnRecord(on[r], "wait")
<1>1. S \in SUBSET Requests /\ r \in S /\ s \in S \ {r} /\ S \ {r} \in SUBSET Requests
  BY DEF OnRecord
<1> HIDE DEF S
<1>2. Cardinality(S) \in Nat /\ Cardinality(S \ {r}) = Cardinality(S) - 1
      /\ Cardinality(S \ {r}) > 0
  BY <1>1, Cardinalities
<1>3. on[r] \in Records /\ rec[on[r]].queued = Cardinality(S)
  BY Types DEF Inv, CountsMatch, S
<1> QED BY <1>2, <1>3

(* A request stays on its record while the record keeps its flags and place. *)
LEMMA AttachedStays ==
  ASSUME Inv, Attached, NEW r \in Requests,
         pc'[r] = pc[r], want'[r] = want[r], on'[r] = on[r],
         pc[r] \in {"wait", "active"} =>
           /\ SameFlags(rec'[on[r]], rec[on[r]])
           /\ loaded[want[r]] = on[r] => loaded'[want[r]] = on[r]
  PROVE  /\ pc'[r] \in {"wait", "active"} /\ ~rec'[on'[r]].error => loaded'[want'[r]] = on'[r]
         /\ pc'[r] = "active" => rec'[on'[r]].ready /\ ~rec'[on'[r]].error
BY DEF Attached, SameFlags

LEMMA AttachedTask ==
  ASSUME Inv, Safe, NEW i \in Records, TaskStep(i)
  PROVE  Attached'
<1> USE Types
<1> SUFFICES ASSUME NEW r \in Requests
    PROVE  /\ pc'[r] \in {"wait", "active"} /\ ~rec'[on'[r]].error =>
                loaded'[want'[r]] = on'[r]
           /\ pc'[r] = "active" => rec'[on'[r]].ready /\ ~rec'[on'[r]].error
  BY DEF Attached
<1>1. /\ UNCHANGED reqVars
      /\ \A j \in Records : TaskChange(i, j)
  BY TaskEffects DEF Safe
<1>2. pc'[r] = pc[r] /\ want'[r] = want[r] /\ on'[r] = on[r]
  BY <1>1 DEF reqVars
<1>3. CASE pc[r] \notin {"wait", "active"}
  BY <1>2, <1>3
<1>4. CASE pc[r] \in {"wait", "active"}
  <2> DEFINE j == on[r]
  <2>1. j \in Records /\ ~rec[j].leaving /\ ModelOf[j] = want[r]
    BY <1>4, Counted
  <2>2. CASE SameFlags(rec'[j], rec[j]) /\ (loaded[ModelOf[j]] = j => loaded'[ModelOf[j]] = j)
    BY <1>2, <2>1, <2>2, AttachedStays DEF Safe
  <2>3. CASE /\ j = i /\ ~rec[i].ready
             /\ rec[i].queued > 0 /\ ~rec'[i].error =>
                  ~rec[i].error /\ loaded'[ModelOf[i]] = loaded[ModelOf[i]]
    <3>1. pc[r] = "wait"
      BY <1>4, <2>3 DEF Safe, Attached
    <3>2. rec[i].queued > 0
      BY <2>3, <3>1, Counted
    <3> QED BY <1>2, <2>1, <2>3, <3>1, <3>2 DEF Safe, Attached
  <2> QED BY <1>1, <2>1, <2>2, <2>3 DEF TaskChange
<1> QED BY <1>3, <1>4

LEMMA AttachedSurvey ==
  ASSUME Inv, Safe, ~misled, ~misled', Merge \/ TrackNext
  PROVE  Attached'
<1> USE Types
<1> SUFFICES ASSUME NEW r \in Requests
    PROVE  /\ pc'[r] \in {"wait", "active"} /\ ~rec'[on'[r]].error =>
                loaded'[want'[r]] = on'[r]
           /\ pc'[r] = "active" => rec'[on'[r]].ready /\ ~rec'[on'[r]].error
  BY DEF Attached
<1>1. ASSUME NEW todo, NEW ready, NEW unfit, stage \in {"survey", "track"},
             Track(todo, ready, unfit)
      PROVE  \/ pc'[r] \notin {"wait", "active"}
             \/ pc'[r] = pc[r] /\ want'[r] = want[r] /\ on'[r] = on[r]
  <2>1. lock # Boot => lock \in Requests
    BY <1>1 DEF Inv, TypeOK, LockType
  <2>2. \/ UNCHANGED reqVars
        \/ lock # Boot /\ Leave(lock)
        \/ lock # Boot /\ Enter(lock) /\ UNCHANGED <<want, on>>
    BY <1>1 DEF Track
  <2> QED BY <2>1, <2>2 DEF Leave, Enter, reqVars
<1>2. \/ pc'[r] \notin {"wait", "active"}
      \/ pc'[r] = pc[r] /\ want'[r] = want[r] /\ on'[r] = on[r]
  <2>1. CASE Merge
    <3> DEFINE todo == {Fresh(m) : m \in ToAdopt}
               ready == {Fresh(m) : m \in {k \in ToAdopt : scan.seen[k] = "loaded"}}
    <3>1. Track(todo, ready, problems') /\ stage = "survey"
      BY <2>1, Zenon DEF Merge
    <3> HIDE DEF todo, ready
    <3> QED BY <1>1, <3>1
  <2>2. CASE TrackNext
    <3> DEFINE ready == {i \in scan.todo : rec[i].ready}
    <3>1. Track(scan.todo, ready, problems) /\ stage = "track"
      BY <2>2 DEF TrackNext
    <3> HIDE DEF ready
    <3> QED BY <1>1, <3>1
  <2> QED BY <2>1, <2>2
<1>3. ASSUME pc[r] \in {"wait", "active"}
      PROVE  /\ SameFlags(rec'[on[r]], rec[on[r]])
             /\ loaded[want[r]] = on[r] => loaded'[want[r]] = on[r]
  <2> DEFINE j == on[r]
  <2>0. /\ j \in Records /\ ModelOf[j] = want[r]
        /\ pc[r] = "wait" => rec[j].queued > 0
        /\ pc[r] = "active" => rec[j].active > 0 /\ ~rec[j].error
    BY <1>3, Counted DEF Safe, Attached
  <2>1. CASE Merge
    <3>1. /\ \A m \in ToAdopt : j # Fresh(m)
          /\ loaded[want[r]] # None /\ loaded'[want[r]] # loaded[want[r]] =>
               /\ rec[loaded[want[r]]].queued <= 0
               /\ rec[loaded[want[r]]].error \/ rec[loaded[want[r]]].active <= 0
          /\ \/ ModelOf[j] \in ToAdopt /\ j = Fresh(ModelOf[j])
             \/ rec'[j] = rec[j]
             \/ loaded[ModelOf[j]] = j /\ loaded'[ModelOf[j]] # j
      BY <1>3, <2>0, <2>1, MergeViews DEF Safe
    <3>2. loaded[want[r]] = j => loaded'[want[r]] = j
      <4>1. rec[j] \in LoadedModel
        BY <2>0
      <4> QED BY <1>3, <2>0, <3>1, <4>1 DEF LoadedModel
    <3> QED BY <2>0, <3>1, <3>2 DEF SameFlags
  <2>2. CASE TrackNext
    <3>1. /\ loaded' = loaded /\ scan.at \in Records
          /\ rec' = rec \/ rec' = [rec EXCEPT ![scan.at].moved = FALSE]
      BY <2>2 DEF TrackNext, Inv, TypeOK, LockType
    <3>2. CASE rec' = rec
      BY <3>1, <3>2 DEF SameFlags
    <3> QED BY <2>0, <3>1, <3>2, FlagsKept
  <2> QED BY <2>1, <2>2
<1> QED BY <1>2, <1>3, AttachedStays DEF Safe

(* A request's step moves no other request. *)
LEMMA OthersStay ==
  ASSUME Inv, NEW r \in Requests, RequestStep(r)
  PROVE  \A s \in Requests \ {r} : pc'[s] = pc[s] /\ want'[s] = want[s] /\ on'[s] = on[s]
<1> USE Types DEF viewVars, reqVars, lockVars, serverVars, boundVars, histVars
<1>1. CASE UNCHANGED reqVars \/ Blocked(r) \/ LookAgain(r)
  BY <1>1 DEF Blocked, LookAgain, Leave
<1>2. ASSUME NEW conflicts, NEW records, Decide(r, conflicts, records)
      PROVE  \A s \in Requests \ {r} : pc'[s] = pc[s] /\ want'[s] = want[s] /\ on'[s] = on[s]
  BY <1>1, <1>2 DEF Decide
<1>3. CASE Leave(r) \/ (Enter(r) /\ UNCHANGED <<want, on>>)
  BY <1>3 DEF Leave, Enter
<1>4. CASE \E m \in Models : Arrive(r, m)
  BY <1>4 DEF Arrive, Enter
<1>5. CASE Join(r)
  BY <1>3, <1>5 DEF Join, Admit
<1>6. CASE AskLock(r) \/ Deadline(r)
  BY <1>6 DEF AskLock, Deadline
<1>7. CASE Wake(r) \/ Finish(r) \/ Cancel(r)
  BY <1>3, <1>7 DEF Wake, Finish, Cancel
<1>8. CASE CheckRouter(r)
  BY <1>3, <1>8 DEF CheckRouter
<1>9. CASE \/ YieldToEarlier(r) \/ PlaceKnown(r) \/ PlaceObserve(r)
           \/ ObserveFails(r) \/ ObserveWorking(r) \/ ObserveNext(r)
  BY <1>1, <1>9 DEF YieldToEarlier, PlaceKnown, PlaceObserve, ObserveFails, ObserveWorking,
                    ObserveNext
<1>10. CASE PlaceFree(r) \/ ObserveLast(r)
  BY <1>1, <1>2, <1>10 DEF PlaceFree, ObserveLast
<1> QED BY <1>4, <1>5, <1>6, <1>7, <1>8, <1>9, <1>10 DEF RequestStep

LEMMA AttachedRequest ==
  ASSUME Inv, Safe, ~misled, NEW r \in Requests, RequestStep(r)
  PROVE  Attached'
<1> USE Types DEF viewVars, reqVars, lockVars, serverVars, boundVars, histVars
<1>0. \A s \in Requests \ {r} : pc'[s] = pc[s] /\ want'[s] = want[s] /\ on'[s] = on[s]
  BY OthersStay
<1>1. ASSUME \A s \in Requests \ {r} : pc[s] \in {"wait", "active"} =>
               /\ SameFlags(rec'[on[s]], rec[on[s]])
               /\ loaded[want[s]] = on[s] => loaded'[want[s]] = on[s],
             /\ pc'[r] \in {"wait", "active"} /\ ~rec'[on'[r]].error =>
                  loaded'[want'[r]] = on'[r]
             /\ pc'[r] = "active" => rec'[on'[r]].ready /\ ~rec'[on'[r]].error
      PROVE  Attached'
  BY <1>0, <1>1, AttachedStays DEF Safe, Attached
<1>2. CASE PlaceFree(r) \/ ObserveLast(r)
  <2>1. PICK conflicts, records :
          /\ loaded[want[r]] = None /\ want[r] \in Models
          /\ \A i \in Records : records[i] \in LoadedModel /\ SameFlags(records[i], rec[i])
          /\ \/ Decide(r, conflicts, records)
             \/ Blocked(r) /\ rec' = records /\ UNCHANGED loaded
    <3>1. CASE PlaceFree(r)
      <4>1. CanDecide(r, {}) /\ Decide(r, {}, rec)
        BY <3>1, FreeDecision
      <4> QED BY <4>1 DEF CanDecide, SameFlags
    <3>2. CASE ObserveLast(r)
      <4>1. CanDecide(r, probe.conflicts) /\ probe.at \in Records
        BY <3>2, ObservedDecision, ObserverType DEF ObserveLast, Inv
      <4>2. \A i \in Records : /\ Observed(probe.at)[i] \in LoadedModel
                               /\ SameFlags(Observed(probe.at)[i], rec[i])
        <5>1. Observed(probe.at) \in [Records -> LoadedModel]
          BY <4>1, CounterTypes DEF Inv, TypeOK
        <5> QED BY <4>1, <5>1, FlagsKept
      <4> QED BY <3>2, <4>1, <4>2 DEF CanDecide, ObserveLast
    <3> QED BY <1>2, <3>1, <3>2
  <2>2. CASE UNCHANGED loaded /\ rec' = records /\ (Blocked(r) \/ LookAgain(r))
    <3>1. pc'[r] \in {"idle", "try"}
      BY <2>2 DEF Blocked, LookAgain, Leave
    <3>2. \A s \in Requests : pc[s] \in {"wait", "active"} => on[s] \in Records
      OBVIOUS
    <3> QED BY <1>1, <2>1, <2>2, <3>1, <3>2
  <2>3. CASE Decide(r, conflicts, records) /\ ~ \E i \in conflicts : JustUsed(i)
    <3> DEFINE m == want[r]
               new == Fresh(m)
    <3>1. /\ Free(m) # {} /\ m \in Models
          /\ rec' = [i \in Records |->
                       IF i = new THEN Placed
                       ELSE [records[i] EXCEPT !.leaving = @ \/ i \in conflicts]]
          /\ loaded' = [loaded EXCEPT ![m] = new]
          /\ on' = [on EXCEPT ![r] = new] /\ pc' = [pc EXCEPT ![r] = "wait"] /\ want' = want
      BY <2>1, <2>3 DEF Decide
    <3>2. /\ new \in Records /\ \A s \in Requests : on[s] # new
      BY <3>1, FreshUnused
    <3> HIDE DEF new
    <3>3. loaded'[m] = new /\ \A n \in Models \ {m} : loaded'[n] = loaded[n]
      BY <3>1
    <3>4. ASSUME NEW s \in Requests \ {r}, pc[s] \in {"wait", "active"}
          PROVE  /\ loaded[want[s]] = on[s] => loaded'[want[s]] = on[s]
                 /\ rec'[on[s]].error = rec[on[s]].error /\ rec'[on[s]].ready = rec[on[s]].ready
      <4>1. on[s] \in Records \ {new} /\ want[s] \in Models
        BY <3>2, <3>4
      <4>2. rec'[on[s]] = [records[on[s]] EXCEPT !.leaving = @ \/ on[s] \in conflicts]
        BY <3>1, <4>1
      <4>3. records[on[s]] \in LoadedModel /\ SameFlags(records[on[s]], rec[on[s]])
        BY <2>1, <4>1
      <4>4. rec'[on[s]].error = rec[on[s]].error /\ rec'[on[s]].ready = rec[on[s]].ready
        BY <4>2, <4>3 DEF SameFlags, LoadedModel
      <4> QED BY <2>1, <3>3, <4>1, <4>4
    <3>5. on'[r] = new /\ pc'[r] = "wait" /\ want'[r] = m
      BY <3>1
    <3> QED BY <1>0, <3>3, <3>4, <3>5 DEF Safe, Attached
  <2> QED BY <2>1, <2>2, <2>3 DEF Decide
<1>3. CASE \/ \E m \in Models : Arrive(r, m)
           \/ CheckRouter(r) \/ Join(r) \/ YieldToEarlier(r) \/ AskLock(r) \/ Deadline(r)
           \/ PlaceKnown(r) \/ PlaceObserve(r) \/ ObserveFails(r) \/ ObserveWorking(r)
           \/ ObserveNext(r) \/ Wake(r) \/ Finish(r) \/ Cancel(r)
  <2>1. Quiet
    BY <1>3, RequestQuiet DEF Safe
  <2>2. ASSUME NEW s \in Requests \ {r}, pc[s] \in {"wait", "active"}
        PROVE  SameFlags(rec'[on[s]], rec[on[s]])
    <3>1. CASE \A j \in Records : SameFlags(rec'[j], rec[j])
      BY <2>2, <3>1
    <3>2. CASE pc[r] = "wait" /\ rec' = [rec EXCEPT ![on[r]] = Unqueued(on[r])]
      <4>1. CASE on[s] # on[r]
        BY <2>2, <3>2, <4>1 DEF SameFlags
      <4>2. CASE on[s] = on[r]
        <5> DEFINE i == on[r]
        <5>1. i \in Records /\ rec'[i] = Unqueued(i)
          BY <3>2
        <5>2. pc[s] = "wait" => Unqueued(i).error = rec[i].error
          BY <3>2, <4>2, <5>1, BothCounted, UnqueuedFlags DEF Safe, Sound
        <5>3. pc[s] = "active" => Unqueued(i).error = rec[i].error
          BY <4>2, <5>1, UnqueuedFlags DEF Safe, Sound, Attached
        <5> QED BY <2>2, <4>2, <5>1, <5>2, <5>3, UnqueuedFlags DEF Safe, Sound, SameFlags
      <4> QED BY <4>1, <4>2
    <3> QED BY <1>3, <3>1, <3>2, RequestQuiet DEF Safe
  <2>3. CASE Join(r)
    <3>1. /\ loaded[want[r]] \in Records
          /\ \/ pc'[r] = "active" /\ on'[r] = loaded[want[r]]
                /\ rec[on'[r]].ready /\ ~rec[on'[r]].error
             \/ pc'[r] = "idle"
             \/ pc'[r] = "wait" /\ on'[r] = loaded[want[r]]
          /\ pc'[r] # "idle" => want'[r] = want[r]
      BY <2>3 DEF Join, Admit, Leave
    <3>2. \A j \in Records : rec'[j].ready = rec[j].ready
                             /\ (~rec[j].error => ~rec'[j].error)
      BY <2>1 DEF Quiet
    <3> QED BY <1>1, <2>1, <2>2, <3>1, <3>2 DEF Quiet
  <2>4. CASE Wake(r)
    <3>1. /\ on[r] \in Records /\ pc[r] = "wait" /\ rec[on[r]].ready
          /\ \/ pc'[r] = "idle"
             \/ pc'[r] = "active" /\ on'[r] = on[r] /\ want'[r] = want[r] /\ ~rec[on[r]].error
      BY <2>4 DEF Wake, Leave
    <3>2. rec'[on[r]].ready = rec[on[r]].ready /\ (~rec[on[r]].error => ~rec'[on[r]].error)
      BY <2>1, <3>1 DEF Quiet
    <3>3. ~rec[on[r]].error => loaded[want[r]] = on[r]
      BY <3>1 DEF Safe, Attached
    <3> QED BY <1>1, <2>1, <2>2, <3>1, <3>2, <3>3 DEF Quiet
  <2>5. CASE ~Join(r) /\ ~Wake(r) /\ ~Deadline(r)
    <3>1. pc'[r] \notin {"wait", "active"}
      <4>1. CASE \/ \E m \in Models : Arrive(r, m)
                 \/ CheckRouter(r) \/ AskLock(r) \/ Finish(r) \/ Cancel(r)
        BY <4>1 DEF Arrive, CheckRouter, AskLock, Finish, Cancel, Leave, Enter
      <4>2. CASE YieldToEarlier(r) \/ PlaceKnown(r) \/ PlaceObserve(r)
        BY <4>2 DEF YieldToEarlier, PlaceKnown, PlaceObserve, Blocked, LookAgain, Leave
      <4>3. CASE ObserveFails(r) \/ ObserveWorking(r) \/ ObserveNext(r)
        <5>1. pc[r] = "place"
          BY <4>3, ObserverType DEF ObserveFails, ObserveWorking, ObserveNext, Inv
        <5>2. Blocked(r) \/ UNCHANGED reqVars
          BY <4>3, Zenon DEF ObserveFails, ObserveWorking, ObserveNext
        <5> QED BY <5>1, <5>2 DEF Blocked, Leave, reqVars
      <4> QED BY <1>3, <2>5, <4>1, <4>2, <4>3
    <3> QED BY <1>1, <2>1, <2>2, <3>1 DEF Quiet
  <2>6. CASE Deadline(r)
    <3>1. pc'[r] \notin {"wait", "active"}
      BY <2>6 DEF Deadline, Tickets
    <3> QED BY <1>1, <2>1, <2>2, <3>1 DEF Quiet
  <2> QED BY <2>3, <2>4, <2>5, <2>6
<1> QED BY <1>2, <1>3 DEF RequestStep

-----------------------------------------------------------------------------
(* The invariant is inductive *)

LEMMA SafeStart == Init => SafeInv
<1> SUFFICES ASSUME Init PROVE SafeInv
  OBVIOUS
<1> USE DEF Init
<1>1. Inv
  BY InitInv
<1>2. Sound
  <2>1. JobsSound /\ VictimsSound /\ Adopting
    BY DEF JobsSound, VictimsSound, Adopting, Swapping, NoJob, NoScan, Blank
  <2>2. LeavingIsVictim
    BY DEF LeavingIsVictim, Blank
  <2>3. HoldersTracked /\ SwapExclusive
    BY DEF HoldersTracked, SwapExclusive, Rivals
  <2> QED BY <2>1, <2>2, <2>3 DEF Sound
<1>3. Uninformed
  BY DEF Uninformed, Swapping, NoJob, Compatible
<1>4. Placing /\ Attached
  BY DEF Placing, Attached
<1> QED BY <1>1, <1>2, <1>3, <1>4 DEF SafeInv, Safe

(* Once misled, the broker may stay so. *)
LEMMA MisledForGood == TypeOK /\ [Next]_vars /\ ~misled' => ~misled
<1> SUFFICES ASSUME TypeOK, [Next]_vars, ~misled' PROVE ~misled
  OBVIOUS
<1> USE DEF viewVars, reqVars, lockVars, serverVars, boundVars, histVars
<1>1. ASSUME NEW r \in Requests, RequestStep(r) PROVE misled' = misled
  BY <1>1 DEF RequestStep, Arrive, CheckRouter, Join, YieldToEarlier, AskLock, Deadline,
     PlaceKnown, PlaceFree, PlaceObserve, ObserveFails, ObserveWorking, ObserveNext,
     ObserveLast, Wake, Finish, Cancel
<1>2. ASSUME NEW i \in Records, TaskStep(i) PROVE misled' = misled
  BY <1>2 DEF TaskStep, AskUnload, AwaitUnloaded, AskLoad, AwaitLoaded, ConfirmFailed,
     RecordBaseline
<1>3. ASSUME NEW b \in Backends, SurveyRead(b) PROVE misled' = misled
  BY <1>3 DEF SurveyRead
<1>4. CASE Merge
  BY <1>4 DEF Merge
<1>5. CASE TrackNext
  BY <1>5 DEF TrackNext
<1>6. ASSUME NEW m \in Models, Expire(m) \/ ServerStep(m) PROVE misled' = misled
  BY <1>6 DEF Expire, ServerStep, ServerLoads, ServerUnloads, ServerFails, OutsideWork, Becomes
<1>7. CASE Restart
  BY <1>7 DEF Restart
<1>8. CASE UNCHANGED vars
  BY <1>8 DEF vars
<1> QED BY <1>1, <1>2, <1>3, <1>4, <1>5, <1>6, <1>7, <1>8 DEF Next

LEMMA SafeRequest ==
  ASSUME Inv, Safe, ~misled, NEW r \in Requests, RequestStep(r)
  PROVE  Safe'
<1>1. CASE PlaceFree(r) \/ ObserveLast(r)
  BY <1>1, PlaceSound, UninformedRequest, PlacingRequest, AttachedRequest DEF Safe
<1>2. CASE ~(PlaceFree(r) \/ ObserveLast(r))
  <2>1. Quiet
    BY <1>2, RequestQuiet DEF RequestStep, Safe
  <2> QED BY <2>1, QuietSound, UninformedRequest, PlacingRequest, AttachedRequest DEF Safe
<1> QED BY <1>1, <1>2

LEMMA SafeTask ==
  ASSUME Inv, Safe, ~misled, NEW i \in Records, TaskStep(i)
  PROVE  Safe'
BY TaskSound, UninformedTask, PlacingTask, AttachedTask DEF Safe

LEMMA SafeSurvey ==
  ASSUME Inv, Safe, ~misled, ~misled', Merge \/ TrackNext
  PROVE  Safe'
<1>1. Sound'
  BY MergeSound, TrackNextSound DEF Safe
<1>2. Placing'
  <2>1. Merge => stage' \in {"track", "none"}
    BY DEF Merge, Track, Unlock
  <2>2. TrackNext => stage' \in {"track", "none"}
    BY DEF TrackNext, Track, Unlock
  <2> QED BY <2>1, <2>2 DEF Placing
<1> QED BY <1>1, <1>2, UninformedSurvey, AttachedSurvey DEF Safe

LEMMA SafeOther ==
  ASSUME Inv, Safe, ~misled,
         \/ \E b \in Backends : SurveyRead(b)
         \/ \E m \in Models : Expire(m) \/ ServerStep(m)
         \/ UNCHANGED vars
  PROVE  Safe'
<1> USE Types
<1>1. /\ Quiet /\ UNCHANGED <<problems, reqVars, lock, stage, probe>>
      /\ \A i \in Records : SameFlags(rec'[i], rec[i])
  <2>1. CASE UNCHANGED vars
    BY <2>1 DEF vars, viewVars, reqVars, lockVars, serverVars, histVars, Quiet, Held, SameFlags
  <2> QED BY <2>1, OtherQuiet
<1>2. Sound'
  BY <1>1, QuietSound DEF Safe
<1>3. Uninformed'
  BY <1>1 DEF Safe, Uninformed, Quiet, reqVars, Swapping, Compatible
<1>4. Placing'
  BY <1>1, PlacingStays DEF Safe, Quiet, reqVars, SameFlags
<1>5. Attached'
  <2>1. \A r \in Requests : pc[r] \in {"wait", "active"} => on[r] \in Records
    OBVIOUS
  <2> QED BY <1>1, <2>1 DEF Safe, Attached, Quiet, reqVars, SameFlags
<1> QED BY <1>2, <1>3, <1>4, <1>5 DEF Safe

LEMMA SafeStep == SafeInv /\ [Next]_vars => SafeInv'
<1> SUFFICES ASSUME SafeInv, [Next]_vars PROVE SafeInv'
  OBVIOUS
<1>1. Inv /\ Inv'
  BY StepInv DEF SafeInv
<1>2. ASSUME ~misled' PROVE Safe'
  <2>1. ~misled /\ Safe
    BY <1>1, <1>2, MisledForGood DEF SafeInv, Inv
  <2> QED BY <1>1, <1>2, <2>1, SafeRequest, SafeTask, SafeSurvey, SafeOther, RestartSound
          DEF Next
<1> QED BY <1>1, <1>2 DEF SafeInv

(* The records, the tasks and the servers agree in every state the broker   *)
(* can reach, as long as no survey has misled it.                           *)
THEOREM AlwaysSafe == Spec => []SafeInv
BY SafeStart, SafeStep, PTL DEF Spec

-----------------------------------------------------------------------------
(* What follows from it *)

(* Conflicting models are never both tracked, but for a model and those its *)
(* swap has still to unload.                                                *)
THEOREM SwapsExclude == Spec => []SwapExclusive
<1>1. SafeInv => SwapExclusive
  BY DEF SafeInv, Safe, Sound, SwapExclusive
<1> QED BY <1>1, AlwaysSafe, PTL

(* A model is leaving only while a swap is there that has to unload it,     *)
(* also when one of several unloads of a swap fails.                        *)
THEOREM LeavingIsDriven == Spec => []LeavingIsVictim
<1>1. SafeInv => LeavingIsVictim
  BY DEF SafeInv, Safe, Sound, LeavingIsVictim
<1> QED BY <1>1, AlwaysSafe, PTL

(* No failed load, failed unload, survey or restart makes the broker forget *)
(* a model that a server it has read still holds.                           *)
THEOREM HoldersKnown == Spec => []HoldersTracked
<1>1. SafeInv => HoldersTracked
  BY DEF SafeInv, Safe, Sound, HoldersTracked
<1> QED BY <1>1, AlwaysSafe, PTL

(* Models that claim the same resource are never on the servers together.   *)
THEOREM ResourcesExclusive == Spec => []ResourceExclusive
<1>1. SafeInv => ResourceExclusive
  BY HeldExclusive DEF SafeInv, Safe, ResourceExclusive
<1> QED BY <1>1, AlwaysSafe, PTL

(* The task that ends the wait for a load is running while any request      *)
(* waits for a load the broker has started.                                 *)
THEOREM WaitersAreDriven == Spec => []WaitersDriven
<1>1. SafeInv => WaitersDriven
  BY Types DEF SafeInv, Safe, Sound, JobsSound, WaitersDriven, Driven
<1> QED BY <1>1, AlwaysSafe, PTL

(* What place() decides on is what is in the way when it decides, for all   *)
(* that joined, failed or was unloaded while it awaited the observations.   *)
THEOREM DecisionsCurrent == Spec => DecisionCurrent
<1>1. ASSUME Inv, ~misled => Safe, [Next]_vars, NEW r \in Requests,
             pc[r] = "place", pc'[r] = "wait", ~misled
      PROVE  /\ job'[on'[r]].victims = Tracked(Rivals(want[r]))
             /\ loaded[want[r]] = None
  <2> USE Types DEF viewVars, reqVars, lockVars, serverVars, boundVars, histVars
  <2>1. ASSUME NEW conflicts, NEW records, CanDecide(r, conflicts),
               Decide(r, conflicts, records)
        PROVE  /\ job'[on'[r]].victims = Tracked(Rivals(want[r]))
               /\ loaded[want[r]] = None
    <3> DEFINE new == Fresh(want[r])
    <3>1. /\ loaded[want[r]] = None /\ want[r] \in Models
          /\ conflicts = Tracked(Rivals(want[r]))
      BY <2>1 DEF CanDecide
    <3>2. ~ \E i \in conflicts : JustUsed(i)
      BY <1>1, <2>1 DEF Decide, LookAgain
    <3>3. /\ Free(want[r]) # {} /\ on' = [on EXCEPT ![r] = new]
          /\ job' = [job EXCEPT ![new] =
                       [at |-> IF conflicts = {} THEN "load" ELSE "unload",
                        victims |-> conflicts, victim |-> None]]
      BY <2>1, <3>2 DEF Decide
    <3>4. new \in Records
      BY <3>1, <3>3, FreshUnused
    <3> HIDE DEF new
    <3>5. on'[r] = new
      BY <1>1, <3>3
    <3>6. job'[new].victims = conflicts
      BY <1>1, <3>3, <3>4
    <3> QED BY <3>1, <3>5, <3>6
  <2>2. ASSUME NEW s \in Requests, RequestStep(s)
        PROVE  PlaceFree(r) \/ ObserveLast(r)
    <3>1. s = r
      BY <1>1, <2>2, OthersStay
    <3>2. PlaceFree(r) \/ ObserveLast(r) \/ PlaceKnown(r) \/ PlaceObserve(r)
          \/ ObserveFails(r) \/ ObserveWorking(r) \/ ObserveNext(r) \/ Cancel(r) \/ Deadline(r)
      BY <1>1, <2>2, <3>1 DEF RequestStep, Arrive, CheckRouter, Join, YieldToEarlier, AskLock,
                              Wake, Finish
    <3> QED BY <1>1, <3>2 DEF PlaceKnown, PlaceObserve, ObserveFails, ObserveWorking,
                              ObserveNext, Cancel, Deadline, Blocked, LookAgain, Leave
  <2>3. CASE PlaceFree(r)
    BY <1>1, <2>1, <2>3, FreeDecision
  <2>4. CASE ObserveLast(r)
    <3>1. CanDecide(r, probe.conflicts)
      BY <1>1, <2>4, ObservedDecision
    <3>2. Decide(r, probe.conflicts, Observed(probe.at))
      BY <1>1, <2>4 DEF ObserveLast, Blocked, Leave
    <3> QED BY <2>1, <3>1, <3>2
  <2>5. ASSUME NEW i \in Records, TaskStep(i) PROVE FALSE
    BY <1>1, <2>5, TaskEffects DEF Safe
  <2>6. CASE Merge \/ TrackNext
    <3>1. \A q \in Requests : \/ pc'[q] = pc[q] /\ on'[q] = on[q]
                              \/ {pc[q], pc'[q]} \cap {"wait", "active"} = {}
      BY <2>6, TrackCounts DEF Merge, TrackNext
    <3> QED BY <1>1, <3>1
  <2>7. ASSUME \/ \E b \in Backends : SurveyRead(b)
               \/ \E m \in Models : Expire(m) \/ ServerStep(m)
        PROVE  FALSE
    BY <1>1, <2>7, OtherQuiet
  <2>8. ~Restart /\ ~UNCHANGED vars
    BY <1>1 DEF Restart, vars
  <2> QED BY <1>1, <2>2, <2>3, <2>4, <2>5, <2>6, <2>7, <2>8 DEF Next
<1>2. SafeInv /\ [Next]_vars =>
        [\A r \in Requests :
           pc[r] = "place" /\ pc'[r] = "wait" /\ ~misled =>
             /\ job'[on'[r]].victims = Tracked(Rivals(want[r]))
             /\ loaded[want[r]] = None]_vars
  BY <1>1 DEF SafeInv
<1> QED BY <1>2, AlwaysSafe, PTL DEF Spec, DecisionCurrent

(* A load is asked for only when nothing in its way is on a server.         *)
THEOREM LoadsFollowUnloads == Spec => LoadAfterUnload
<1>1. ASSUME Inv, ~misled => Safe, [Next]_vars, NEW m \in Models,
             ~Held(m), server'[m] = "loading", ~misled, NEW n \in Rivals(m)
      PROVE  ~Held(n)
  <2> USE Types DEF viewVars, reqVars, lockVars, serverVars, boundVars, histVars
  <2>0. server[m] # "loading" /\ n \in Models
    BY <1>1 DEF Held, Rivals
  <2>1. PICK i \in Records : AskLoad(i) /\ ModelOf[i] = m
    <3>1. ASSUME NEW r \in Requests, RequestStep(r) PROVE FALSE
      <4>1. server' = server
        BY <3>1 DEF RequestStep, Arrive, CheckRouter, Join, YieldToEarlier, AskLock, Deadline,
           PlaceKnown, PlaceFree, PlaceObserve, ObserveFails, ObserveWorking, ObserveNext,
           ObserveLast, Wake, Finish, Cancel
      <4> QED BY <1>1, <2>0, <4>1
    <3>2. ASSUME NEW i \in Records, TaskStep(i) PROVE AskLoad(i) /\ ModelOf[i] = m
      <4>1. CASE AskUnload(i)
        <5>1. PICK v \in job[i].victims :
                \/ server' = server
                \/ server' = [server EXCEPT ![ModelOf[v]] = "unloading"]
                \/ server' = [server EXCEPT ![ModelOf[v]] = IF Held(ModelOf[v])
                                                          THEN "unloading" ELSE @]
          BY <4>1, Zenon DEF AskUnload
        <5>2. server'[m] \in {server[m], "unloading"}
          BY <1>1, <5>1
        <5> QED BY <1>1, <2>0, <5>2
      <4>2. CASE AwaitUnloaded(i) \/ AwaitLoaded(i) \/ ConfirmFailed(i) \/ RecordBaseline(i)
        BY <1>1, <2>0, <4>2 DEF AwaitUnloaded, AwaitLoaded, ConfirmFailed, RecordBaseline
      <4>3. CASE AskLoad(i)
        <5>1. \/ server' = server
              \/ server' = [server EXCEPT ![ModelOf[i]] = IF Held(ModelOf[i]) THEN @ ELSE "loading"]
          BY <4>3, Zenon DEF AskLoad
        <5> QED BY <1>1, <2>0, <4>3, <5>1
      <4> QED BY <3>2, <4>1, <4>2, <4>3 DEF TaskStep
    <3>3. CASE Merge \/ TrackNext \/ Restart \/ UNCHANGED vars
      BY <1>1, <2>0, <3>3 DEF Merge, TrackNext, Restart, vars
    <3>4. ASSUME NEW b \in Backends, SurveyRead(b) PROVE FALSE
      BY <1>1, <2>0, <3>4 DEF SurveyRead
    <3>5. ASSUME NEW k \in Models, Expire(k) \/ ServerStep(k) PROVE FALSE
      BY <1>1, <2>0, <3>5 DEF Expire, ServerStep, ServerLoads, ServerUnloads, ServerFails,
                              OutsideWork, Becomes
    <3> QED BY <1>1, <3>1, <3>2, <3>3, <3>4, <3>5 DEF Next
  <2>2. job[i].at = "load" /\ loaded[m] = i /\ ~rec[i].ready /\ job[i].victims = {}
    BY <1>1, <2>1 DEF AskLoad, Safe, Sound, JobsSound
  <2>3. blind = {}
    BY <1>1, <2>2 DEF Safe, Uninformed, Swapping
  <2>4. ASSUME loaded[n] # None PROVE FALSE
    <3>1. \/ \E w \in job[loaded[m]].victims : ModelOf[w] = n
          \/ \E w \in job[loaded[n]].victims : ModelOf[w] = m
      BY <1>1, <2>0, <2>2, <2>4 DEF Safe, Sound, SwapExclusive, Victims
    <3> QED BY <1>1, <2>0, <2>2, <2>4, <3>1 DEF Safe, Sound, VictimsSound
  <2> QED BY <1>1, <2>0, <2>3, <2>4 DEF Safe, Sound, HoldersTracked
<1>2. SafeInv /\ [Next]_vars =>
        [\A m \in Models : ~Held(m) /\ server'[m] = "loading" /\ ~misled =>
           \A n \in Rivals(m) : ~Held(n)]_vars
  BY <1>1 DEF SafeInv
<1> QED BY <1>2, AlwaysSafe, PTL DEF Spec, LoadAfterUnload

-----------------------------------------------------------------------------
(* The scheduler implements Turns *)

(* The open models are compatible, and every admitted request uses one.     *)
Admitted ==
  ~misled => /\ Compatible(Open)
             /\ \A r \in Requests : Using[r] # None => Using[r] \in Open

LEMMA AlwaysAdmitted == Spec => []Admitted
<1>1. ASSUME Inv, Safe, ~misled PROVE Admitted
  <2> USE <1>1, Types
  <2>1. Compatible(Open)
    <3> SUFFICES ASSUME NEW a \in Open, NEW b \in Open, a # b, ClaimsConflict(a, b)
        PROVE  FALSE
      BY DEF Compatible
    <3>1. /\ a \in Models /\ b \in Models /\ loaded[a] # None /\ loaded[b] # None
          /\ ~rec[loaded[a]].leaving /\ ~rec[loaded[b]].leaving
      BY DEF Open
    <3>2. b \in Rivals(a)
      BY <3>1 DEF Rivals
    <3>3. \/ \E w \in job[loaded[a]].victims : ModelOf[w] = b
          \/ \E w \in job[loaded[b]].victims : ModelOf[w] = a
      BY <3>1, <3>2 DEF Safe, Sound, SwapExclusive, Victims
    <3> QED BY <3>1, <3>3 DEF Safe, Sound, VictimsSound
  <2>2. ASSUME NEW r \in Requests, Using[r] # None PROVE Using[r] \in Open
    <3>1. pc[r] = "active" /\ Using[r] = want[r] /\ want[r] \in Models
      BY <2>2 DEF Using
    <3>2. /\ on[r] \in Records /\ ~rec[on[r]].leaving
          /\ loaded[want[r]] = on[r] /\ rec[on[r]].ready /\ ~rec[on[r]].error
      BY <3>1, Counted DEF Safe, Attached
    <3> QED BY <3>1, <3>2 DEF Open
  <2> QED BY <2>1, <2>2 DEF Admitted
<1>2. SafeInv => Admitted
  BY <1>1 DEF SafeInv, Admitted
<1> QED BY <1>2, AlwaysSafe, PTL

(* Whatever changes the open models while the requests go on with theirs is *)
(* a switch.                                                                *)
LEMMA Switches ==
  ASSUME ~misled, ~misled', Admitted', Using' = Using
  PROVE  T!Next
<1>1. Open' \in SUBSET Models
  BY DEF Open
<1>2. T!Switch(Open')
  BY DEF Admitted, T!Switch, T!Compatible, T!ClaimsConflict, Compatible, ClaimsConflict
<1> QED BY <1>1, <1>2 DEF T!Next, T!Keep

(* Models are open on, or no longer, with the flags of their records. *)
LEMMA OpenStays ==
  ASSUME Inv, loaded' = loaded, \A i \in Records : SameFlags(rec'[i], rec[i])
  PROVE  Open' = Open
BY Types DEF Open, SameFlags

LEMMA TurnsRequest ==
  ASSUME Inv, Safe, ~misled, ~misled', Admitted', NEW r \in Requests, RequestStep(r)
  PROVE  T!Next
<1> USE Types DEF viewVars, reqVars, lockVars, serverVars, boundVars, histVars
<1>0. Using \in [Requests -> Models \cup {None}]
  BY DEF Using
<1>1. \A s \in Requests \ {r} : Using'[s] = Using[s]
  BY OthersStay DEF Using
<1>2. ASSUME Using'[r] = Using[r] PROVE T!Next
  <2>1. Using' = Using
    BY <1>1, <1>2 DEF Using
  <2> QED BY <2>1, Switches
<1>3. ASSUME Open' = Open, Using[r] = None, Using'[r] \in Open PROVE T!Next
  <2>1. Using' = [Using EXCEPT ![r] = Using'[r]]
    BY <1>1 DEF Using
  <2>2. T!Begin(r)
    BY <1>3, <2>1 DEF T!Begin
  <2> QED BY <2>2 DEF T!Next, T!Keep
<1>4. CASE Join(r) /\ pc'[r] = "active"
  <2> DEFINE i == loaded[want[r]]
  <2>1. /\ i \in Records /\ want[r] \in Models /\ Using[r] = None
        /\ rec[i].ready /\ ~rec[i].error /\ ~rec[i].leaving
        /\ rec' = [rec EXCEPT ![i].active = @ + 1]
        /\ loaded' = loaded /\ Using'[r] = want[r]
    BY <1>4 DEF Join, Admit, Leave, Using
  <2>2. Open' = Open
    BY <2>1, FlagsKept, OpenStays
  <2> QED BY <1>3, <2>1, <2>2 DEF Open
<1>5. CASE Wake(r) /\ pc'[r] = "active"
  <2> DEFINE i == on[r]
  <2>1. /\ i \in Records /\ pc[r] = "wait" /\ Using[r] = None
        /\ rec[i].ready /\ ~rec[i].error
        /\ rec' = [rec EXCEPT ![i].queued = @ - 1, ![i].active = @ + 1]
        /\ loaded' = loaded /\ Using'[r] = want[r]
    BY <1>5 DEF Wake, Leave, Using
  <2>2. loaded[want[r]] = i /\ ~rec[i].leaving /\ want[r] \in Models
    BY <2>1, Counted DEF Safe, Attached
  <2>3. Open' = Open
    BY <2>1, FlagsKept, OpenStays
  <2> QED BY <1>3, <2>1, <2>2, <2>3 DEF Open
<1>6. CASE Finish(r)
  <2>1. /\ pc[r] = "active" /\ Using[r] = want[r] /\ want[r] # None /\ Using'[r] = None
        /\ on[r] \in Records /\ loaded' = loaded
    BY <1>6 DEF Finish, Leave, Using
  <2>2. \A j \in Records : SameFlags(rec'[j], rec[j])
    BY <1>6, <2>1, RequestQuiet DEF Safe
  <2>3. Open' = Open
    BY <2>1, <2>2, OpenStays
  <2>4. Using' = [Using EXCEPT ![r] = None]
    BY <1>1, <2>1 DEF Using
  <2>5. T!End(r)
    BY <2>1, <2>3, <2>4 DEF T!End
  <2> QED BY <2>5 DEF T!Next, T!Keep
<1>7. CASE pc[r] # "active" /\ pc'[r] # "active"
  BY <1>2, <1>7 DEF Using
<1>8. pc[r] = "active" => Finish(r)
  BY ObserverType DEF RequestStep, Arrive, CheckRouter, Join, YieldToEarlier, AskLock,
     Deadline, Tickets, PlaceKnown, PlaceFree, PlaceObserve, ObserveFails, ObserveWorking,
     ObserveNext, ObserveLast, Wake, Cancel, Inv
<1>9. pc'[r] = "active" /\ pc[r] # "active" => Join(r) \/ Wake(r)
  <2>1. ASSUME Blocked(r) \/ LookAgain(r) \/ Leave(r) \/ Enter(r) PROVE pc'[r] # "active"
    BY <2>1 DEF Blocked, LookAgain, Leave, Enter
  <2>2. ASSUME NEW conflicts, NEW records, Decide(r, conflicts, records)
        PROVE  pc'[r] # "active"
    BY <2>1, <2>2 DEF Decide
  <2>3. CASE (\E m \in Models : Arrive(r, m)) \/ CheckRouter(r) \/ AskLock(r) \/ Deadline(r)
    BY <2>1, <2>3 DEF Arrive, CheckRouter, AskLock, Deadline
  <2>4. CASE \/ YieldToEarlier(r) \/ PlaceKnown(r) \/ PlaceObserve(r)
             \/ ObserveFails(r) \/ ObserveWorking(r) \/ ObserveNext(r)
    BY <2>1, <2>4 DEF YieldToEarlier, PlaceKnown, PlaceObserve, ObserveFails, ObserveWorking,
                      ObserveNext
  <2>5. CASE PlaceFree(r) \/ ObserveLast(r)
    BY <2>1, <2>2, <2>5 DEF PlaceFree, ObserveLast
  <2>6. CASE Finish(r) \/ Cancel(r)
    BY <2>1, <2>6 DEF Finish, Cancel
  <2> QED BY <2>3, <2>4, <2>5, <2>6 DEF RequestStep
<1> QED BY <1>4, <1>5, <1>6, <1>7, <1>8, <1>9

LEMMA TurnsOther ==
  ASSUME Inv, Safe, ~misled, ~misled', Admitted',
         \/ \E i \in Records : TaskStep(i)
         \/ \E b \in Backends : SurveyRead(b)
         \/ Merge \/ TrackNext
         \/ \E m \in Models : Expire(m) \/ ServerStep(m)
  PROVE  T!Next
<1> USE Types
<1>1. \A r \in Requests : \/ pc'[r] = pc[r] /\ want'[r] = want[r]
                          \/ pc[r] # "active" /\ pc'[r] # "active"
  <2>1. CASE \E i \in Records : TaskStep(i)
    BY <2>1, TaskEffects DEF Safe, reqVars
  <2>2. CASE \/ \E b \in Backends : SurveyRead(b)
             \/ \E m \in Models : Expire(m) \/ ServerStep(m)
    BY <2>2, OtherQuiet DEF reqVars
  <2>3. CASE Merge \/ TrackNext
    <3>1. /\ \/ UNCHANGED reqVars
             \/ lock # Boot /\ Leave(lock)
             \/ lock # Boot /\ Enter(lock) /\ UNCHANGED <<want, on>>
          /\ stage \in {"survey", "track"}
      BY <2>3 DEF Merge, TrackNext, Track
    <3>2. lock # Boot => lock \in Requests /\ pc[lock] = "check"
      BY <3>1 DEF Inv, TypeOK, LockType
    <3> QED BY <3>1, <3>2 DEF Leave, Enter, reqVars
  <2> QED BY <2>1, <2>2, <2>3
<1>2. Using' = Using
  BY <1>1 DEF Using
<1> QED BY <1>2, Switches

LEMMA TurnsBegin == Init => T!Init
BY DEF Init, T!Init, Open, Using

LEMMA TurnsStep == SafeInv /\ Admitted' /\ [Next]_vars => [T!Next]_(T!vars)
<1> SUFFICES ASSUME SafeInv, Admitted', [Next]_vars PROVE [T!Next]_(T!vars)
  OBVIOUS
<1>1. CASE misled'
  BY <1>1 DEF T!Next
<1>2. CASE ~misled'
  <2>1. Inv /\ Safe /\ ~misled
    BY <1>2, MisledForGood DEF SafeInv, Inv
  <2>2. CASE UNCHANGED vars
    BY <2>2 DEF vars, viewVars, reqVars, histVars, T!vars, Open, Using
  <2>3. CASE Restart
    <3>1. T!Reset
      BY <2>3 DEF Restart, T!Reset, Open, Using
    <3> QED BY <1>2, <2>1, <3>1 DEF T!Next, T!Keep
  <2> QED BY <1>2, <2>1, <2>2, <2>3, TurnsRequest, TurnsOther DEF Next
<1> QED BY <1>1, <1>2

(* The scheduler does what Turns promises, for all requests, models and     *)
(* faults, until a survey misleads the broker.                              *)
THEOREM SchedulerTakesTurns == Spec => ImplementsTurns
BY TurnsBegin, TurnsStep, AlwaysSafe, AlwaysAdmitted, PTL DEF Spec, ImplementsTurns, T!Spec

=============================================================================
