-------------------------- MODULE SchedulerProofs ---------------------------
(***************************************************************************)
(* Proofs about the scheduler, for any catalogue, any number of requests,   *)
(* servers, faults and restarts.                                            *)
(***************************************************************************)
EXTENDS Scheduler, FiniteSetTheorems, TLAPS

USE SchedulerAssumption, ClaimsAssumption DEF SchedulerAssumption, ClaimsAssumption

-----------------------------------------------------------------------------
(* Records *)

LEMMA FreshFree ==
  ASSUME NEW m \in Models, Free(m) # {}
  PROVE  /\ Fresh(m) \in Records /\ ModelOf[Fresh(m)] = m /\ loaded[m] # Fresh(m)
         /\ \A r \in Requests : on[r] # Fresh(m)
<1>1. Fresh(m) \in Free(m)
  BY DEF Fresh
<1> QED BY <1>1 DEF Free

(* How the fields of a record change. *)
LEMMA BlankType == Blank \in LoadedModel
BY DEF Blank, LoadedModel

LEMMA RecordTypes ==
  /\ Placed \in LoadedModel
  /\ \A status : Adopted(status) \in LoadedModel
  /\ \A record \in LoadedModel : Outlived(record) \in LoadedModel
<1>1. Placed \in LoadedModel
  <2>1. 1 \in Int
    OBVIOUS
  <2> QED BY <2>1, BlankType, Zenon DEF Placed, LoadedModel
<1>2. ASSUME NEW status PROVE Adopted(status) \in LoadedModel
  BY BlankType DEF Adopted, LoadedModel
<1>3. ASSUME NEW record \in LoadedModel PROVE Outlived(record) \in LoadedModel
  BY BlankType DEF Outlived, LoadedModel
<1> QED BY <1>1, <1>2, <1>3

LEMMA UnqueuedType ==
  ASSUME ViewType, NEW i \in Records
  PROVE  Unqueued(i) \in LoadedModel
<1>1. rec[i] \in LoadedModel
  BY DEF ViewType
<1>2. rec[i].queued - 1 \in Int
  BY <1>1 DEF LoadedModel
<1> QED BY <1>1, <1>2, Zenon DEF LoadedModel, Unqueued

LEMMA CounterTypes ==
  ASSUME ViewType, NEW i \in Records
  PROVE  /\ [rec EXCEPT ![i].active = @ + 1] \in [Records -> LoadedModel]
         /\ [rec EXCEPT ![i].queued = @ + 1] \in [Records -> LoadedModel]
         /\ [rec EXCEPT ![i].queued = @ - 1, ![i].active = @ + 1] \in [Records -> LoadedModel]
         /\ \A moved \in BOOLEAN :
              [rec EXCEPT ![i].active = @ - 1, ![i].recent = TRUE, ![i].moved = moved]
                \in [Records -> LoadedModel]
         /\ [rec EXCEPT ![i].recent = FALSE] \in [Records -> LoadedModel]
         /\ [rec EXCEPT ![i].moved = FALSE] \in [Records -> LoadedModel]
         /\ Observed(i) \in [Records -> LoadedModel]
         /\ Settled(i) \in LoadedModel
         /\ GivenUp(i) \in LoadedModel
<1>1. rec \in [Records -> LoadedModel] /\ rec[i] \in LoadedModel
  BY DEF ViewType
<1>2. /\ rec[i].active + 1 \in Int /\ rec[i].active - 1 \in Int
      /\ rec[i].queued + 1 \in Int /\ rec[i].queued - 1 \in Int
  BY <1>1 DEF LoadedModel
<1>3. /\ [rec EXCEPT ![i].active = @ + 1] \in [Records -> LoadedModel]
      /\ [rec EXCEPT ![i].queued = @ + 1] \in [Records -> LoadedModel]
  BY <1>1, <1>2 DEF LoadedModel
<1>4. [rec EXCEPT ![i].queued = @ - 1, ![i].active = @ + 1] \in [Records -> LoadedModel]
  BY <1>1, <1>2, Zenon DEF LoadedModel
<1>5. ASSUME NEW moved \in BOOLEAN
      PROVE  [rec EXCEPT ![i].active = @ - 1, ![i].recent = TRUE, ![i].moved = moved]
               \in [Records -> LoadedModel]
  BY <1>1, <1>2, Zenon DEF LoadedModel
<1>6. /\ [rec EXCEPT ![i].recent = FALSE] \in [Records -> LoadedModel]
      /\ [rec EXCEPT ![i].moved = FALSE] \in [Records -> LoadedModel]
  BY <1>1 DEF LoadedModel
<1>7. Observed(i) \in [Records -> LoadedModel]
  BY <1>1 DEF LoadedModel, Observed
<1>8. Settled(i) \in LoadedModel
  BY <1>1 DEF LoadedModel, Settled
<1>9. GivenUp(i) \in LoadedModel
  <2>1. [rec[i] EXCEPT !.error = TRUE, !.ready = TRUE] \in LoadedModel
    BY <1>1 DEF LoadedModel
  <2> QED BY <2>1, RecordTypes DEF GivenUp
<1> QED BY <1>3, <1>4, <1>5, <1>6, <1>7, <1>8, <1>9

-----------------------------------------------------------------------------
(* Type correctness *)

LEMMA InitType == Init => TypeOK
<1> SUFFICES ASSUME Init PROVE TypeOK
  OBVIOUS
<1>1. ViewType
  BY BlankType DEF Init, ViewType
<1>2. RequestType
  BY DEF Init, RequestType
<1>3. LockType
  BY DEF Init, LockType, NoProbe, NoScan
<1>4. JobType
  BY DEF Init, JobType, NoJob, Steps
<1>5. WorldType
  BY DEF Init, WorldType, ServerState
<1> QED BY <1>1, <1>2, <1>3, <1>4, <1>5 DEF TypeOK

LEMMA ArriveType ==
  ASSUME TypeOK, NEW r \in Requests, NEW m \in Models, Arrive(r, m)
  PROVE  TypeOK'
<1> USE DEF TypeOK, viewVars, reqVars, lockVars, serverVars, boundVars, histVars
<1>1. ViewType'
  BY DEF Arrive, ViewType
<1>2. RequestType'
  BY DEF Arrive, RequestType, Tickets, Enter
<1>3. LockType'
  BY DEF Arrive, RequestType, LockType, Enter
<1>4. JobType' /\ WorldType'
  BY DEF Arrive, JobType, WorldType, Enter
<1> QED BY <1>1, <1>2, <1>3, <1>4

LEMMA JoinType ==
  ASSUME TypeOK, NEW r \in Requests, Join(r)
  PROVE  TypeOK'
<1> USE DEF TypeOK, viewVars, reqVars, lockVars, serverVars, boundVars, histVars
<1>1. ViewType'
  <2> DEFINE i == loaded[want[r]]
  <2>1. i \in Records
    BY DEF Join, RequestType, ViewType
  <2>2. /\ [rec EXCEPT ![i].active = @ + 1] \in [Records -> LoadedModel]
        /\ [rec EXCEPT ![i].queued = @ + 1] \in [Records -> LoadedModel]
    BY <2>1, CounterTypes
  <2>3. rec' \in [Records -> LoadedModel]
    BY <2>2, Zenon DEF Join, Admit, ViewType
  <2> QED BY <2>3 DEF Join, ViewType
<1>2. RequestType'
  <2> DEFINE i == loaded[want[r]]
  <2>1. i \in Records /\ ModelOf[i] = want[r] /\ pc[r] = "try"
    BY DEF Join, RequestType, ViewType
  <2>2. CASE Admit(r, i)
    BY <2>1, <2>2 DEF Join, RequestType, Tickets, Withdraw, Admit
  <2>3. CASE Leave(r)
    BY <2>1, <2>3 DEF Join, RequestType, Tickets, Withdraw, Leave
  <2>4. CASE /\ pc' = [pc EXCEPT ![r] = "wait"]
             /\ on' = [on EXCEPT ![r] = i]
             /\ UNCHANGED want
    BY <2>1, <2>4 DEF Join, RequestType, Tickets, Withdraw
  <2> QED BY <2>2, <2>3, <2>4 DEF Join
<1>3. LockType'
  BY DEF Join, RequestType, LockType, Withdraw, Leave, Admit
<1>4. JobType' /\ WorldType'
  BY DEF Join, JobType, WorldType, Withdraw, Leave, Admit
<1> QED BY <1>1, <1>2, <1>3, <1>4

LEMMA YieldToEarlierType ==
  ASSUME TypeOK, NEW r \in Requests, YieldToEarlier(r)
  PROVE  TypeOK'
<1> USE DEF TypeOK, viewVars, reqVars, lockVars, serverVars, boundVars, histVars
<1>1. ViewType'
  BY DEF YieldToEarlier, ViewType
<1>2. RequestType'
  BY DEF YieldToEarlier, RequestType, Tickets, Blocked, Leave, Withdraw
<1>3. LockType'
  BY DEF YieldToEarlier, RequestType, LockType, Blocked, Leave, Withdraw
<1>4. JobType' /\ WorldType'
  BY DEF YieldToEarlier, JobType, WorldType, Blocked, Leave, Withdraw
<1> QED BY <1>1, <1>2, <1>3, <1>4

LEMMA AskLockType ==
  ASSUME TypeOK, NEW r \in Requests, AskLock(r)
  PROVE  TypeOK'
<1> USE DEF TypeOK, viewVars, reqVars, lockVars, serverVars, boundVars, histVars
<1>1. ViewType'
  BY DEF AskLock, ViewType
<1>2. RequestType'
  BY DEF AskLock, RequestType, Tickets
<1>3. LockType'
  BY DEF AskLock, RequestType, LockType
<1>4. JobType' /\ WorldType'
  BY DEF AskLock, JobType, WorldType
<1> QED BY <1>1, <1>2, <1>3, <1>4

LEMMA DeadlineType ==
  ASSUME TypeOK, NEW r \in Requests, Deadline(r)
  PROVE  TypeOK'
<1> USE DEF TypeOK, viewVars, reqVars, lockVars, serverVars, boundVars, histVars
<1>1. ViewType'
  BY DEF Deadline, ViewType
<1>2. RequestType'
  BY DEF Deadline, RequestType, Tickets
<1>3. LockType'
  BY DEF Deadline, RequestType, LockType
<1>4. JobType' /\ WorldType'
  BY DEF Deadline, JobType, WorldType
<1> QED BY <1>1, <1>2, <1>3, <1>4

LEMMA WakeType ==
  ASSUME TypeOK, NEW r \in Requests, Wake(r)
  PROVE  TypeOK'
<1> USE DEF TypeOK, viewVars, reqVars, lockVars, serverVars, boundVars, histVars
<1>1. ViewType'
  <2> DEFINE i == on[r]
  <2>1. i \in Records
    BY DEF Wake, RequestType
  <2>2. /\ [rec EXCEPT ![i].queued = @ - 1, ![i].active = @ + 1] \in [Records -> LoadedModel]
        /\ [rec EXCEPT ![i] = Unqueued(i)] \in [Records -> LoadedModel]
    BY <2>1, CounterTypes, UnqueuedType DEF ViewType
  <2>3. rec' \in [Records -> LoadedModel]
    BY <2>2, Zenon DEF Wake
  <2> QED BY <2>3 DEF Wake, ViewType
<1>2. RequestType'
  BY DEF Wake, RequestType, Tickets, Leave
<1>3. LockType'
  BY DEF Wake, RequestType, LockType, Leave
<1>4. JobType' /\ WorldType'
  BY DEF Wake, JobType, WorldType, Leave
<1> QED BY <1>1, <1>2, <1>3, <1>4

LEMMA FinishType ==
  ASSUME TypeOK, NEW r \in Requests, Finish(r)
  PROVE  TypeOK'
<1> USE DEF TypeOK, viewVars, reqVars, lockVars, serverVars, boundVars, histVars
<1>1. ViewType'
  <2>1. on[r] \in Records
    BY DEF Finish, RequestType
  <2>2. rec[on[r]].moved \in BOOLEAN
    BY <2>1 DEF ViewType, LoadedModel
  <2>3. PICK moved \in BOOLEAN :
          rec' = [rec EXCEPT ![on[r]].active = @ - 1, ![on[r]].recent = TRUE,
                             ![on[r]].moved = moved]
    BY <2>2 DEF Finish
  <2>4. rec' \in [Records -> LoadedModel]
    BY <2>1, <2>3, CounterTypes, Zenon
  <2> QED BY <2>4 DEF Finish, ViewType
<1>2. RequestType'
  BY DEF Finish, RequestType, Tickets, Leave
<1>3. LockType'
  BY DEF Finish, RequestType, LockType, Leave
<1>4. JobType' /\ WorldType'
  BY DEF Finish, JobType, WorldType, Leave
<1> QED BY <1>1, <1>2, <1>3, <1>4

LEMMA ExpireType ==
  ASSUME TypeOK, NEW m \in Models, Expire(m)
  PROVE  TypeOK'
<1> USE DEF TypeOK, viewVars, reqVars, lockVars, serverVars, boundVars, histVars
<1>1. ViewType'
  BY CounterTypes DEF Expire, ViewType
<1>2. RequestType'
  BY DEF Expire, RequestType, Tickets
<1>3. LockType'
  BY DEF Expire, RequestType, LockType
<1>4. JobType' /\ WorldType'
  BY DEF Expire, JobType, WorldType
<1> QED BY <1>1, <1>2, <1>3, <1>4

LEMMA PlaceKnownType ==
  ASSUME TypeOK, NEW r \in Requests, PlaceKnown(r)
  PROVE  TypeOK'
<1> USE DEF TypeOK, viewVars, reqVars, lockVars, serverVars, boundVars, histVars
<1>1. ViewType'
  BY DEF PlaceKnown, ViewType
<1>2. RequestType'
  BY DEF PlaceKnown, RequestType, Tickets, Blocked, LookAgain, Leave, Withdraw
<1>3. LockType'
  BY DEF PlaceKnown, RequestType, LockType, Blocked, LookAgain, Leave, Withdraw
<1>4. JobType' /\ WorldType'
  BY DEF PlaceKnown, JobType, WorldType, Blocked, LookAgain, Leave, Withdraw
<1> QED BY <1>1, <1>2, <1>3, <1>4

LEMMA BlockedType ==
  ASSUME RequestType, NEW r \in Requests, pc[r] \in {"try", "place"},
         Blocked(r) \/ LookAgain(r)
  PROVE  /\ RequestType' /\ pc'[r] \in {"try", "idle"}
         /\ \A s \in Requests \ {r} : pc'[s] = pc[s]
<1>1. CASE r \in late /\ Leave(r) /\ Withdraw(r)
  BY <1>1 DEF RequestType, Leave, Withdraw, Tickets
<1>2. CASE LookAgain(r)
  BY <1>2 DEF RequestType, LookAgain, Tickets
<1> QED BY <1>1, <1>2 DEF Blocked, LookAgain

LEMMA DecideType ==
  ASSUME ViewType, RequestType, JobType, NEW r \in Requests, pc[r] = "place",
         NEW conflicts \in SUBSET Records, NEW records \in [Records -> LoadedModel],
         Decide(r, conflicts, records), UNCHANGED problems
  PROVE  /\ ViewType' /\ RequestType' /\ JobType'
         /\ pc'[r] # "place" /\ \A s \in Requests \ {r} : pc'[s] = pc[s]
<1>1. CASE \E i \in conflicts : JustUsed(i)
  <2>1. LookAgain(r) /\ rec' = records /\ UNCHANGED <<loaded, job>>
    BY <1>1 DEF Decide
  <2> QED BY <2>1, BlockedType DEF ViewType, JobType
<1>2. CASE ~ \E i \in conflicts : JustUsed(i)
  <2> DEFINE m == want[r]
             new == Fresh(m)
  <2>1. /\ rec' = [i \in Records |->
                     IF i = new THEN Placed
                     ELSE [records[i] EXCEPT !.leaving = @ \/ i \in conflicts]]
        /\ loaded' = [loaded EXCEPT ![m] = new]
        /\ job' = [job EXCEPT ![new] =
                     [at |-> IF conflicts = {} THEN "load" ELSE "unload",
                      victims |-> conflicts, victim |-> None]]
        /\ on' = [on EXCEPT ![r] = new]
        /\ pc' = [pc EXCEPT ![r] = "wait"]
        /\ Withdraw(r) /\ UNCHANGED want /\ Free(m) # {}
    BY <1>2 DEF Decide
  <2>2. m \in Models
    BY DEF RequestType
  <2>3. new \in Records /\ ModelOf[new] = m
    BY <2>1, <2>2, FreshFree
  <2> HIDE DEF new
  <2>4. ViewType'
    <3>1. ASSUME NEW i \in Records
          PROVE  [records[i] EXCEPT !.leaving = @ \/ i \in conflicts] \in LoadedModel
      BY DEF LoadedModel
    <3>2. rec' \in [Records -> LoadedModel]
      BY <2>1, <3>1, RecordTypes
    <3> QED BY <2>1, <2>2, <2>3, <3>2 DEF ViewType
  <2>5. RequestType'
    BY <2>1, <2>2, <2>3 DEF RequestType, Withdraw, Tickets
  <2>6. JobType'
    BY <2>1, <2>3 DEF JobType, Steps
  <2>7. pc'[r] # "place" /\ \A s \in Requests \ {r} : pc'[s] = pc[s]
    BY <2>1 DEF RequestType
  <2> QED BY <2>4, <2>5, <2>6, <2>7
<1> QED BY <1>1, <1>2

LEMMA PlaceFreeType ==
  ASSUME TypeOK, NEW r \in Requests, PlaceFree(r)
  PROVE  TypeOK'
<1> USE DEF TypeOK, viewVars, reqVars, lockVars, serverVars, boundVars, histVars
<1>1. Decide(r, {}, rec) /\ pc[r] = "place" /\ UNCHANGED problems
  BY DEF PlaceFree
<1>2. ViewType' /\ RequestType' /\ JobType'
  BY <1>1, DecideType DEF ViewType
<1>3. LockType' /\ WorldType'
  BY DEF PlaceFree, LockType, WorldType
<1> QED BY <1>2, <1>3

LEMMA PlaceObserveType ==
  ASSUME TypeOK, NEW r \in Requests, PlaceObserve(r)
  PROVE  TypeOK'
<1> USE DEF TypeOK, viewVars, reqVars, lockVars, serverVars, boundVars, histVars
<1>1. PICK i \in LoadedRivals(want[r]) :
        IF Occupied(i)
          THEN Blocked(r) /\ UNCHANGED lockVars
          ELSE /\ lock' = r /\ stage' = "observe"
               /\ probe' = [conflicts |-> LoadedRivals(want[r]),
                            left |-> LoadedRivals(want[r]) \ {i},
                            at |-> i, warm |-> FALSE]
               /\ UNCHANGED <<reqVars, scan>>
  BY DEF PlaceObserve
<1>2. LoadedRivals(want[r]) \subseteq Records
  BY DEF LoadedRivals, Tracked, Rivals, ViewType
<1>3. RequestType'
  BY <1>1, BlockedType DEF PlaceObserve, RequestType, Tickets
<1>4. LockType'
  <2>1. CASE Blocked(r) /\ UNCHANGED lockVars
    BY <2>1 DEF PlaceObserve, LockType
  <2>2. CASE /\ lock' = r /\ stage' = "observe" /\ UNCHANGED <<reqVars, scan>>
             /\ probe' = [conflicts |-> LoadedRivals(want[r]),
                          left |-> LoadedRivals(want[r]) \ {i},
                          at |-> i, warm |-> FALSE]
    BY <1>2, <2>2 DEF PlaceObserve, LockType
  <2> QED BY <1>1, <2>1, <2>2
<1>5. ViewType' /\ JobType' /\ WorldType'
  BY DEF PlaceObserve, ViewType, JobType, WorldType
<1> QED BY <1>3, <1>4, <1>5

LEMMA UnlockType ==
  ASSUME Unlock PROVE LockType'
BY DEF Unlock, LockType, NoProbe, NoScan

LEMMA ObserverType ==
  ASSUME TypeOK, NEW r \in Requests, lock = r, stage = "observe"
  PROVE  /\ pc[r] = "place" /\ probe.at \in Records
         /\ Observed(probe.at) \in [Records -> LoadedModel]
BY CounterTypes DEF TypeOK, LockType

LEMMA ObserveFailsType ==
  ASSUME TypeOK, NEW r \in Requests, ObserveFails(r)
  PROVE  TypeOK'
<1> USE DEF TypeOK, viewVars, reqVars, lockVars, serverVars, boundVars, histVars
<1>1. RequestType' /\ LockType'
  BY BlockedType, ObserverType, UnlockType DEF ObserveFails
<1>2. ViewType' /\ JobType' /\ WorldType'
  BY DEF ObserveFails, Spend, ViewType, JobType, WorldType
<1> QED BY <1>1, <1>2

LEMMA ObserveWorkingType ==
  ASSUME TypeOK, NEW r \in Requests, ObserveWorking(r)
  PROVE  TypeOK'
<1> USE DEF TypeOK, viewVars, reqVars, lockVars, serverVars, boundVars, histVars
<1>1. RequestType' /\ LockType'
  BY BlockedType, ObserverType, UnlockType DEF ObserveWorking
<1>2. ViewType' /\ JobType' /\ WorldType'
  BY ObserverType DEF ObserveWorking, ViewType, JobType, WorldType
<1> QED BY <1>1, <1>2

LEMMA ObserveNextType ==
  ASSUME TypeOK, NEW r \in Requests, ObserveNext(r)
  PROVE  TypeOK'
<1> USE DEF TypeOK, viewVars, reqVars, lockVars, serverVars, boundVars, histVars
<1>1. /\ rec' = Observed(probe.at) /\ rec' \in [Records -> LoadedModel]
      /\ probe.at \in Records /\ lock = r /\ stage = "observe" /\ pc[r] = "place"
  BY ObserverType DEF ObserveNext
<1>2. PICK i \in probe.left :
        IF Occupied(i)
          THEN Blocked(r) /\ Unlock
          ELSE /\ probe' = [probe EXCEPT !.left = @ \ {i}, !.at = i,
                                         !.warm = @ \/ rec'[probe.at].recent]
               /\ UNCHANGED <<reqVars, lock, stage, scan>>
  BY DEF ObserveNext
<1>3. ASSUME Blocked(r), Unlock
      PROVE  RequestType' /\ LockType'
  BY <1>1, <1>3, BlockedType, UnlockType
<1>4. ASSUME probe' = [probe EXCEPT !.left = @ \ {i}, !.at = i,
                                    !.warm = @ \/ rec'[probe.at].recent],
             UNCHANGED <<reqVars, lock, stage, scan>>
      PROVE  RequestType' /\ LockType'
  <2>1. RequestType'
    BY <1>4 DEF RequestType, Tickets
  <2> DEFINE warm == probe.warm \/ rec'[probe.at].recent
  <2>2. /\ probe' = [probe EXCEPT !.left = @ \ {i}, !.at = i, !.warm = warm]
        /\ warm \in BOOLEAN
    BY <1>4
  <2>3. i \in Records /\ probe.left \ {i} \in SUBSET Records
    BY DEF LockType
  <2> HIDE DEF warm
  <2>4. LockType'
    BY <1>1, <1>4, <2>2, <2>3 DEF LockType
  <2> QED BY <2>1, <2>4
<1>5. ViewType' /\ JobType' /\ WorldType'
  BY <1>1 DEF ObserveNext, ViewType, JobType, WorldType
<1>6. RequestType' /\ LockType'
  BY <1>2, <1>3, <1>4
<1> QED BY <1>5, <1>6

LEMMA ObserveLastType ==
  ASSUME TypeOK, NEW r \in Requests, ObserveLast(r)
  PROVE  TypeOK'
<1> USE DEF TypeOK, viewVars, reqVars, lockVars, serverVars, boundVars, histVars
<1>1. /\ pc[r] = "place" /\ UNCHANGED problems
      /\ Observed(probe.at) \in [Records -> LoadedModel] /\ probe.conflicts \in SUBSET Records
  BY ObserverType DEF ObserveLast, LockType
<1>2. ASSUME rec' = Observed(probe.at), Blocked(r), UNCHANGED <<loaded, job>>
      PROVE  ViewType' /\ RequestType' /\ JobType'
  <2>1. RequestType'
    BY <1>1, <1>2, BlockedType
  <2>2. ViewType' /\ JobType'
    BY <1>1, <1>2 DEF ViewType, JobType
  <2> QED BY <2>1, <2>2
<1>3. ASSUME Decide(r, probe.conflicts, Observed(probe.at))
      PROVE  ViewType' /\ RequestType' /\ JobType'
  <2> DEFINE records == Observed(probe.at)
  <2>1. records \in [Records -> LoadedModel] /\ Decide(r, probe.conflicts, records)
    BY <1>1, <1>3
  <2> HIDE DEF records
  <2> QED BY <1>1, <2>1, DecideType
<1>4. ViewType' /\ RequestType' /\ JobType'
  BY <1>2, <1>3 DEF ObserveLast
<1>5. LockType' /\ WorldType'
  BY UnlockType DEF ObserveLast, WorldType
<1> QED BY <1>4, <1>5

LEMMA CheckRouterType ==
  ASSUME TypeOK, NEW r \in Requests, CheckRouter(r)
  PROVE  TypeOK'
<1> USE DEF TypeOK, viewVars, reqVars, lockVars, serverVars, boundVars, histVars
<1>1. RequestType'
  BY DEF CheckRouter, Enter, RequestType, Tickets
<1>2. LockType'
  BY DEF CheckRouter, Enter, RequestType, LockType
<1>3. ViewType' /\ JobType' /\ WorldType'
  BY DEF CheckRouter, ViewType, JobType, WorldType
<1> QED BY <1>1, <1>2, <1>3

LEMMA CancelType ==
  ASSUME TypeOK, NEW r \in Requests, Cancel(r)
  PROVE  TypeOK'
<1> USE DEF TypeOK, viewVars, reqVars, lockVars, serverVars, boundVars, histVars
<1>1. ViewType'
  <2>1. pc[r] = "wait" => on[r] \in Records
    BY DEF RequestType
  <2>2. pc[r] = "wait" => [rec EXCEPT ![on[r]] = Unqueued(on[r])] \in [Records -> LoadedModel]
    BY <2>1, UnqueuedType DEF ViewType
  <2> QED BY <2>2 DEF Cancel, ViewType
<1>2. RequestType'
  BY DEF Cancel, Leave, Withdraw, RequestType, Tickets
<1>3. LockType'
  <2>1. CASE lock = r
    BY <2>1, UnlockType DEF Cancel
  <2>2. CASE lock # r
    BY <2>2 DEF Cancel, Leave, RequestType, LockType
  <2> QED BY <2>1, <2>2
<1>4. JobType' /\ WorldType'
  BY DEF Cancel, JobType, WorldType
<1> QED BY <1>1, <1>2, <1>3, <1>4

LEMMA SurveyReadType ==
  ASSUME TypeOK, NEW b \in Backends, SurveyRead(b)
  PROVE  TypeOK'
<1> USE DEF TypeOK, viewVars, reqVars, lockVars, serverVars, boundVars, histVars
<1> DEFINE seen == {"unread", "down", "unloaded", "loading", "loaded"}
<1>1. /\ [m \in Models |-> IF m \in Served(b) THEN Report(m) ELSE scan.seen[m]]
           \in [Models -> seen]
      /\ [m \in Models |-> IF m \in Served(b) THEN "down" ELSE scan.seen[m]]
           \in [Models -> seen]
  BY DEF LockType, Report
<1>2. LockType'
  BY <1>1 DEF SurveyRead, LockType
<1>3. ViewType' /\ RequestType' /\ JobType' /\ WorldType'
  BY DEF SurveyRead, Spend, ViewType, RequestType, Tickets, JobType, WorldType
<1> QED BY <1>2, <1>3

LEMMA TrackType ==
  ASSUME TypeOK, NEW todo \in SUBSET Records, NEW ready, NEW unfit,
         stage \in {"survey", "track"}, Track(todo, ready, unfit)
  PROVE  RequestType' /\ LockType' /\ JobType'
<1> USE DEF TypeOK, viewVars, reqVars, lockVars, serverVars, boundVars, histVars
<1>1. PICK watched \in SUBSET (todo \ ready) :
        /\ job' = [i \in Records |-> IF i \in watched THEN Watcher ELSE job[i]]
        /\ \/ \E i \in todo \cap ready :
                /\ stage' = "track"
                /\ scan' = [scan EXCEPT !.todo = todo \ (watched \cup {i}), !.at = i]
                /\ UNCHANGED <<reqVars, lock, probe>>
           \/ /\ Unlock
              /\ IF lock = Boot THEN UNCHANGED reqVars
                 ELSE IF unfit THEN Leave(lock) /\ UNCHANGED <<ahead, late>>
                 ELSE Enter(lock) /\ UNCHANGED <<want, on>>
  BY DEF Track
<1>2. JobType'
  BY <1>1 DEF JobType, Watcher, NoJob, Steps
<1>3. ASSUME NEW i \in todo \cap ready, stage' = "track",
             scan' = [scan EXCEPT !.todo = todo \ (watched \cup {i}), !.at = i],
             UNCHANGED <<reqVars, lock, probe>>
      PROVE  RequestType' /\ LockType'
  <2>1. RequestType'
    BY <1>3 DEF RequestType, Tickets
  <2>2. LockType'
    BY <1>3 DEF LockType
  <2> QED BY <2>1, <2>2
<1>4. ASSUME Unlock, IF lock = Boot THEN UNCHANGED reqVars
                     ELSE IF unfit THEN Leave(lock) /\ UNCHANGED <<ahead, late>>
                     ELSE Enter(lock) /\ UNCHANGED <<want, on>>
      PROVE  RequestType' /\ LockType'
  <2>1. lock # Boot => lock \in Requests /\ pc[lock] = "check"
    BY DEF LockType
  <2>2. RequestType'
    BY <1>4, <2>1 DEF RequestType, Leave, Enter, Tickets
  <2> QED BY <1>4, <2>2, UnlockType
<1> QED BY <1>1, <1>2, <1>3, <1>4

LEMMA MergeType ==
  ASSUME TypeOK, Merge
  PROVE  TypeOK'
<1> USE DEF TypeOK, viewVars, reqVars, lockVars, serverVars, boundVars, histVars
<1>1. \A m \in ToAdopt : m \in Models /\ Fresh(m) \in Records /\ ModelOf[Fresh(m)] = m
  BY FreshFree DEF Merge, ToAdopt
<1>2. ViewType'
  <2>1. loaded' = [m \in Models |-> IF m \in ToAdopt THEN Fresh(m)
                                    ELSE IF Stays(m) THEN loaded[m] ELSE None]
    BY DEF Merge
  <2>2. /\ loaded' \in [Models -> Records \cup {None}]
        /\ \A m \in Models : loaded'[m] # None => ModelOf[loaded'[m]] = m
    BY <1>1, <2>1 DEF ViewType
  <2>3. \A i \in Records : Adopted(scan.seen[ModelOf[i]]) \in LoadedModel
                           /\ Outlived(rec[i]) \in LoadedModel /\ rec[i] \in LoadedModel
    BY RecordTypes DEF ViewType
  <2>4. rec' \in [Records -> LoadedModel]
    BY <2>3 DEF Merge
  <2>5. problems' \in BOOLEAN
    BY DEF Merge
  <2> QED BY <2>2, <2>4, <2>5 DEF ViewType
<1>3. RequestType' /\ LockType' /\ JobType'
  <2> DEFINE todo == {Fresh(m) : m \in ToAdopt}
             ready == {Fresh(m) : m \in {k \in ToAdopt : scan.seen[k] = "loaded"}}
  <2>1. todo \in SUBSET Records /\ stage = "survey" /\ Track(todo, ready, problems')
    BY <1>1 DEF Merge
  <2> HIDE DEF todo, ready
  <2> QED BY <2>1, TrackType
<1>4. WorldType'
  BY DEF Merge, WorldType
<1> QED BY <1>2, <1>3, <1>4

LEMMA TrackNextType ==
  ASSUME TypeOK, TrackNext
  PROVE  TypeOK'
<1> USE DEF TypeOK, viewVars, reqVars, lockVars, serverVars, boundVars, histVars
<1>1. ViewType'
  <2>1. scan.at \in Records
    BY DEF TrackNext, LockType
  <2>2. [rec EXCEPT ![scan.at].moved = FALSE] \in [Records -> LoadedModel]
    BY <2>1, CounterTypes
  <2> QED BY <2>2 DEF TrackNext, ViewType
<1>2. RequestType' /\ LockType' /\ JobType'
  <2> DEFINE ready == {i \in scan.todo : rec[i].ready}
  <2>1. scan.todo \in SUBSET Records /\ stage = "track" /\ Track(scan.todo, ready, problems)
    BY DEF TrackNext, LockType
  <2> HIDE DEF ready
  <2> QED BY <2>1, TrackType
<1>3. WorldType'
  BY DEF TrackNext, Spend, WorldType
<1> QED BY <1>1, <1>2, <1>3

LEMMA RestartType ==
  ASSUME TypeOK, Restart
  PROVE  TypeOK'
<1> USE DEF TypeOK, viewVars, reqVars, lockVars, serverVars, boundVars, histVars
<1>1. ViewType'
  BY BlankType DEF Restart, ViewType
<1>2. RequestType'
  BY DEF Restart, RequestType
<1>3. LockType'
  BY DEF Restart, LockType, NoProbe, NoScan
<1>4. JobType' /\ WorldType'
  BY DEF Restart, JobType, NoJob, Steps, WorldType
<1> QED BY <1>1, <1>2, <1>3, <1>4

LEMMA ServerType ==
  ASSUME TypeOK, NEW m \in Models, ServerStep(m)
  PROVE  TypeOK'
<1> USE DEF TypeOK, viewVars, reqVars, lockVars, serverVars, boundVars, histVars
<1>1. ViewType'
  <2>1. CASE OutsideWork(m)
    <3>1. ASSUME NEW i \in Records
          PROVE  [rec[i] EXCEPT !.moved = TRUE] \in LoadedModel
      <4>1. rec[i] \in LoadedModel
        BY DEF ViewType
      <4> QED BY <4>1 DEF LoadedModel
    <3> QED BY <2>1, <3>1 DEF OutsideWork, ViewType
  <2>2. CASE ServerLoads(m) \/ ServerUnloads(m) \/ ServerFails(m)
    BY <2>2 DEF ServerLoads, ServerUnloads, ServerFails, Becomes, ViewType
  <2> QED BY <2>1, <2>2 DEF ServerStep
<1>2. RequestType' /\ LockType' /\ JobType'
  BY DEF ServerStep, OutsideWork, ServerLoads, ServerUnloads, ServerFails, Becomes,
         RequestType, Tickets, LockType, JobType
<1>3. WorldType'
  BY DEF ServerStep, OutsideWork, ServerLoads, ServerUnloads, ServerFails, Becomes,
         Spend, WorldType, ServerState
<1> QED BY <1>1, <1>2, <1>3

(* A task leaves the requests and the lock alone. *)
LEMMA TaskFrame ==
  ASSUME RequestType, LockType, UNCHANGED <<reqVars, lockVars>>
  PROVE  RequestType' /\ LockType'
BY DEF reqVars, lockVars, RequestType, Tickets, LockType

LEMMA RemovedType ==
  ASSUME ViewType, JobType, NEW i \in Records, NEW v \in Records, Removed(i, v),
         UNCHANGED problems
  PROVE  ViewType' /\ JobType'
<1>1. Outlived(rec[v]) \in LoadedModel
  BY RecordTypes DEF ViewType
<1>2. ViewType'
  BY <1>1 DEF Removed, ViewType
<1>3. JobType'
  BY DEF Removed, JobType, NoJob, Steps
<1> QED BY <1>2, <1>3

LEMMA SwapFailsType ==
  ASSUME ViewType, JobType, NEW i \in Records, SwapFails(i), UNCHANGED problems
  PROVE  ViewType' /\ JobType'
<1>1. GivenUp(i) \in LoadedModel
  BY CounterTypes
<1>2. ASSUME NEW j \in Records
      PROVE  [rec[j] EXCEPT !.leaving = @ /\ j \notin job[i].victims] \in LoadedModel
  <2>1. rec[j] \in LoadedModel
    BY DEF ViewType
  <2> QED BY <2>1 DEF LoadedModel
<1>3. ViewType'
  BY <1>1, <1>2 DEF SwapFails, ViewType
<1>4. JobType'
  BY DEF SwapFails, JobType, NoJob, Steps
<1> QED BY <1>3, <1>4

LEMMA LoadFailsType ==
  ASSUME ViewType, JobType, NEW i \in Records, LoadFails(i), UNCHANGED <<loaded, problems>>
  PROVE  ViewType' /\ JobType'
<1>1. [rec EXCEPT ![i].error = TRUE] \in [Records -> LoadedModel]
  <2>1. rec \in [Records -> LoadedModel] /\ rec[i] \in LoadedModel
    BY DEF ViewType
  <2> QED BY <2>1 DEF LoadedModel
<1>2. ViewType'
  BY <1>1 DEF LoadFails, ViewType
<1>3. JobType'
  BY DEF LoadFails, At, JobType, Steps
<1> QED BY <1>2, <1>3

LEMMA AtType ==
  ASSUME JobType, NEW i \in Records, NEW step \in Steps, step # "drain", At(i, step)
  PROVE  JobType'
BY DEF At, JobType

LEMMA AskUnloadType ==
  ASSUME TypeOK, NEW i \in Records, AskUnload(i)
  PROVE  TypeOK'
<1> USE DEF TypeOK, viewVars, reqVars, lockVars, serverVars, boundVars, histVars
<1>1. PICK v \in job[i].victims :
        \/ /\ Held(ModelOf[v])
           /\ job' = [job EXCEPT ![i].at = "drain", ![i].victim = v]
           /\ UNCHANGED <<loaded, rec>>
        \/ Removed(i, v)
        \/ SwapFails(i)
  BY DEF AskUnload
<1>2. v \in Records /\ UNCHANGED problems
  BY DEF AskUnload, JobType
<1>3. ViewType' /\ JobType'
  <2>1. ASSUME job' = [job EXCEPT ![i].at = "drain", ![i].victim = v],
               UNCHANGED <<loaded, rec>>
        PROVE  ViewType' /\ JobType'
    <3>1. ViewType'
      BY <1>2, <2>1 DEF ViewType
    <3>2. JobType'
      <4>1. "drain" \in Steps
        BY DEF Steps
      <4>2. job'[i].victim = v /\ \A j \in Records \ {i} : job'[j] = job[j]
        BY <2>1 DEF JobType
      <4>3. job' \in [Records -> [at : Steps, victims : SUBSET Records,
                                  victim : Records \cup {None}]]
        <5> DEFINE task == [at : Steps, victims : SUBSET Records, victim : Records \cup {None}]
                   next == [job[i] EXCEPT !.at = "drain", !.victim = v]
        <5>1. job[i] \in task /\ job \in [Records -> task]
          BY DEF JobType
        <5>2. next \in task
          BY <1>2, <4>1, <5>1
        <5>3. job' = [job EXCEPT ![i] = next]
          BY <2>1
        <5> QED BY <5>1, <5>2, <5>3, Zenon
      <4> QED BY <1>2, <4>2, <4>3 DEF JobType
    <3> QED BY <3>1, <3>2
  <2> QED BY <1>1, <1>2, <2>1, RemovedType, SwapFailsType
<1>4. RequestType' /\ LockType'
  BY TaskFrame DEF AskUnload
<1>5. WorldType'
  BY <1>2 DEF AskUnload, Spend, WorldType, ServerState
<1> QED BY <1>3, <1>4, <1>5

LEMMA AwaitUnloadedType ==
  ASSUME TypeOK, NEW i \in Records, AwaitUnloaded(i)
  PROVE  TypeOK'
<1> USE DEF TypeOK, viewVars, reqVars, lockVars, serverVars, boundVars, histVars
<1>1. job[i].victim \in Records /\ (Removed(i, job[i].victim) \/ SwapFails(i))
      /\ UNCHANGED problems
  BY DEF AwaitUnloaded, JobType
<1>2. ViewType' /\ JobType'
  BY <1>1, RemovedType, SwapFailsType
<1>3. RequestType' /\ LockType'
  BY TaskFrame DEF AwaitUnloaded
<1>4. WorldType'
  BY DEF AwaitUnloaded, Spend, WorldType
<1> QED BY <1>2, <1>3, <1>4

LEMMA AskLoadType ==
  ASSUME TypeOK, NEW i \in Records, AskLoad(i)
  PROVE  TypeOK'
<1> USE DEF TypeOK, viewVars, reqVars, lockVars, serverVars, boundVars, histVars
<1>1. ViewType' /\ JobType'
  <2>1. ASSUME At(i, "loading"), UNCHANGED rec
        PROVE  ViewType' /\ JobType'
    BY <2>1, AtType DEF AskLoad, ViewType, Steps
  <2> QED BY <2>1, LoadFailsType DEF AskLoad
<1>2. RequestType' /\ LockType'
  BY TaskFrame DEF AskLoad
<1>3. WorldType'
  BY DEF AskLoad, Spend, WorldType, ServerState
<1> QED BY <1>1, <1>2, <1>3

LEMMA AwaitLoadedType ==
  ASSUME TypeOK, NEW i \in Records, AwaitLoaded(i)
  PROVE  TypeOK'
<1> USE DEF TypeOK, viewVars, reqVars, lockVars, serverVars, boundVars, histVars
<1>1. ViewType' /\ JobType'
  <2>1. ASSUME At(i, "baseline"), UNCHANGED rec
        PROVE  ViewType' /\ JobType'
    BY <2>1, AtType DEF AwaitLoaded, ViewType, Steps
  <2> QED BY <2>1, LoadFailsType DEF AwaitLoaded
<1>2. RequestType' /\ LockType'
  BY TaskFrame DEF AwaitLoaded
<1>3. WorldType'
  BY DEF AwaitLoaded, Spend, WorldType
<1> QED BY <1>1, <1>2, <1>3

LEMMA ConfirmFailedType ==
  ASSUME TypeOK, NEW i \in Records, ConfirmFailed(i)
  PROVE  TypeOK'
<1> USE DEF TypeOK, viewVars, reqVars, lockVars, serverVars, boundVars, histVars
<1>1. Settled(i) \in LoadedModel /\ Outlived(Settled(i)) \in LoadedModel
  BY CounterTypes, RecordTypes
<1>2. ViewType'
  BY <1>1 DEF ConfirmFailed, ViewType
<1>3. JobType'
  BY AtType DEF ConfirmFailed, Steps
<1>4. RequestType' /\ LockType'
  BY TaskFrame DEF ConfirmFailed
<1>5. WorldType'
  BY DEF ConfirmFailed, Spend, WorldType
<1> QED BY <1>2, <1>3, <1>4, <1>5

LEMMA RecordBaselineType ==
  ASSUME TypeOK, NEW i \in Records, RecordBaseline(i)
  PROVE  TypeOK'
<1> USE DEF TypeOK, viewVars, reqVars, lockVars, serverVars, boundVars, histVars
<1>1. Settled(i) \in LoadedModel
  BY CounterTypes
<1>6. [Settled(i) EXCEPT !.moved = FALSE] \in LoadedModel
  BY <1>1 DEF LoadedModel
<1>2. ViewType'
  BY <1>1, <1>6 DEF RecordBaseline, ViewType
<1>3. JobType'
  BY AtType DEF RecordBaseline, Steps
<1>4. RequestType' /\ LockType'
  BY TaskFrame DEF RecordBaseline
<1>5. WorldType'
  BY DEF RecordBaseline, Spend, WorldType
<1> QED BY <1>2, <1>3, <1>4, <1>5

LEMMA StepType == TypeOK /\ [Next]_vars => TypeOK'
<1> SUFFICES ASSUME TypeOK, [Next]_vars PROVE TypeOK'
  OBVIOUS
<1>1. ASSUME NEW r \in Requests, RequestStep(r) PROVE TypeOK'
  BY <1>1, ArriveType, CheckRouterType, JoinType, YieldToEarlierType, AskLockType,
     DeadlineType, PlaceKnownType, PlaceFreeType, PlaceObserveType, ObserveFailsType,
     ObserveWorkingType, ObserveNextType, ObserveLastType, WakeType, FinishType,
     CancelType
     DEF RequestStep
<1>2. ASSUME NEW i \in Records, TaskStep(i) PROVE TypeOK'
  BY <1>2, AskUnloadType, AwaitUnloadedType, AskLoadType, AwaitLoadedType,
     ConfirmFailedType, RecordBaselineType
     DEF TaskStep
<1>3. CASE UNCHANGED vars
  BY <1>3 DEF vars, viewVars, reqVars, lockVars, serverVars, boundVars, histVars,
              TypeOK, ViewType, RequestType, Tickets, LockType, JobType, WorldType
<1> QED
  BY <1>1, <1>2, <1>3, SurveyReadType, MergeType, TrackNextType, ExpireType, ServerType,
     RestartType
     DEF Next

(* Every variable has its type in every reachable state, and whoever holds  *)
(* the scheduling lock is suspended where it awaits.                        *)
THEOREM TypeCorrect == Spec => []TypeOK
BY InitType, StepType, PTL DEF Spec

-----------------------------------------------------------------------------
(* The counters of the records *)

(* Is r counted on record i, in the given state? *)
Counts(r, i, state) == IF pc[r] = state /\ on[r] = i THEN 1 ELSE 0

LEMMA Cardinalities ==
  ASSUME NEW S \in SUBSET Requests
  PROVE  /\ Cardinality(S) \in Nat
         /\ \A r \in Requests : r \notin S => Cardinality(S \cup {r}) = Cardinality(S) + 1
         /\ \A r \in S : Cardinality(S) > 0 /\ Cardinality(S \ {r}) = Cardinality(S) - 1
         /\ S = {} => Cardinality(S) = 0
<1>1. IsFiniteSet(S)
  BY FS_Subset
<1>2. Cardinality(S) \in Nat
  BY <1>1, FS_CardinalityType
<1>3. ASSUME NEW r \in S
      PROVE  Cardinality(S) > 0 /\ Cardinality(S \ {r}) = Cardinality(S) - 1
  <2>1. Cardinality(S) # 0
    BY <1>1, FS_EmptySet
  <2>2. Cardinality(S \ {r}) = Cardinality(S) - 1
    BY <1>1, FS_RemoveElement
  <2> QED BY <1>2, <2>1, <2>2
<1> QED BY <1>1, <1>2, <1>3, FS_AddElement, FS_EmptySet

(* When only r moves, the requests on a record change by r alone. *)
LEMMA OnRecordMoves ==
  ASSUME NEW r \in Requests, NEW i \in Records, NEW state,
         \A s \in Requests \ {r} : pc'[s] = pc[s] /\ on'[s] = on[s]
  PROVE  Cardinality(OnRecord(i, state)') =
           Cardinality(OnRecord(i, state)) - Counts(r, i, state) + Counts(r, i, state)'
<1> DEFINE S == OnRecord(i, state)
           T == OnRecord(i, state)'
<1>1. S \in SUBSET Requests /\ T \in SUBSET Requests
  BY DEF OnRecord
<1>2. /\ r \in S <=> Counts(r, i, state) = 1
      /\ r \notin S <=> Counts(r, i, state) = 0
      /\ r \in T <=> Counts(r, i, state)' = 1
      /\ r \notin T <=> Counts(r, i, state)' = 0
  BY DEF OnRecord, Counts
<1>3. S \ {r} = T \ {r}
  BY DEF OnRecord
<1> HIDE DEF S, T
<1>4. CASE r \in S /\ r \in T
  <2>1. S = T
    BY <1>3, <1>4
  <2> QED BY <1>1, <1>2, <1>4, <2>1, Cardinalities DEF S, T
<1>5. CASE r \notin S /\ r \notin T
  <2>1. S \ {r} = S /\ T \ {r} = T
    BY <1>5
  <2>2. S = T
    BY <1>3, <2>1
  <2> QED BY <1>1, <1>2, <1>5, <2>2, Cardinalities DEF S, T
<1>6. CASE r \in S /\ r \notin T
  <2>1. T = S \ {r}
    BY <1>3, <1>6
  <2>2. Cardinality(T) = Cardinality(S) - 1 /\ Cardinality(S) \in Nat
    BY <1>1, <1>6, <2>1, Cardinalities
  <2> QED BY <1>2, <1>6, <2>2 DEF S, T
<1>7. CASE r \notin S /\ r \in T
  <2>1. T = S \cup {r}
    BY <1>3, <1>7
  <2>2. Cardinality(T) = Cardinality(S) + 1 /\ Cardinality(S) \in Nat
    BY <1>1, <1>7, <2>1, Cardinalities
  <2> QED BY <1>2, <1>7, <2>2 DEF S, T
<1> QED BY <1>4, <1>5, <1>6, <1>7

(* The inductive invariant. *)
Inv == TypeOK /\ CountsMatch /\ VictimsUnused

(* A request that is counted keeps its record from being a victim. *)
LEMMA CountedInUse ==
  ASSUME Inv, NEW r \in Requests, pc[r] \in {"wait", "active"}
  PROVE  on[r] \in Records /\ InUse(on[r]) /\ ~rec[on[r]].leaving
<1>1. on[r] \in Records
  BY DEF Inv, TypeOK, RequestType
<1>2. r \in OnRecord(on[r], pc[r])
  BY DEF OnRecord
<1>3. Cardinality(OnRecord(on[r], pc[r])) > 0
  <2>1. OnRecord(on[r], pc[r]) \in SUBSET Requests
    BY DEF OnRecord
  <2> QED BY <1>2, <2>1, Cardinalities
<1> QED BY <1>1, <1>3 DEF Inv, CountsMatch, VictimsUnused, InUse

(* A record on which there is no request counts none. *)
LEMMA FreeCounts ==
  ASSUME Inv, NEW i \in Records, \A r \in Requests : on[r] # i
  PROVE  rec[i].active = 0 /\ rec[i].queued = 0
<1>1. OnRecord(i, "active") = {} /\ OnRecord(i, "wait") = {}
  BY DEF OnRecord
<1> QED BY <1>1, FS_EmptySet DEF Inv, CountsMatch

(* One request moves, and the counters of the records follow it. *)
LEMMA RequestMoves ==
  ASSUME Inv, NEW r \in Requests,
         \A s \in Requests \ {r} : pc'[s] = pc[s] /\ on'[s] = on[s],
         \A i \in Records :
           /\ rec'[i].active = rec[i].active - Counts(r, i, "active") + Counts(r, i, "active")'
           /\ rec'[i].queued = rec[i].queued - Counts(r, i, "wait") + Counts(r, i, "wait")'
  PROVE  CountsMatch'
BY OnRecordMoves DEF Inv, CountsMatch

(* No request is admitted, queued or released, and no model is chosen to    *)
(* leave.                                                                   *)
LEMMA CountersStay ==
  ASSUME Inv,
         \A r \in Requests : \/ pc'[r] = pc[r] /\ on'[r] = on[r]
                             \/ {pc[r], pc'[r]} \cap {"wait", "active"} = {},
         \A i \in Records : /\ rec'[i].active = rec[i].active
                            /\ rec'[i].queued = rec[i].queued
                            /\ rec'[i].leaving => rec[i].leaving
  PROVE  CountsMatch' /\ VictimsUnused'
<1>1. ASSUME NEW i \in Records, NEW state \in {"wait", "active"}
      PROVE  OnRecord(i, state)' = OnRecord(i, state)
  BY DEF OnRecord
<1>2. CountsMatch'
  BY <1>1 DEF Inv, CountsMatch
<1>3. VictimsUnused'
  BY DEF Inv, VictimsUnused, InUse
<1> QED BY <1>2, <1>3

LEMMA JoinCounts ==
  ASSUME Inv, NEW r \in Requests, Join(r)
  PROVE  CountsMatch' /\ VictimsUnused'
<1> USE DEF Inv, TypeOK
<1> DEFINE i == loaded[want[r]]
<1>1. i \in Records /\ ~rec[i].leaving /\ pc[r] = "try"
  BY DEF Join, ViewType, RequestType
<1>2. /\ pc \in [Requests -> {"idle", "check", "try", "place", "wait", "active"}]
      /\ on \in [Requests -> Records \cup {None}]
      /\ rec \in [Records -> LoadedModel] /\ \A j \in Records : rec[j] \in LoadedModel
  BY DEF RequestType, ViewType
<1> HIDE DEF i
<1>3. CASE Admit(r, i)
  <2>1. \A s \in Requests \ {r} : pc'[s] = pc[s] /\ on'[s] = on[s]
    BY <1>2, <1>3 DEF Admit
  <2>2. \A j \in Records : /\ rec'[j].active = rec[j].active + IF j = i THEN 1 ELSE 0
                           /\ rec'[j].queued = rec[j].queued
                           /\ rec'[j].leaving = rec[j].leaving
    BY <1>1, <1>2, <1>3 DEF Admit, LoadedModel
  <2>3. CountsMatch'
    BY <1>1, <1>2, <1>3, <2>1, <2>2, RequestMoves DEF Admit, Counts, LoadedModel
  <2>4. VictimsUnused'
    BY <1>1, <2>2, <1>2 DEF VictimsUnused, InUse, LoadedModel
  <2> QED BY <2>3, <2>4
<1>4. CASE Leave(r) /\ UNCHANGED rec
  BY <1>1, <1>2, <1>4, CountersStay DEF Leave
<1>5. CASE /\ rec' = [rec EXCEPT ![i].queued = @ + 1]
           /\ pc' = [pc EXCEPT ![r] = "wait"]
           /\ on' = [on EXCEPT ![r] = i]
  <2>1. \A s \in Requests \ {r} : pc'[s] = pc[s] /\ on'[s] = on[s]
    BY <1>2, <1>5
  <2>2. \A j \in Records : /\ rec'[j].queued = rec[j].queued + IF j = i THEN 1 ELSE 0
                           /\ rec'[j].active = rec[j].active
                           /\ rec'[j].leaving = rec[j].leaving
    BY <1>1, <1>2, <1>5 DEF LoadedModel
  <2>3. CountsMatch'
    BY <1>1, <1>2, <1>5, <2>1, <2>2, RequestMoves DEF Counts, LoadedModel
  <2>4. VictimsUnused'
    BY <1>1, <2>2, <1>2 DEF VictimsUnused, InUse, LoadedModel
  <2> QED BY <2>3, <2>4
<1> QED BY <1>3, <1>4, <1>5 DEF Join, i

(* A request leaves the record it is queued on. *)
LEMMA UnqueuedCounts ==
  ASSUME Inv, NEW r \in Requests, pc[r] = "wait", Leave(r),
         rec' = [rec EXCEPT ![on[r]] = Unqueued(on[r])]
  PROVE  CountsMatch' /\ VictimsUnused'
<1> DEFINE i == on[r]
<1>1. i \in Records /\ ~rec[i].leaving
  BY CountedInUse
<1>2. /\ pc \in [Requests -> {"idle", "check", "try", "place", "wait", "active"}]
      /\ on \in [Requests -> Records \cup {None}]
      /\ rec \in [Records -> LoadedModel] /\ \A j \in Records : rec[j] \in LoadedModel
  BY DEF Inv, TypeOK, RequestType, ViewType
<1>3. /\ Unqueued(i).queued = rec[i].queued - 1 /\ Unqueued(i).active = rec[i].active
      /\ Unqueued(i).leaving = rec[i].leaving
  BY <1>1, <1>2, Zenon DEF Unqueued, LoadedModel
<1>4. \A j \in Records : /\ rec'[j].queued = rec[j].queued - IF j = i THEN 1 ELSE 0
                         /\ rec'[j].active = rec[j].active
                         /\ rec'[j].leaving = rec[j].leaving
  BY <1>1, <1>2, <1>3 DEF LoadedModel
<1>5. CountsMatch'
  BY <1>1, <1>2, <1>4, RequestMoves DEF Leave, Counts, LoadedModel
<1>6. VictimsUnused'
  BY <1>1, <1>2, <1>4 DEF Inv, VictimsUnused, InUse, LoadedModel
<1> QED BY <1>5, <1>6

LEMMA WakeCounts ==
  ASSUME Inv, NEW r \in Requests, Wake(r)
  PROVE  CountsMatch' /\ VictimsUnused'
<1> DEFINE i == on[r]
<1>1. i \in Records /\ ~rec[i].leaving /\ pc[r] = "wait"
  BY CountedInUse DEF Wake
<1>2. /\ pc \in [Requests -> {"idle", "check", "try", "place", "wait", "active"}]
      /\ on \in [Requests -> Records \cup {None}]
      /\ rec \in [Records -> LoadedModel] /\ \A j \in Records : rec[j] \in LoadedModel
  BY DEF Inv, TypeOK, RequestType, ViewType
<1>3. CASE rec' = [rec EXCEPT ![i] = Unqueued(i)] /\ Leave(r)
  BY <1>1, <1>3, UnqueuedCounts
<1>4. CASE /\ rec' = [rec EXCEPT ![i].queued = @ - 1, ![i].active = @ + 1]
           /\ pc' = [pc EXCEPT ![r] = "active"] /\ UNCHANGED on
  <2>1. \A j \in Records :
          /\ rec'[j].queued = rec[j].queued - IF j = i THEN 1 ELSE 0
          /\ rec'[j].active = rec[j].active + IF j = i THEN 1 ELSE 0
          /\ rec'[j].leaving = rec[j].leaving
    BY <1>1, <1>2, <1>4 DEF LoadedModel
  <2>2. CountsMatch'
    BY <1>1, <1>2, <1>4, <2>1, RequestMoves DEF Counts, LoadedModel
  <2>3. VictimsUnused'
    BY <1>1, <1>2, <2>1 DEF Inv, VictimsUnused, InUse, LoadedModel
  <2> QED BY <2>2, <2>3
<1> QED BY <1>3, <1>4 DEF Wake

LEMMA FinishCounts ==
  ASSUME Inv, NEW r \in Requests, Finish(r)
  PROVE  CountsMatch' /\ VictimsUnused'
<1> DEFINE i == on[r]
<1>1. i \in Records /\ ~rec[i].leaving /\ pc[r] = "active"
  BY CountedInUse DEF Finish
<1>2. /\ pc \in [Requests -> {"idle", "check", "try", "place", "wait", "active"}]
      /\ on \in [Requests -> Records \cup {None}]
      /\ rec \in [Records -> LoadedModel] /\ \A j \in Records : rec[j] \in LoadedModel
  BY DEF Inv, TypeOK, RequestType, ViewType
<1>3. \A j \in Records :
        /\ rec'[j].active = rec[j].active - IF j = i THEN 1 ELSE 0
        /\ rec'[j].queued = rec[j].queued
        /\ rec'[j].leaving = rec[j].leaving
  BY <1>1, <1>2 DEF Finish, LoadedModel
<1>4. CountsMatch'
  BY <1>1, <1>2, <1>3, RequestMoves DEF Finish, Leave, Counts, LoadedModel
<1>5. VictimsUnused'
  BY <1>1, <1>2, <1>3 DEF Inv, VictimsUnused, InUse, LoadedModel
<1> QED BY <1>4, <1>5

LEMMA CancelCounts ==
  ASSUME Inv, NEW r \in Requests, Cancel(r)
  PROVE  CountsMatch' /\ VictimsUnused'
<1>1. CASE pc[r] = "wait"
  BY <1>1, UnqueuedCounts DEF Cancel
<1>2. CASE pc[r] # "wait"
  <2>1. pc \in [Requests -> {"idle", "check", "try", "place", "wait", "active"}]
        /\ on \in [Requests -> Records \cup {None}]
    BY DEF Inv, TypeOK, RequestType
  <2> QED BY <1>2, <2>1, CountersStay DEF Cancel, Leave
<1> QED BY <1>1, <1>2

(* The decision of place(): the request that placed the model is queued on  *)
(* its new record, and no model that has just been used is a victim.        *)
LEMMA DecideCounts ==
  ASSUME Inv, NEW r \in Requests, pc[r] = "place",
         NEW conflicts \in SUBSET Records, NEW records \in [Records -> LoadedModel],
         \A i \in Records : /\ records[i].active = rec[i].active
                            /\ records[i].queued = rec[i].queued
                            /\ records[i].leaving = rec[i].leaving,
         Decide(r, conflicts, records)
  PROVE  CountsMatch' /\ VictimsUnused'
<1>1. /\ pc \in [Requests -> {"idle", "check", "try", "place", "wait", "active"}]
      /\ on \in [Requests -> Records \cup {None}] /\ want[r] \in Models
      /\ \A i \in Records : rec[i] \in LoadedModel /\ records[i] \in LoadedModel
  BY DEF Inv, TypeOK, RequestType, ViewType
<1>2. CASE \E i \in conflicts : JustUsed(i)
  BY <1>1, <1>2, CountersStay DEF Decide, LookAgain
<1>3. CASE ~ \E i \in conflicts : JustUsed(i)
  <2> DEFINE new == Fresh(want[r])
  <2>1. /\ rec' = [i \in Records |->
                     IF i = new THEN Placed
                     ELSE [records[i] EXCEPT !.leaving = @ \/ i \in conflicts]]
        /\ on' = [on EXCEPT ![r] = new] /\ pc' = [pc EXCEPT ![r] = "wait"]
        /\ Free(want[r]) # {}
    BY <1>3 DEF Decide
  <2>2. new \in Records /\ \A s \in Requests : on[s] # new
    BY <1>1, <2>1, FreshFree
  <2> HIDE DEF new
  <2>3. rec[new].active = 0 /\ rec[new].queued = 0
    BY <2>2, FreeCounts
  <2>4. Placed.active = 0 /\ Placed.queued = 1 /\ ~Placed.leaving
    BY DEF Placed, Blank
  <2>5. \A i \in Records :
          /\ rec'[i].active = rec[i].active
          /\ rec'[i].queued = rec[i].queued + IF i = new THEN 1 ELSE 0
    BY <1>1, <2>1, <2>2, <2>3, <2>4 DEF LoadedModel
  <2>6. \A s \in Requests \ {r} : pc'[s] = pc[s] /\ on'[s] = on[s]
    BY <1>1, <2>1
  <2>7. CountsMatch'
    BY <1>1, <2>1, <2>2, <2>5, <2>6, RequestMoves DEF Counts, LoadedModel
  <2>8. ASSUME NEW i \in Records, rec'[i].leaving
        PROVE  ~InUse(i)'
    <3>1. i # new
      BY <2>1, <2>4, <2>8
    <3>2. rec[i].leaving \/ i \in conflicts
      BY <1>1, <2>1, <2>8, <3>1 DEF LoadedModel
    <3>3. ~InUse(i)
      BY <1>3, <3>2 DEF JustUsed, Inv, VictimsUnused
    <3> QED BY <1>1, <2>5, <3>1, <3>3 DEF InUse, LoadedModel
  <2> QED BY <2>7, <2>8 DEF VictimsUnused
<1> QED BY <1>2, <1>3

LEMMA ObservedCounts ==
  ASSUME Inv, NEW r \in Requests, lock = r, stage = "observe"
  PROVE  \A i \in Records : /\ Observed(probe.at)[i].active = rec[i].active
                            /\ Observed(probe.at)[i].queued = rec[i].queued
                            /\ Observed(probe.at)[i].leaving = rec[i].leaving
<1>1. \A i \in Records : rec[i] \in LoadedModel
  BY DEF Inv, TypeOK, ViewType
<1>2. rec \in [Records -> LoadedModel] /\ probe.at \in Records
  BY ObserverType DEF Inv, TypeOK, ViewType
<1> QED BY <1>1, <1>2 DEF Observed, LoadedModel

(* A blocked request is on no record. *)
LEMMA BlockedCounts ==
  ASSUME Inv, NEW r \in Requests, pc[r] \in {"try", "place"}, Blocked(r) \/ LookAgain(r)
  PROVE  \A s \in Requests : \/ pc'[s] = pc[s] /\ on'[s] = on[s]
                             \/ {pc[s], pc'[s]} \cap {"wait", "active"} = {}
<1>1. pc \in [Requests -> {"idle", "check", "try", "place", "wait", "active"}]
      /\ on \in [Requests -> Records \cup {None}]
  BY DEF Inv, TypeOK, RequestType
<1> QED BY <1>1 DEF Blocked, LookAgain, Leave

LEMMA PlaceCounts ==
  ASSUME Inv, NEW r \in Requests,
         \/ PlaceKnown(r) \/ PlaceFree(r) \/ PlaceObserve(r) \/ YieldToEarlier(r)
         \/ ObserveFails(r) \/ ObserveWorking(r) \/ ObserveNext(r) \/ ObserveLast(r)
  PROVE  CountsMatch' /\ VictimsUnused'
<1> USE DEF viewVars, reqVars, lockVars
<1>0. rec \in [Records -> LoadedModel]
  BY DEF Inv, TypeOK, ViewType
<1>1. CASE PlaceKnown(r)
  BY <1>1, BlockedCounts, CountersStay DEF PlaceKnown
<1>2. CASE PlaceFree(r)
  BY <1>0, <1>2, DecideCounts DEF PlaceFree
<1>3. CASE PlaceObserve(r)
  BY <1>3, BlockedCounts, CountersStay DEF PlaceObserve
<1>4. CASE YieldToEarlier(r)
  BY <1>4, BlockedCounts, CountersStay DEF YieldToEarlier
<1>5. CASE ObserveFails(r)
  BY <1>5, ObserverType, BlockedCounts, CountersStay DEF ObserveFails, Inv
<1>6. CASE ObserveWorking(r)
  BY <1>6, ObserverType, ObservedCounts, BlockedCounts, CountersStay DEF ObserveWorking, Inv
<1>7. CASE ObserveNext(r)
  BY <1>7, ObserverType, ObservedCounts, BlockedCounts, CountersStay DEF ObserveNext, Inv
<1>8. CASE ObserveLast(r)
  <2> DEFINE records == Observed(probe.at)
  <2>1. /\ pc[r] = "place" /\ probe.conflicts \in SUBSET Records
        /\ records \in [Records -> LoadedModel]
        /\ \A i \in Records : /\ records[i].active = rec[i].active
                              /\ records[i].queued = rec[i].queued
                              /\ records[i].leaving = rec[i].leaving
    BY <1>8, ObserverType, ObservedCounts DEF ObserveLast, Inv, TypeOK, LockType
  <2>2. \/ rec' = records /\ Blocked(r)
        \/ Decide(r, probe.conflicts, records)
    BY <1>8 DEF ObserveLast
  <2> HIDE DEF records
  <2> QED BY <2>1, <2>2, BlockedCounts, DecideCounts, CountersStay
<1> QED BY <1>1, <1>2, <1>3, <1>4, <1>5, <1>6, <1>7, <1>8

(* A record that is put back, or whose task fails, keeps its counters. *)
LEMMA RecordCounts ==
  ASSUME Inv, NEW i \in Records
  PROVE  \A record \in {rec[i], Outlived(rec[i]), GivenUp(i), Settled(i),
                        Outlived(Settled(i)), [rec[i] EXCEPT !.error = TRUE],
                        [rec[i] EXCEPT !.recent = FALSE], [rec[i] EXCEPT !.moved = FALSE],
                        [rec[i] EXCEPT !.moved = TRUE], [Settled(i) EXCEPT !.moved = FALSE]} :
           /\ record.active = rec[i].active /\ record.queued = rec[i].queued
           /\ record.leaving => rec[i].leaving
<1>1. rec[i] \in LoadedModel /\ Settled(i) \in LoadedModel
  BY CounterTypes DEF Inv, TypeOK, ViewType
<1>2. ASSUME NEW record \in LoadedModel
      PROVE  /\ Outlived(record).active = record.active
             /\ Outlived(record).queued = record.queued
             /\ ~Outlived(record).leaving
  BY DEF Outlived, Blank
<1>3. /\ Settled(i).active = rec[i].active /\ Settled(i).queued = rec[i].queued
      /\ Settled(i).leaving = rec[i].leaving
  BY <1>1 DEF Settled, LoadedModel
<1>4. /\ GivenUp(i).active = rec[i].active /\ GivenUp(i).queued = rec[i].queued
      /\ ~GivenUp(i).leaving
  BY <1>1 DEF GivenUp, Outlived, Blank, LoadedModel
<1> QED BY <1>1, <1>2, <1>3, <1>4 DEF LoadedModel

LEMMA TaskCounts ==
  ASSUME Inv, NEW i \in Records, TaskStep(i)
  PROVE  CountsMatch' /\ VictimsUnused'
<1>1. rec \in [Records -> LoadedModel]
  BY DEF Inv, TypeOK, ViewType
<1>2. UNCHANGED <<pc, on>>
  BY DEF TaskStep, AskUnload, AwaitUnloaded, AskLoad, AwaitLoaded, ConfirmFailed,
         RecordBaseline, reqVars
<1>3. ASSUME NEW v \in Records, Removed(i, v)
      PROVE  CountsMatch' /\ VictimsUnused'
  BY <1>1, <1>2, <1>3, RecordCounts, CountersStay DEF Removed
<1>4. ASSUME SwapFails(i)
      PROVE  CountsMatch' /\ VictimsUnused'
  <2>1. ASSUME NEW j \in Records
        PROVE  /\ rec'[j].active = rec[j].active /\ rec'[j].queued = rec[j].queued
               /\ rec'[j].leaving => rec[j].leaving
    BY <1>1, <1>4, RecordCounts DEF SwapFails, LoadedModel
  <2> QED BY <1>2, <2>1, CountersStay
<1>5. ASSUME LoadFails(i) \/ UNCHANGED rec
      PROVE  CountsMatch' /\ VictimsUnused'
  <2>1. ASSUME NEW j \in Records
        PROVE  rec'[j] = rec[j] \/ rec'[j] = [rec[j] EXCEPT !.error = TRUE]
    BY <1>1, <1>5 DEF LoadFails
  <2> QED BY <1>2, <2>1, RecordCounts, CountersStay
<1>6. CASE AskUnload(i)
  BY <1>3, <1>4, <1>5, <1>6 DEF AskUnload, Inv, TypeOK, JobType
<1>7. CASE AwaitUnloaded(i)
  BY <1>3, <1>4, <1>7 DEF AwaitUnloaded, Inv, TypeOK, JobType
<1>8. CASE AskLoad(i) \/ AwaitLoaded(i)
  BY <1>5, <1>8 DEF AskLoad, AwaitLoaded
<1>9. CASE ConfirmFailed(i)
  BY <1>1, <1>2, <1>9, RecordCounts, CountersStay DEF ConfirmFailed
<1>10. CASE RecordBaseline(i)
  <2>1. PICK record \in {Settled(i), [Settled(i) EXCEPT !.moved = FALSE]} :
          rec' = [rec EXCEPT ![i] = record]
    BY <1>10, Zenon DEF RecordBaseline
  <2>2. /\ record.active = rec[i].active /\ record.queued = rec[i].queued
        /\ record.leaving => rec[i].leaving
    BY RecordCounts
  <2>3. ASSUME NEW j \in Records
        PROVE  /\ rec'[j].active = rec[j].active /\ rec'[j].queued = rec[j].queued
               /\ rec'[j].leaving => rec[j].leaving
    BY <1>1, <2>1, <2>2
  <2> QED BY <1>2, <2>3, CountersStay
<1> QED BY <1>6, <1>7, <1>8, <1>9, <1>10 DEF TaskStep

(* A survey ends: its request had not been counted yet. *)
LEMMA TrackCounts ==
  ASSUME Inv, NEW todo, NEW ready, NEW unfit, stage \in {"survey", "track"},
         Track(todo, ready, unfit)
  PROVE  \A r \in Requests : \/ pc'[r] = pc[r] /\ on'[r] = on[r]
                             \/ {pc[r], pc'[r]} \cap {"wait", "active"} = {}
<1>1. /\ pc \in [Requests -> {"idle", "check", "try", "place", "wait", "active"}]
      /\ on \in [Requests -> Records \cup {None}]
      /\ lock # Boot => lock \in Requests /\ pc[lock] = "check"
  BY DEF Inv, TypeOK, RequestType, LockType
<1> QED BY <1>1 DEF Track, Leave, Enter, reqVars

LEMMA MergeCounts ==
  ASSUME Inv, Merge
  PROVE  CountsMatch' /\ VictimsUnused'
<1>1. \A r \in Requests : \/ pc'[r] = pc[r] /\ on'[r] = on[r]
                          \/ {pc[r], pc'[r]} \cap {"wait", "active"} = {}
  BY TrackCounts DEF Merge
<1>2. ASSUME NEW i \in Records
      PROVE  /\ rec'[i].active = rec[i].active /\ rec'[i].queued = rec[i].queued
             /\ rec'[i].leaving => rec[i].leaving
  <2> DEFINE m == ModelOf[i]
  <2>1. rec'[i] = IF m \in ToAdopt /\ i = Fresh(m) THEN Adopted(scan.seen[m])
                  ELSE IF i = loaded[m] /\ i # loaded'[m] /\ job[i].at = "none"
                    THEN Outlived(rec[i]) ELSE rec[i]
    BY DEF Merge
  <2>2. CASE m \in ToAdopt /\ i = Fresh(m)
    <3>1. \A r \in Requests : on[r] # i
      BY <2>2, FreshFree DEF Merge, ToAdopt
    <3>2. /\ Adopted(scan.seen[m]).active = 0 /\ Adopted(scan.seen[m]).queued = 0
          /\ ~Adopted(scan.seen[m]).leaving
      BY DEF Adopted, Blank
    <3> QED BY <2>1, <2>2, <3>1, <3>2, FreeCounts
  <2>3. CASE ~(m \in ToAdopt /\ i = Fresh(m))
    BY <2>1, <2>3, RecordCounts
  <2> QED BY <2>2, <2>3
<1> QED BY <1>1, <1>2, CountersStay

LEMMA OtherCounts ==
  ASSUME Inv,
         \/ \E r \in Requests : \/ \E m \in Models : Arrive(r, m)
                                \/ CheckRouter(r) \/ AskLock(r) \/ Deadline(r)
         \/ \E b \in Backends : SurveyRead(b)
         \/ TrackNext
         \/ \E m \in Models : Expire(m) \/ ServerStep(m)
         \/ UNCHANGED vars
  PROVE  CountsMatch' /\ VictimsUnused'
<1> USE DEF vars, viewVars, reqVars, lockVars
<1>1. /\ pc \in [Requests -> {"idle", "check", "try", "place", "wait", "active"}]
      /\ on \in [Requests -> Records \cup {None}]
      /\ rec \in [Records -> LoadedModel]
  BY DEF Inv, TypeOK, RequestType, ViewType
<1>2. ASSUME NEW r \in Requests, \/ \E m \in Models : Arrive(r, m)
                                 \/ CheckRouter(r) \/ AskLock(r) \/ Deadline(r)
      PROVE  CountsMatch' /\ VictimsUnused'
  <2>1. UNCHANGED rec
    BY <1>2 DEF Arrive, CheckRouter, AskLock, Deadline
  <2>2. \A s \in Requests : \/ pc'[s] = pc[s] /\ on'[s] = on[s]
                            \/ {pc[s], pc'[s]} \cap {"wait", "active"} = {}
    BY <1>1, <1>2 DEF Arrive, CheckRouter, AskLock, Deadline, Enter
  <2> QED BY <2>1, <2>2, CountersStay
<1>3. CASE TrackNext
  <2>1. scan.at \in Records
    BY <1>3 DEF TrackNext, Inv, TypeOK, LockType
  <2>2. \A i \in Records : /\ rec'[i].active = rec[i].active
                           /\ rec'[i].queued = rec[i].queued
                           /\ rec'[i].leaving => rec[i].leaving
    <3>1. ASSUME NEW i \in Records
          PROVE  rec'[i] = rec[i] \/ rec'[i] = [rec[i] EXCEPT !.moved = FALSE]
      BY <1>1, <1>3, <2>1 DEF TrackNext
    <3> QED BY <3>1, RecordCounts
  <2> QED BY <1>3, <2>2, TrackCounts, CountersStay DEF TrackNext
<1>4. ASSUME NEW m \in Models, Expire(m) \/ ServerStep(m)
      PROVE  CountsMatch' /\ VictimsUnused'
  <2>1. UNCHANGED <<pc, on>>
    BY <1>4 DEF Expire, ServerStep, ServerLoads, ServerUnloads, ServerFails, OutsideWork,
                Becomes
  <2>2. \A i \in Records : /\ rec'[i].active = rec[i].active
                           /\ rec'[i].queued = rec[i].queued
                           /\ rec'[i].leaving => rec[i].leaving
    <3>1. ASSUME NEW i \in Records
          PROVE  \/ rec'[i] = rec[i]
                 \/ rec'[i] = [rec[i] EXCEPT !.moved = TRUE]
                 \/ rec'[i] = [rec[i] EXCEPT !.recent = FALSE]
      BY <1>1, <1>4
         DEF Expire, ServerStep, ServerLoads, ServerUnloads, ServerFails, OutsideWork, Becomes
    <3> QED BY <3>1, RecordCounts
  <2> QED BY <2>1, <2>2, CountersStay
<1>5. CASE (\E b \in Backends : SurveyRead(b)) \/ UNCHANGED vars
  BY <1>5, CountersStay DEF SurveyRead
<1> QED BY <1>2, <1>3, <1>4, <1>5

LEMMA RestartCounts ==
  ASSUME Inv, Restart
  PROVE  CountsMatch' /\ VictimsUnused'
<1>1. \A i \in Records : rec'[i] = Blank
  BY DEF Restart
<1>2. \A i \in Records : OnRecord(i, "active")' = {} /\ OnRecord(i, "wait")' = {}
  BY DEF Restart, OnRecord
<1>3. Blank.active = 0 /\ Blank.queued = 0 /\ ~Blank.leaving
  BY DEF Blank
<1>4. CountsMatch'
  BY <1>1, <1>2, <1>3, FS_EmptySet DEF CountsMatch
<1> QED BY <1>1, <1>3, <1>4 DEF VictimsUnused

LEMMA InitInv == Init => Inv
<1> SUFFICES ASSUME Init PROVE Inv
  OBVIOUS
<1>1. \A i \in Records : rec[i] = Blank
  BY DEF Init
<1>2. \A i \in Records : OnRecord(i, "active") = {} /\ OnRecord(i, "wait") = {}
  BY DEF Init, OnRecord
<1>3. Blank.active = 0 /\ Blank.queued = 0 /\ ~Blank.leaving
  BY DEF Blank
<1>4. CountsMatch
  BY <1>1, <1>2, <1>3, FS_EmptySet DEF CountsMatch
<1> QED BY <1>1, <1>3, <1>4, InitType DEF Inv, VictimsUnused

LEMMA StepInv == Inv /\ [Next]_vars => Inv'
<1> SUFFICES ASSUME Inv, [Next]_vars PROVE Inv'
  OBVIOUS
<1>1. TypeOK'
  BY StepType DEF Inv
<1>2. CountsMatch' /\ VictimsUnused'
  <2>1. ASSUME NEW r \in Requests, RequestStep(r) PROVE CountsMatch' /\ VictimsUnused'
    BY <2>1, JoinCounts, PlaceCounts, WakeCounts, FinishCounts, CancelCounts, OtherCounts
       DEF RequestStep
  <2> QED BY <2>1, TaskCounts, MergeCounts, OtherCounts, RestartCounts DEF Next
<1> QED BY <1>1, <1>2 DEF Inv

(* The counters of every record are the requests on it: no admission is     *)
(* counted twice, lost, or released twice.                                  *)
THEOREM CountersCorrect == Spec => []CountsMatch
<1>1. Inv => CountsMatch
  BY DEF Inv
<1> QED BY <1>1, InitInv, StepInv, PTL DEF Spec

(* A model that a swap has chosen to unload has no request admitted to it   *)
(* or queued on it.                                                         *)
THEOREM VictimsNeverUsed == Spec => []VictimsUnused
<1>1. Inv => VictimsUnused
  BY DEF Inv
<1> QED BY <1>1, InitInv, StepInv, PTL DEF Spec

-----------------------------------------------------------------------------
(* The order of arrival *)

(* A request that has asked for the lock has no rival in line before it.    *)
InOrder ==
  \A r \in Requests : pc[r] = "place" =>
    \A s \in ahead[r] : want[s] \notin Rivals(want[r])

(* Nobody asks for the lock, and nobody waiting in line changes its model.  *)
LEMMA OrderStays ==
  ASSUME InOrder,
         \A r \in Requests : pc'[r] = "place" =>
           /\ pc[r] = "place" /\ want'[r] = want[r] /\ ahead'[r] \subseteq ahead[r]
           /\ \A s \in ahead'[r] : want'[s] = want[s]
  PROVE  InOrder'
BY DEF InOrder, Rivals

LEMMA LeaveOrder ==
  ASSUME RequestType, InOrder, NEW q \in Requests, Leave(q),
         \/ Withdraw(q)
         \/ q \notin Tickets /\ UNCHANGED ahead
  PROVE  InOrder'
<1>1. ASSUME NEW r \in Requests, pc'[r] = "place"
      PROVE  /\ pc[r] = "place" /\ want'[r] = want[r] /\ ahead'[r] \subseteq ahead[r]
             /\ \A s \in ahead'[r] : want'[s] = want[s]
  BY <1>1 DEF RequestType, Leave, Withdraw
<1> QED BY <1>1, OrderStays

LEMMA EnterOrder ==
  ASSUME RequestType, InOrder, NEW q \in Requests, q \notin Tickets, Enter(q),
         \A s \in Requests \ {q} : want'[s] = want[s]
  PROVE  InOrder'
<1>1. ASSUME NEW r \in Requests, pc'[r] = "place"
      PROVE  /\ pc[r] = "place" /\ want'[r] = want[r] /\ ahead'[r] \subseteq ahead[r]
             /\ \A s \in ahead'[r] : want'[s] = want[s]
  BY <1>1 DEF RequestType, Enter
<1> QED BY <1>1, OrderStays

(* The request looks again, or is refused. *)
LEMMA BlockedOrder ==
  ASSUME RequestType, InOrder, NEW q \in Requests, Blocked(q) \/ LookAgain(q)
  PROVE  InOrder'
<1>1. CASE Leave(q) /\ Withdraw(q)
  BY <1>1, LeaveOrder
<1>2. CASE LookAgain(q)
  BY <1>2, OrderStays DEF LookAgain, RequestType
<1> QED BY <1>1, <1>2 DEF Blocked, LookAgain

LEMMA DecideOrder ==
  ASSUME RequestType, InOrder, NEW q \in Requests, NEW conflicts, NEW records,
         Decide(q, conflicts, records)
  PROVE  InOrder'
<1>1. CASE LookAgain(q)
  BY <1>1, BlockedOrder
<1>2. CASE pc' = [pc EXCEPT ![q] = "wait"] /\ Withdraw(q) /\ UNCHANGED want
  BY <1>2, OrderStays DEF RequestType, Withdraw
<1> QED BY <1>1, <1>2 DEF Decide

LEMMA RequestOrder ==
  ASSUME TypeOK, InOrder, NEW r \in Requests, RequestStep(r)
  PROVE  InOrder'
<1> USE DEF TypeOK, viewVars, reqVars, lockVars
<1>1. ASSUME NEW m \in Models, Arrive(r, m) PROVE InOrder'
  <2>1. r \notin Tickets /\ \A s \in Requests \ {r} : want'[s] = want[s]
    BY <1>1 DEF Arrive, Tickets, RequestType
  <2>2. CASE Enter(r)
    BY <2>1, <2>2, EnterOrder
  <2>3. CASE pc' = [pc EXCEPT ![r] = "check"] /\ UNCHANGED ahead
    BY <2>1, <2>3, OrderStays DEF RequestType
  <2> QED BY <1>1, <2>2, <2>3 DEF Arrive
<1>2. CASE CheckRouter(r)
  BY <1>2, EnterOrder, OrderStays DEF CheckRouter, Tickets
<1>3. CASE Join(r)
  <2>1. CASE Leave(r) /\ Withdraw(r)
    BY <2>1, LeaveOrder
  <2>2. CASE /\ pc' = [pc EXCEPT ![r] = "active"] \/ pc' = [pc EXCEPT ![r] = "wait"]
             /\ Withdraw(r) /\ UNCHANGED want
    BY <2>2, OrderStays DEF RequestType, Withdraw
  <2> QED BY <1>3, <2>1, <2>2 DEF Join, Admit
<1>4. CASE YieldToEarlier(r) \/ PlaceKnown(r)
  BY <1>4, BlockedOrder DEF YieldToEarlier, PlaceKnown
<1>5. CASE AskLock(r)
  <2>1. ASSUME NEW q \in Requests, pc'[q] = "place", NEW s \in ahead'[q]
        PROVE  want'[s] \notin Rivals(want'[q])
    BY <1>5, <2>1 DEF AskLock, EarlierRival, InOrder, RequestType
  <2> QED BY <1>5, <2>1 DEF InOrder, AskLock, Rivals
<1>6. CASE Deadline(r)
  BY <1>6, OrderStays DEF Deadline
<1>7. CASE PlaceFree(r)
  BY <1>7, DecideOrder DEF PlaceFree
<1>8. CASE PlaceObserve(r)
  BY <1>8, BlockedOrder, OrderStays DEF PlaceObserve
<1>9. CASE ObserveFails(r) \/ ObserveWorking(r)
  BY <1>9, BlockedOrder DEF ObserveFails, ObserveWorking
<1>10. CASE ObserveNext(r)
  BY <1>10, BlockedOrder, OrderStays DEF ObserveNext
<1>11. CASE ObserveLast(r)
  BY <1>11, BlockedOrder, DecideOrder DEF ObserveLast
<1>12. CASE Wake(r)
  <2>1. r \notin Tickets
    BY <1>12 DEF Wake, Tickets
  <2>2. CASE Leave(r)
    BY <1>12, <2>1, <2>2, LeaveOrder DEF Wake
  <2>3. CASE pc' = [pc EXCEPT ![r] = "active"] /\ UNCHANGED want
    BY <1>12, <2>3, OrderStays DEF Wake, RequestType
  <2> QED BY <1>12, <2>2, <2>3 DEF Wake
<1>13. CASE Finish(r)
  BY <1>13, LeaveOrder DEF Finish, Tickets
<1>14. CASE Cancel(r)
  BY <1>14, LeaveOrder DEF Cancel
<1> QED
  BY <1>1, <1>2, <1>3, <1>4, <1>5, <1>6, <1>7, <1>8, <1>9, <1>10, <1>11, <1>12, <1>13, <1>14
     DEF RequestStep

LEMMA TrackOrder ==
  ASSUME TypeOK, InOrder, NEW todo, NEW ready, NEW unfit, stage \in {"survey", "track"},
         Track(todo, ready, unfit)
  PROVE  InOrder'
<1>1. lock # Boot => lock \in Requests /\ lock \notin Tickets
  BY DEF TypeOK, LockType, Tickets
<1>2. CASE UNCHANGED reqVars
  BY <1>2, OrderStays DEF reqVars
<1>3. CASE lock # Boot /\ Leave(lock) /\ UNCHANGED ahead
  BY <1>1, <1>3, LeaveOrder DEF TypeOK
<1>4. CASE lock # Boot /\ Enter(lock) /\ UNCHANGED want
  BY <1>1, <1>4, EnterOrder DEF TypeOK
<1> QED BY <1>2, <1>3, <1>4 DEF Track

LEMMA StepOrder == TypeOK /\ InOrder /\ [Next]_vars => InOrder'
<1> SUFFICES ASSUME TypeOK, InOrder, [Next]_vars PROVE InOrder'
  OBVIOUS
<1>1. CASE Restart
  BY <1>1 DEF Restart, InOrder
<1>2. CASE Merge
  <2> DEFINE todo == {Fresh(m) : m \in ToAdopt}
             ready == {Fresh(m) : m \in {k \in ToAdopt : scan.seen[k] = "loaded"}}
  <2>1. stage = "survey" /\ Track(todo, ready, problems')
    BY <1>2 DEF Merge
  <2> HIDE DEF todo, ready
  <2> QED BY <2>1, TrackOrder
<1>6. CASE TrackNext
  BY <1>6, TrackOrder DEF TrackNext
<1>3. CASE UNCHANGED reqVars
  BY <1>3, OrderStays DEF reqVars
<1>4. ASSUME NEW r \in Requests, RequestStep(r) PROVE InOrder'
  BY <1>4, RequestOrder
<1>5. ASSUME \/ \E i \in Records : TaskStep(i)
             \/ \E b \in Backends : SurveyRead(b)
             \/ \E m \in Models : Expire(m) \/ ServerStep(m)
             \/ UNCHANGED vars
      PROVE  UNCHANGED reqVars
  BY <1>5 DEF TaskStep, AskUnload, AwaitUnloaded, AskLoad, AwaitLoaded, ConfirmFailed,
              RecordBaseline, SurveyRead, Expire, ServerStep, ServerLoads, ServerUnloads,
              ServerFails, OutsideWork, Becomes, vars
<1> QED BY <1>1, <1>2, <1>3, <1>4, <1>5, <1>6 DEF Next

(* A model is placed only for a request with no earlier waiting request for *)
(* a conflicting model, however many awaits lie between the look at the     *)
(* queue and the decision.                                                  *)
THEOREM ArrivalKept == Spec => ArrivalOrder
<1>1. Init => InOrder
  BY DEF Init, InOrder
<1>2. InOrder =>
        \A r, s \in Requests :
          pc[r] = "place" /\ pc'[r] = "wait" /\ s \in ahead[r] =>
            want[s] \notin Rivals(want[r])
  BY DEF InOrder
<1> QED BY <1>1, <1>2, TypeCorrect, StepOrder, PTL DEF Spec, ArrivalOrder

=============================================================================
