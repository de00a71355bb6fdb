------------------------ MODULE ServiceControlProofs ------------------------
(***************************************************************************)
(* Theorems about ServiceControl, for any models of the service, threads   *)
(* of the helper and bounds: types and the lock, that a model whose        *)
(* container runs keeps its resources, and what a container is stopped for. *)
(***************************************************************************)
EXTENDS ServiceControl, TLAPS

Changes(op) == op \in {"start", "stop"}

(* The threads that change the container, for the broker or for nobody. *)
Busy == {t \in Threads : Changes(thread[t].op)}

(* A container that runs is some model's, and so is one that is said to, or *)
(* asked to.                                                                *)
Named ==
  /\ Occupying(container.state) => container.model # None
  /\ task.answer # None /\ Occupying(task.answer.state) => task.answer.model # None
  /\ \A t \in Threads : thread[t].op = "start" => thread[t].model # None

(* A record that is being loaded, or whose failure is being confirmed, is    *)
(* what it was taken for; so no survey drops it.                            *)
Kept(op, m, k) ==
  /\ op = "load" => k[m] = "loading"
  /\ op = "confirm" => k[m] = "failing"

(* The broker awaits one answer at a time; a task is about a model, and     *)
(* asks for a change that is its own to ask; and only who asks for one is   *)
(* made to wait for the lock.                                               *)
Asked ==
  /\ \A t \in Threads : thread[t].at = "lock" => Changes(thread[t].op)
  /\ task.answer # None => task.call = None
  /\ task.op \in {"load", "unload", "confirm"} => task.model # None
  /\ Kept(task.op, task.model, known)
  /\ \A t \in Threads : task.call = t =>
       /\ thread[t].op = "start" => task.op = "load" /\ thread[t].model = task.model
       /\ thread[t].op = "stop" => task.op = "unload"

(* An answer that nothing abandoned has raced with is not overtaken: nobody *)
(* changes the container, which at most ends by itself.                     *)
Fresh ==
  ~task.raced /\ task.answer # None /\ task.answer.state # "failed" =>
    /\ Busy = {}
    /\ Occupying(container.state) =>
         Occupying(task.answer.state) /\ task.answer.model = container.model

(* Nor is the change that was asked for after such an answer: it is alone,  *)
(* and finds at most the model it is about.                                 *)
Sole ==
  ~task.raced =>
    \A t \in Busy : task.call = t =>
      /\ Busy = {t}
      /\ Occupying(container.state) => container.model = task.model

(* Whatever may yet be started, for the broker or for nobody, holds its     *)
(* resources, like what runs.  Holding(k, sight, wrong) : if the records    *)
(* were k; sight means that the broker has not read the service yet, wrong  *)
(* that it may have been misled.                                            *)
Holding(k, sight, wrong) ==
  ~sight /\ ~wrong =>
    /\ \A t \in Threads : thread[t].op = "start" => k[thread[t].model] # "no"
    /\ Holder => k[container.model] # "no"

(* Nor is what a survey has read overtaken, as long as no load has ended:   *)
(* what may yet be started, and what runs although it was not listed, is    *)
(* the model that the task is about.                                        *)
Current(l, wrong, op, m) ==
  l # None /\ ~wrong /\ ~l.old =>
    /\ \A t \in Threads : thread[t].op = "start" =>
         op \in {"load", "confirm"} /\ m = thread[t].model
    /\ Holder => \/ l.model = container.model
                 \/ op \in {"load", "confirm"} /\ m = container.model

SInv ==
  /\ TypeOK /\ Named /\ Asked
  /\ task.raced => misled
  /\ Fresh /\ Sole
  /\ Holding(known, blind, misled \/ overtaken)
  /\ Current(look, misled, task.op, task.model)

-----------------------------------------------------------------------------
(* What the kinds of step keep *)

(* The container changes by itself, or as a thread has been asked to change *)
(* it; threads go on with what they were asked.                             *)
LEMMA ContainerMoves ==
  ASSUME SInv, TypeOK', UNCHANGED <<task, known, look, blind, misled, overtaken>>,
         \A t \in Threads :
           /\ thread'[t].op = thread[t].op /\ thread'[t].model = thread[t].model
           /\ thread'[t].at = "lock" => thread[t].at = "lock",
         Occupying(container'.state) =>
           \/ Occupying(container.state) /\ container'.model = container.model
           \/ \E t \in Threads : thread[t].op = "start" /\ container'.model = thread[t].model
  PROVE  SInv'
<1>1. Busy' = Busy
  BY DEF Busy
<1>2. Named'
  BY DEF SInv, Named
<1>3. Asked'
  BY DEF SInv, Asked
<1>4. Fresh'
  <2>1. Busy = {} => ~\E t \in Threads : thread[t].op = "start"
    BY DEF Busy, Changes
  <2>. QED
    BY <1>1, <2>1 DEF SInv, Fresh
<1>5. Sole'
  <2> SUFFICES ASSUME ~task.raced, NEW t \in Busy, task.call = t
               PROVE  /\ Busy = {t}
                      /\ Occupying(container'.state) => container'.model = task.model
    BY <1>1 DEF Sole
  <2>1. Busy = {t} /\ (Occupying(container.state) => container.model = task.model)
    BY DEF SInv, Sole
  <2>2. \A u \in Threads : thread[u].op = "start" => u = t
    BY <2>1 DEF Busy, Changes
  <2>3. t \in Threads /\ (thread[t].op = "start" => thread[t].model = task.model)
    BY DEF SInv, Asked, Busy
  <2>. QED
    BY <2>1, <2>2, <2>3
<1>6. Holding(known, blind, misled \/ overtaken)'
  BY DEF SInv, Holding, Holder
<1>7. Current(look, misled, task.op, task.model)'
  BY DEF SInv, Current, Holder
<1>. QED
  BY <1>2, <1>3, <1>4, <1>5, <1>6, <1>7 DEF SInv

(* A thread is done, with what is true of the container or with no answer.  *)
LEMMA AnswerGiven ==
  ASSUME SInv, NEW t \in Threads, NEW answer \in Answer, Finish(t, answer),
         UNCHANGED <<container, known, look, blind, overtaken>>, TypeOK',
         Occupying(answer.state) => answer.model # None,
         \/ answer.state = "failed"
         \/ Occupying(container.state) =>
              Occupying(answer.state) /\ answer.model = container.model
  PROVE  SInv'
<1>1. thread \in [Threads -> ThreadType] /\ task \in TaskType /\ None \notin Threads
  BY ServiceAssumption DEF SInv, TypeOK, ServiceAssumption
<1>2. /\ thread'[t] = Resting
      /\ \A u \in Threads : u # t => thread'[u] = thread[u]
  BY <1>1 DEF Finish
<1>3. Resting.op = "none" /\ Resting.at = "none"
  BY DEF Resting
<1>4. Busy' = Busy \ {t}
  BY <1>2, <1>3 DEF Busy, Changes
<1>5. CASE task.call = t
  <2>1. /\ task' = [task EXCEPT !.call = None, !.answer = answer,
                                !.raced = @ \/ Abandoned # {}]
        /\ misled' = (misled \/ Abandoned # {})
    BY <1>5 DEF Finish
  <2>2. Abandoned = Busy \ {t}
    BY <1>5 DEF Abandoned, Busy, Changes
  <2>3. /\ task'.op = task.op /\ task'.model = task.model /\ task'.call = None
        /\ task'.answer = answer /\ task'.raced = (task.raced \/ Busy \ {t} # {})
    BY <1>1, <2>1, <2>2 DEF TaskType
  <2>4. misled' = (misled \/ Busy \ {t} # {})
    BY <2>1, <2>2
  <2> HIDE DEF Busy
  <2>5. Named'
    BY <1>2, <1>3, <2>3 DEF SInv, Named
  <2>6. Asked'
    BY <1>1, <1>2, <1>3, <2>3 DEF SInv, Asked, Kept
  <2>7. Fresh'
    BY <1>4, <2>3 DEF Fresh
  <2>8. Sole'
    BY <1>1, <1>4, <2>3 DEF Sole, Busy
  <2>9. /\ Holding(known, blind, misled \/ overtaken)'
        /\ Current(look, misled, task.op, task.model)'
    BY <1>2, <1>3, <2>3, <2>4 DEF SInv, Holding, Holder, Current
  <2>10. (task.raced => misled)'
    BY <2>3, <2>4 DEF SInv
  <2>. QED
    BY <2>5, <2>6, <2>7, <2>8, <2>9, <2>10 DEF SInv
<1>6. CASE task.call # t
  <2>1. UNCHANGED <<task, misled>>
    BY <1>6 DEF Finish
  <2>2. Named'
    BY <1>2, <1>3, <2>1 DEF SInv, Named
  <2>3. Asked'
    BY <1>2, <1>3, <2>1 DEF SInv, Asked
  <2>4. Fresh'
    BY <1>4, <2>1 DEF SInv, Fresh
  <2>5. Sole'
    BY <1>4, <1>6, <2>1 DEF SInv, Sole
  <2>6. /\ Holding(known, blind, misled \/ overtaken)'
        /\ Current(look, misled, task.op, task.model)'
    BY <1>2, <1>3, <2>1 DEF SInv, Holding, Holder, Current
  <2>. QED
    BY <2>1, <2>2, <2>3, <2>4, <2>5, <2>6 DEF SInv
<1>. QED
  BY <1>5, <1>6

(* What the broker takes the service for: types, and an error that it has   *)
(* made is not forgotten.                                                   *)
WellViewed ==
  /\ known' \in [Models -> Views] /\ look' \in LookType \cup {None}
  /\ {blind', misled', overtaken'} \subseteq BOOLEAN
  /\ misled => misled'

(* The task awaits no call and has no answer; threads go on.                *)
LEMMA TaskRests ==
  ASSUME SInv, UNCHANGED <<container, thread, mutex>>, WellViewed,
         task' \in TaskType, task'.call = None, task'.answer = None, task'.raced => misled',
         task'.op \in {"load", "unload", "confirm"} => task'.model # None,
         Kept(task'.op, task'.model, known'),
         Holding(known', blind', misled' \/ overtaken'),
         Current(look', misled', task'.op, task'.model)
  PROVE  SInv'
<1>1. TypeOK'
  BY DEF SInv, TypeOK, WellViewed
<1>2. Named'
  BY DEF SInv, Named
<1>3. Asked' /\ Sole'
  BY ServiceAssumption DEF ServiceAssumption, SInv, Asked, Kept, Sole, Busy
<1>4. Fresh' /\ (task.raced => misled)'
  BY DEF Fresh
<1>5. /\ Holding(known, blind, misled \/ overtaken)'
      /\ Current(look, misled, task.op, task.model)'
  BY DEF Holding, Holder, Current
<1>. QED
  BY <1>1, <1>2, <1>3, <1>4, <1>5 DEF SInv

(* The task goes on, but for the record that it is about.                   *)
LEMMA ViewsMove ==
  ASSUME SInv, UNCHANGED <<container, thread, mutex>>, WellViewed,
         task' = task \/ \E own \in BOOLEAN : task' = [task EXCEPT !.own = own],
         Kept(task.op, task.model, known'),
         Holding(known', blind', misled' \/ overtaken'),
         Current(look', misled', task.op, task.model)
  PROVE  SInv'
<1>1. /\ task' \in TaskType /\ task'.op = task.op /\ task'.model = task.model
      /\ task'.call = task.call /\ task'.answer = task.answer /\ task'.raced = task.raced
  BY DEF SInv, TypeOK, TaskType
<1>2. TypeOK'
  BY <1>1 DEF SInv, TypeOK, WellViewed
<1>3. Named' /\ Asked'
  BY <1>1 DEF SInv, Named, Asked, Kept
<1>4. Fresh' /\ Sole' /\ (task.raced => misled)'
  BY <1>1 DEF SInv, Fresh, Sole, Busy, WellViewed
<1>5. /\ Holding(known, blind, misled \/ overtaken)'
      /\ Current(look, misled, task.op, task.model)'
  BY <1>1 DEF Holding, Holder, Current
<1>. QED
  BY <1>2, <1>3, <1>4, <1>5 DEF SInv

(* A call of the broker gets a thread that rests. *)
LEMMA ThreadAsked ==
  ASSUME TypeOK, NEW op \in {"status", "start", "stop"}, NEW next \in TaskType,
         Ask(op, next)
  PROVE  \E t \in Threads :
           /\ thread[t].op = "none"
           /\ thread' \in [Threads -> ThreadType]
           /\ \A u \in Threads : u # t => thread'[u] = thread[u]
           /\ thread'[t].op = op
           /\ thread'[t].at = IF op = "status" THEN "list" ELSE "lock"
           /\ op = "start" => thread'[t].model = next.model
           /\ task' \in TaskType
           /\ task'.op = next.op /\ task'.model = next.model /\ task'.raced = next.raced
           /\ task'.call = t /\ task'.answer = None
<1> DEFINE at == IF op = "status" THEN "list" ELSE "lock"
           model == IF op = "start" THEN next.model ELSE None
           waited == op # "status" /\ mutex # None
           asked == [Resting EXCEPT !.op = op, !.at = at, !.model = model,
                                    !.waited = waited]
<1>1. PICK t \in Threads :
        /\ thread[t] = Resting
        /\ thread' = [thread EXCEPT ![t] =
             [Resting EXCEPT !.op = op, !.at = at, !.model = model, !.waited = waited]]
        /\ task' = [next EXCEPT !.call = t, !.answer = None]
  BY DEF Ask
<1>2. asked \in ThreadType /\ asked.op = op /\ asked.at = at /\ asked.model = model
  <2>1. /\ at \in {"none", "lock", "compose", "list", "inspect"}
        /\ model \in Models \cup {None} /\ waited \in BOOLEAN
    BY DEF TaskType
  <2>2. Resting \in ThreadType
    BY DEF Resting, ThreadType
  <2> HIDE DEF at, model, waited
  <2>. QED
    BY <2>1, <2>2 DEF ThreadType
<1>3. asked.op = op /\ asked.at = (IF op = "status" THEN "list" ELSE "lock")
      /\ (op = "start" => asked.model = next.model)
  BY <1>2
<1>4. thread \in [Threads -> ThreadType] /\ thread[t].op = "none"
  BY <1>1 DEF TypeOK, Resting
<1>5. thread' = [thread EXCEPT ![t] = asked]
  BY <1>1
<1>6. /\ thread' \in [Threads -> ThreadType] /\ thread'[t] = asked
      /\ \A u \in Threads : u # t => thread'[u] = thread[u]
  <2> HIDE DEF asked
  <2>. QED
    BY <1>2, <1>4, <1>5
<1>7. /\ task' \in TaskType
      /\ task'.op = next.op /\ task'.model = next.model /\ task'.raced = next.raced
      /\ task'.call = t /\ task'.answer = None
  BY <1>1 DEF TaskType
<1>. QED
  BY <1>3, <1>4, <1>6, <1>7

(* A call asks for the status. *)
LEMMA StatusAsked ==
  ASSUME SInv, NEW next \in TaskType, Ask("status", next),
         UNCHANGED <<container, mutex, misled>>, WellViewed, next.raced => misled,
         next.op \in {"load", "unload", "confirm"} => next.model # None,
         Kept(next.op, next.model, known'),
         Holding(known', blind', misled \/ overtaken'),
         Current(look', misled, next.op, next.model)
  PROVE  SInv'
<1>1. PICK t \in Threads :
        /\ thread[t].op = "none"
        /\ thread' \in [Threads -> ThreadType]
        /\ \A u \in Threads : u # t => thread'[u] = thread[u]
        /\ thread'[t].op = "status" /\ thread'[t].at = "list"
        /\ task' \in TaskType
        /\ task'.op = next.op /\ task'.model = next.model /\ task'.raced = next.raced
        /\ task'.call = t /\ task'.answer = None
  BY ThreadAsked DEF SInv
<1>2. TypeOK'
  BY <1>1 DEF SInv, TypeOK, WellViewed
<1>3. Named'
  BY <1>1 DEF SInv, Named
<1>4. Asked' /\ Sole'
  BY <1>1 DEF SInv, Asked, Kept, Sole, Busy, Changes
<1>5. Fresh' /\ (task.raced => misled)'
  BY <1>1 DEF Fresh
<1>6. /\ Holding(known, blind, misled \/ overtaken)'
      /\ Current(look, misled, task.op, task.model)'
  BY <1>1 DEF Holding, Holder, Current
<1>. QED
  BY <1>2, <1>3, <1>4, <1>5, <1>6 DEF SInv

(* A call asks for a change, after an answer that lets it.                  *)
LEMMA ChangeAsked ==
  ASSUME SInv, NEW op \in {"start", "stop"}, Change(op),
         UNCHANGED <<container, mutex, known, look, blind, misled, overtaken>>,
         task.op = IF op = "start" THEN "load" ELSE "unload",
         task.answer # None, Clear(task.answer, task.model),
         op = "start" => ~Occupying(task.answer.state)
  PROVE  SInv'
<1> DEFINE next == [task EXCEPT !.at = "change"]
<1>1. task \in TaskType
  BY DEF SInv, TypeOK
<1>2. /\ next \in TaskType /\ next.op = task.op /\ next.model = task.model
      /\ next.raced = task.raced
  BY <1>1 DEF TaskType
<1>3. Ask(op, next)
  BY DEF Change
<1> HIDE DEF next
<1>4. PICK t \in Threads :
        /\ thread[t].op = "none"
        /\ thread' \in [Threads -> ThreadType]
        /\ \A u \in Threads : u # t => thread'[u] = thread[u]
        /\ thread'[t].op = op /\ thread'[t].at = "lock"
        /\ op = "start" => thread'[t].model = task.model
        /\ task' \in TaskType
        /\ task'.op = task.op /\ task'.model = task.model /\ task'.raced = task.raced
        /\ task'.call = t /\ task'.answer = None
  BY <1>2, <1>3, ThreadAsked DEF SInv
<1>5. task.model # None /\ (op = "start" => known[task.model] = "loading")
  BY DEF SInv, Asked, Kept
<1>6. TypeOK'
  BY <1>4 DEF SInv, TypeOK
<1>7. Named'
  BY <1>4, <1>5 DEF SInv, Named
<1>8. Asked'
  BY <1>4, <1>5 DEF SInv, Asked, Kept, Changes
<1>9. Sole'
  <2> SUFFICES ASSUME ~task.raced
               PROVE  /\ Busy' = {t}
                      /\ Occupying(container.state) => container.model = task.model
    BY <1>4 DEF Sole
  <2>1. /\ Busy = {}
        /\ Occupying(container.state) =>
             Occupying(task.answer.state) /\ task.answer.model = container.model
    BY DEF SInv, Fresh, Clear
  <2>2. Busy' = {t}
    BY <1>4, <2>1 DEF Busy, Changes
  <2>. QED
    BY <2>1, <2>2 DEF Clear
<1>10. Fresh' /\ (task.raced => misled)'
  BY <1>4 DEF SInv, Fresh
<1>11. /\ Holding(known, blind, misled \/ overtaken)'
       /\ Current(look, misled, task.op, task.model)'
  BY <1>4, <1>5 DEF SInv, Holding, Holder, Current
<1>. QED
  BY <1>6, <1>7, <1>8, <1>9, <1>10, <1>11 DEF SInv

-----------------------------------------------------------------------------
(* The helper *)

ContainerType == [state : DockerState, model : Kinds, api : BOOLEAN, ending : BOOLEAN]

(* Threads that are where they were, or at a step that needs the lock no    *)
(* less and no more than the one they were at.                              *)
LEMMA StillTyped ==
  ASSUME SInv, UNCHANGED <<task, known, look, blind, misled, overtaken, mutex>>,
         container' \in ContainerType, thread' \in [Threads -> ThreadType],
         \A t \in Threads :
           /\ thread'[t].op = thread[t].op
           /\ \/ thread'[t].at = thread[t].at
              \/ {thread[t].at, thread'[t].at} \subseteq {"compose", "list", "inspect"}
  PROVE  TypeOK'
BY DEF SInv, TypeOK, ContainerType

(* One thread goes a step further. *)
LEMMA GoesOn ==
  ASSUME SInv, NEW t \in Threads, NEW step \in {"compose", "list", "inspect"},
         Goes(t, step)
  PROVE  /\ thread' \in [Threads -> ThreadType]
         /\ \A u \in Threads : u # t => thread'[u] = thread[u]
         /\ thread'[t].op = thread[t].op /\ thread'[t].model = thread[t].model
         /\ thread'[t].at = step
<1>1. thread \in [Threads -> ThreadType]
  BY DEF SInv, TypeOK
<1>. QED
  BY <1>1 DEF Goes, ThreadType

(* Whoever waits for the lock may take it. *)
LEMMA LockKeeps ==
  ASSUME SInv, NEW t \in Threads, Lock(t)
  PROVE  SInv'
<1>1. /\ thread' \in [Threads -> ThreadType]
      /\ \A u \in Threads : thread'[u].op = thread[u].op /\ thread'[u].model = thread[u].model
      /\ \A u \in Threads : u # t => thread'[u].at = thread[u].at
      /\ thread'[t].at = "compose"
  <2>1. thread \in [Threads -> ThreadType]
    BY DEF SInv, TypeOK
  <2>2. thread' = [u \in Threads |->
          IF u = t THEN [thread[u] EXCEPT !.at = "compose"]
          ELSE [thread[u] EXCEPT !.waited = @ \/ (u = task.call /\ thread[u].at = "lock")]]
    BY DEF Lock
  <2>3. ASSUME NEW u \in Threads
        PROVE  /\ thread'[u] \in ThreadType
               /\ thread'[u].op = thread[u].op /\ thread'[u].model = thread[u].model
               /\ u # t => thread'[u].at = thread[u].at
               /\ u = t => thread'[u].at = "compose"
    <3>1. thread[u] \in ThreadType
      BY <2>1
    <3>2. CASE u = t
      BY <2>2, <3>1, <3>2 DEF ThreadType
    <3>3. CASE u # t
      <4>1. PICK w \in BOOLEAN : thread'[u] = [thread[u] EXCEPT !.waited = w]
        <5>1. thread[u].waited \in BOOLEAN
          BY <3>1 DEF ThreadType
        <5>2. (thread[u].waited \/ (u = task.call /\ thread[u].at = "lock")) \in BOOLEAN
          OBVIOUS
        <5>. QED
          BY <2>2, <3>3, <5>2
      <4>. QED
        BY <3>1, <3>3, <4>1 DEF ThreadType
    <3>. QED
      BY <3>2, <3>3
  <2>4. DOMAIN thread' = Threads
    BY <2>2
  <2>. QED
    BY <2>2, <2>3
<1>2. thread[t].op \in {"start", "stop"}
  BY DEF Lock, SInv, Asked, Changes
<1>3. mutex = None /\ mutex' = t /\ None \notin Threads
  BY ServiceAssumption DEF ServiceAssumption, Lock
<1>4. TypeOK'
  BY <1>1, <1>2, <1>3 DEF Lock, dockerVars, brokerVars, SInv, TypeOK
<1>. QED
  BY <1>1, <1>4, ContainerMoves DEF Lock, dockerVars, brokerVars

(* compose changes the container for its thread, and only as it was asked.  *)
LEMMA ComposeKeeps ==
  ASSUME SInv, NEW t \in Threads,
         \/ UpStopOld(t) \/ UpRemoveOld(t) \/ UpCreate(t) \/ UpStart(t)
         \/ StopAsk(t) \/ StopDone(t)
  PROVE  SInv'
<1>1. /\ container \in ContainerType /\ thread \in [Threads -> ThreadType]
  BY DEF SInv, TypeOK, ContainerType
<1>2. CASE UpStopOld(t) \/ StopAsk(t)
  <2>1. /\ container' = [container EXCEPT !.ending = TRUE]
        /\ UNCHANGED <<helperVars, task, brokerVars, boundVars, misled>>
    BY <1>2 DEF UpStopOld, StopAsk
  <2>2. container' \in ContainerType /\ container'.state = container.state
        /\ container'.model = container.model
    BY <1>1, <2>1 DEF ContainerType
  <2>3. TypeOK'
    BY <1>1, <2>1, <2>2, StillTyped DEF helperVars, brokerVars
  <2>. QED
    BY <2>1, <2>2, <2>3, ContainerMoves DEF helperVars, brokerVars
<1>3. CASE UpRemoveOld(t)
  <2>1. container' \in ContainerType /\ ~Occupying(container'.state)
    BY <1>3 DEF UpRemoveOld, ContainerType, DockerState, Occupying, Kinds
  <2>2. /\ thread' \in [Threads -> ThreadType]
        /\ \A u \in Threads : /\ thread'[u].op = thread[u].op
                              /\ thread'[u].model = thread[u].model
                              /\ thread'[u].at = thread[u].at
    BY <1>1, <1>3 DEF UpRemoveOld, ThreadType
  <2>3. UNCHANGED <<task, known, look, blind, misled, overtaken, mutex>>
    BY <1>3 DEF UpRemoveOld, brokerVars
  <2>4. TypeOK'
    BY <2>1, <2>2, <2>3, StillTyped
  <2>. QED
    BY <2>1, <2>2, <2>3, <2>4, ContainerMoves
<1>4. CASE UpCreate(t)
  <2>1. thread[t].model \in Models \cup {None}
    BY <1>1 DEF ThreadType
  <2>2. container' \in ContainerType /\ ~Occupying(container'.state)
    BY <1>1, <1>4, <2>1 DEF UpCreate, ContainerType, DockerState, Occupying, Kinds
  <2>3. UNCHANGED <<thread, task, known, look, blind, misled, overtaken, mutex>>
    BY <1>4 DEF UpCreate, helperVars, brokerVars
  <2>4. TypeOK'
    BY <1>1, <2>2, <2>3, StillTyped
  <2>. QED
    BY <2>2, <2>3, <2>4, ContainerMoves
<1>5. CASE UpStart(t)
  <2>1. /\ container' \in ContainerType
        /\ container'.model = thread[t].model /\ thread[t].op = "start"
    BY <1>1, <1>5 DEF UpStart, Composing, ContainerType, DockerState, Occupying
  <2>2. /\ thread' \in [Threads -> ThreadType]
        /\ \A u \in Threads : u # t => thread'[u] = thread[u]
        /\ thread'[t].op = thread[t].op /\ thread'[t].model = thread[t].model
        /\ thread'[t].at = "list"
    BY <1>5, GoesOn DEF UpStart
  <2>3. UNCHANGED <<task, known, look, blind, misled, overtaken, mutex>>
    BY <1>5 DEF UpStart, brokerVars
  <2>4. TypeOK'
    BY <1>5, <2>1, <2>2, <2>3, StillTyped DEF UpStart, Composing
  <2>. QED
    BY <2>1, <2>2, <2>3, <2>4, ContainerMoves
<1>6. CASE StopDone(t)
  <2>1. /\ thread' \in [Threads -> ThreadType]
        /\ \A u \in Threads : u # t => thread'[u] = thread[u]
        /\ thread'[t].op = thread[t].op /\ thread'[t].model = thread[t].model
        /\ thread'[t].at = "list"
    BY <1>6, GoesOn DEF StopDone
  <2>2. UNCHANGED <<container, task, known, look, blind, misled, overtaken, mutex>>
    BY <1>6 DEF StopDone, dockerVars, brokerVars
  <2>3. TypeOK'
    BY <1>1, <1>6, <2>1, <2>2, StillTyped DEF StopDone, Composing
  <2>. QED
    BY <2>1, <2>2, <2>3, ContainerMoves
<1>. QED
  BY <1>2, <1>3, <1>4, <1>5, <1>6

(* A thread that is done gives the lock back, if it has it.                 *)
LEMMA FinishTyped ==
  ASSUME SInv, NEW t \in Threads, NEW answer \in Answer, Finish(t, answer), Release(t),
         UNCHANGED <<container, known, look, blind, overtaken>>
  PROVE  TypeOK'
<1>1. /\ thread \in [Threads -> ThreadType] /\ task \in TaskType /\ misled \in BOOLEAN
      /\ None \notin Threads
  BY ServiceAssumption DEF SInv, TypeOK, ServiceAssumption
<1>2. /\ thread' \in [Threads -> ThreadType] /\ thread'[t].op = "none"
      /\ \A u \in Threads : u # t => thread'[u] = thread[u]
  BY <1>1 DEF Finish, Resting, ThreadType
<1>3. task' \in TaskType /\ misled' \in BOOLEAN
  <2>1. CASE task.call = t
    <3> DEFINE raced == task.raced \/ Abandoned # {}
    <3>1. task' = [task EXCEPT !.call = None, !.answer = answer, !.raced = raced]
      BY <1>1, <2>1 DEF Finish, TaskType
    <3>2. raced \in BOOLEAN /\ misled' \in BOOLEAN
      BY <2>1 DEF Finish
    <3> HIDE DEF raced
    <3>. QED
      BY <1>1, <3>1, <3>2 DEF TaskType
  <2>2. CASE task.call # t
    BY <1>1, <2>2 DEF Finish
  <2>. QED
    BY <2>1, <2>2
<1>4. \A u \in Threads :
        mutex' = u <=> /\ thread'[u].op \in {"start", "stop"}
                       /\ thread'[u].at \in {"compose", "list", "inspect"}
  BY <1>1, <1>2 DEF Release, SInv, TypeOK
<1>. QED
  BY <1>2, <1>3, <1>4 DEF SInv, TypeOK

(* status() tells what is true of the container, or nothing.                *)
LEMMA StatusKeeps ==
  ASSUME SInv, NEW t \in Threads, List(t) \/ Inspect(t) \/ CommandFails(t)
  PROVE  SInv'
<1>1. /\ container \in ContainerType /\ thread \in [Threads -> ThreadType]
  BY DEF SInv, TypeOK, ContainerType
<1>2. ASSUME NEW answer \in Answer, Finish(t, answer), Release(t),
             UNCHANGED <<container, known, look, blind, overtaken>>,
             Occupying(answer.state) => answer.model # None,
             \/ answer.state = "failed"
             \/ Occupying(container.state) =>
                  Occupying(answer.state) /\ answer.model = container.model
      PROVE  SInv'
  BY <1>2, FinishTyped, AnswerGiven
<1>3. Failed \in Answer /\ Failed.state = "failed" /\ ~Occupying(Failed.state)
  BY DEF Failed, Answer, Occupying, Kinds
<1>4. CASE CommandFails(t)
  BY <1>2, <1>3, <1>4 DEF CommandFails, dockerVars, brokerVars
<1>5. CASE Inspect(t)
  <2> DEFINE answer == [state |-> container.state, model |-> container.model]
  <2>1. CASE ~thread[t].found
    BY <1>2, <1>3, <1>5, <2>1 DEF Inspect, dockerVars, brokerVars
  <2>2. CASE thread[t].found
    <3>1. answer \in Answer
      BY <1>1 DEF Answer, ContainerType
    <3>2. answer.state = container.state /\ answer.model = container.model
      OBVIOUS
    <3>3. Finish(t, answer) /\ Release(t) /\ UNCHANGED <<container, known, look, blind, overtaken>>
      BY <1>5, <2>2 DEF Inspect, dockerVars, brokerVars
    <3>4. Occupying(container.state) => container.model # None
      BY DEF SInv, Named
    <3> HIDE DEF answer
    <3>. QED
      BY <1>2, <3>1, <3>2, <3>3, <3>4
  <2>. QED
    BY <2>1, <2>2
<1>6. CASE List(t)
  <2>1. CASE container.state = "missing"
    <3> DEFINE answer == [state |-> "missing", model |-> None]
    <3>1. answer \in Answer /\ answer.state = "missing"
      BY DEF Answer, DockerState, Kinds
    <3>2. Finish(t, answer) /\ Release(t) /\ UNCHANGED <<container, known, look, blind, overtaken>>
      BY <1>6, <2>1 DEF List, dockerVars, brokerVars
    <3> HIDE DEF answer
    <3>. QED
      BY <1>2, <2>1, <3>1, <3>2 DEF Occupying
  <2>2. CASE container.state # "missing"
    <3>1. thread' = [thread EXCEPT ![t].at = "inspect", ![t].found = TRUE]
      BY <1>6, <2>2 DEF List
    <3>2. /\ thread' \in [Threads -> ThreadType]
          /\ \A u \in Threads : u # t => thread'[u] = thread[u]
          /\ thread'[t].op = thread[t].op /\ thread'[t].model = thread[t].model
          /\ thread'[t].at = "inspect" /\ thread[t].at = "list"
      BY <1>1, <1>6, <3>1 DEF ThreadType, List
    <3>3. UNCHANGED <<container, task, known, look, blind, misled, overtaken, mutex>>
      BY <1>6, <2>2 DEF List, dockerVars, brokerVars
    <3>4. TypeOK'
      BY <1>1, <3>2, <3>3, StillTyped
    <3>. QED
      BY <3>2, <3>3, <3>4, ContainerMoves
  <2>. QED
    BY <2>1, <2>2
<1>. QED
  BY <1>4, <1>5, <1>6

(* A restart of the helper leaves nothing under way. *)
LEMMA RestartKeeps ==
  ASSUME SInv, HelperRestarts
  PROVE  SInv'
<1>1. /\ task \in TaskType /\ None \notin Threads
  BY ServiceAssumption DEF SInv, TypeOK, ServiceAssumption
<1>2. /\ \A t \in Threads : thread'[t] = Resting
      /\ Resting \in ThreadType /\ Resting.op = "none" /\ Resting.at = "none"
      /\ Resting.model = None /\ mutex' = None
      /\ UNCHANGED <<container, known, look, blind, misled, overtaken>>
  BY DEF HelperRestarts, Resting, ThreadType, dockerVars, brokerVars
<1>3. /\ Failed \in Answer /\ Failed.state = "failed" /\ ~Occupying(Failed.state)
  BY DEF Failed, Answer, Occupying, Kinds
<1>4. /\ task' \in TaskType /\ task'.op = task.op /\ task'.model = task.model
      /\ task'.raced = task.raced /\ task'.call = None
      /\ task'.answer = IF task.call = None THEN task.answer ELSE Failed
  <2>1. CASE task.call = None
    BY <1>1, <2>1 DEF HelperRestarts
  <2>2. CASE task.call # None
    BY <1>1, <1>3, <2>2 DEF HelperRestarts, TaskType
  <2>. QED
    BY <2>1, <2>2
<1>5. Busy' = {}
  BY <1>2 DEF Busy, Changes
<1>6. TypeOK'
  <2>1. thread' \in [Threads -> ThreadType]
    BY <1>2 DEF HelperRestarts
  <2>. QED
    BY <1>1, <1>2, <1>4, <2>1 DEF SInv, TypeOK
<1>7. Named'
  BY <1>2, <1>3, <1>4 DEF SInv, Named
<1>8. Asked'
  BY <1>1, <1>2, <1>4 DEF SInv, Asked, Kept
<1>9. Fresh' /\ Sole'
  BY <1>2, <1>3, <1>4, <1>5 DEF SInv, Fresh, Sole
<1>10. /\ Holding(known, blind, misled \/ overtaken)'
       /\ Current(look, misled, task.op, task.model)'
  BY <1>2, <1>4 DEF SInv, Holding, Holder, Current
<1>. QED
  BY <1>2, <1>4, <1>6, <1>7, <1>8, <1>9, <1>10 DEF SInv

-----------------------------------------------------------------------------
(* Docker *)

(* By itself, a container at most ends or comes back. *)
LEMMA DockerKeeps ==
  ASSUME SInv, Ready \/ Crash \/ ComesBack \/ Stopped
  PROVE  SInv'
<1>1. /\ container \in ContainerType /\ thread \in [Threads -> ThreadType]
  BY DEF SInv, TypeOK, ContainerType
<1>2. UNCHANGED <<thread, mutex, task, known, look, blind, misled, overtaken>>
  BY DEF Ready, Crash, ComesBack, Stopped, helperVars, brokerVars
<1>3. /\ container' \in ContainerType /\ container'.model = container.model
      /\ Occupying(container'.state) => Occupying(container.state)
  <2>1. CASE Ready
    BY <1>1, <2>1 DEF Ready, ContainerType
  <2>2. CASE Crash
    <3>1. PICK state \in {"exited", "restarting"} :
            container' = [container EXCEPT !.state = state, !.api = FALSE]
      BY <2>2 DEF Crash
    <3>2. container.state = "running"
      BY <2>2 DEF Crash
    <3>. QED
      BY <1>1, <3>1, <3>2 DEF ContainerType, DockerState, Occupying
  <2>3. CASE ComesBack
    BY <1>1, <2>3 DEF ComesBack, ContainerType, DockerState, Occupying
  <2>4. CASE Stopped
    BY <1>1, <2>4 DEF Stopped, ContainerType, DockerState, Occupying
  <2>. QED
    BY <2>1, <2>2, <2>3, <2>4
<1>4. TypeOK'
  BY <1>1, <1>2, <1>3, StillTyped
<1>. QED
  BY <1>2, <1>3, <1>4, ContainerMoves

-----------------------------------------------------------------------------
(* The broker *)

(* The client gives up: what it asked for goes on. *)
LEMMA GiveUpKeeps ==
  ASSUME SInv, GiveUp
  PROVE  SInv'
<1>1. /\ task \in TaskType /\ None \notin Threads
  BY ServiceAssumption DEF SInv, TypeOK, ServiceAssumption
<1>2. /\ Failed \in Answer /\ Failed.state = "failed" /\ ~Occupying(Failed.state)
  BY DEF Failed, Answer, Occupying, Kinds
<1>3. UNCHANGED <<container, thread, mutex, known, look, blind, misled, overtaken>>
  BY DEF GiveUp, dockerVars, helperVars, brokerVars
<1>4. /\ task' \in TaskType /\ task'.op = task.op /\ task'.model = task.model
      /\ task'.raced = task.raced /\ task'.call = None /\ task'.answer = Failed
  BY <1>1, <1>2 DEF GiveUp, TaskType
<1>5. TypeOK' /\ Named' /\ Asked'
  BY <1>1, <1>2, <1>3, <1>4 DEF SInv, TypeOK, Named, Asked, Kept
<1>6. Fresh' /\ Sole'
  BY <1>1, <1>2, <1>3, <1>4 DEF Fresh, Sole, Busy
<1>7. /\ Holding(known, blind, misled \/ overtaken)'
      /\ Current(look, misled, task.op, task.model)'
  BY <1>3, <1>4 DEF SInv, Holding, Holder, Current
<1>. QED
  BY <1>3, <1>4, <1>5, <1>6, <1>7 DEF SInv

(* A deadline that passes is only noted. *)
LEMMA DeadlineKeeps ==
  ASSUME SInv, Deadline
  PROVE  SInv'
<1>1. UNCHANGED <<container, thread, mutex, known, look, blind, misled, overtaken>>
  BY DEF Deadline, dockerVars, helperVars, brokerVars
<1>2. task \in TaskType
  BY DEF SInv, TypeOK
<1>3. /\ task' \in TaskType /\ task'.op = task.op /\ task'.model = task.model
      /\ task'.raced = task.raced /\ task'.call = task.call /\ task'.answer = task.answer
  BY <1>2 DEF Deadline, TaskType
<1>4. TypeOK' /\ Named' /\ Asked'
  BY <1>1, <1>3 DEF SInv, TypeOK, Named, Asked, Kept
<1>5. Fresh' /\ Sole'
  BY <1>1, <1>3 DEF SInv, Fresh, Sole, Busy
<1>6. /\ Holding(known, blind, misled \/ overtaken)'
      /\ Current(look, misled, task.op, task.model)'
  BY <1>1, <1>3 DEF SInv, Holding, Holder, Current
<1>. QED
  BY <1>1, <1>3, <1>4, <1>5, <1>6 DEF SInv

(* What the broker takes the service for is right, as it is. *)
LEMMA ViewsNow ==
  ASSUME SInv, UNCHANGED <<known, look, blind, misled, overtaken>>
  PROVE  /\ WellViewed /\ Holding(known', blind', misled \/ overtaken')
         /\ Current(look', misled, task.op, task.model)
BY DEF SInv, TypeOK, WellViewed

(* A record that is changed, but not dropped, holds what it held. *)
LEMMA ViewKept ==
  ASSUME SInv, NEW m \in Models, NEW view \in Views, view # "no", Becomes(m, view)
  PROVE  known' \in [Models -> Views] /\ known'[m] = view /\ Holding(known', blind, misled \/ overtaken)
<1>1. /\ known \in [Models -> Views]
      /\ \A t \in Threads : thread[t].op = "start" => thread[t].model \in Models
  BY DEF SInv, TypeOK, Named, ThreadType
<1>2. known' = [known EXCEPT ![m] = view]
  BY DEF Becomes
<1>. QED
  BY <1>1, <1>2 DEF SInv, Holding, Holder

(* What a task that has just begun is. *)
LEMMA NewTask ==
  /\ NoTask \in TaskType /\ NoTask.op = "none" /\ NoTask.call = None
  /\ NoTask.answer = None /\ NoTask.raced = FALSE
  /\ \A op \in {"load", "unload"}, m \in Models :
       LET next == [NoTask EXCEPT !.op = op, !.at = "check", !.model = m, !.own = op = "unload"]
       IN next \in TaskType /\ next.op = op /\ next.model = m /\ next.raced = FALSE
<1>1. /\ NoTask \in TaskType /\ NoTask.op = "none" /\ NoTask.call = None
      /\ NoTask.answer = None /\ NoTask.raced = FALSE
  BY DEF NoTask, TaskType
<1>. QED
  BY <1>1 DEF TaskType

(* A task that goes on to ask for the status. *)
LEMMA WatchKeeps ==
  ASSUME SInv, Watch,
         UNCHANGED <<container, mutex, known, look, blind, misled, overtaken>>
  PROVE  SInv'
<1> DEFINE next == [task EXCEPT !.at = "wait"]
<1>1. task \in TaskType
  BY DEF SInv, TypeOK
<1>2. /\ next \in TaskType /\ next.op = task.op /\ next.model = task.model
      /\ next.raced = task.raced
  BY <1>1 DEF TaskType
<1>3. Ask("status", next)
  BY DEF Watch
<1> HIDE DEF next
<1>4. /\ next.op \in {"load", "unload", "confirm"} => next.model # None
      /\ Kept(next.op, next.model, known') /\ (next.raced => misled)
  BY <1>2 DEF SInv, Asked
<1>. QED
  BY <1>2, <1>3, <1>4, ViewsNow, StatusAsked

LEMMA ConfirmKeeps ==
  ASSUME SInv, Confirm, task.op = "load",
         UNCHANGED <<container, mutex, look, blind, misled, overtaken>>
  PROVE  SInv'
<1> DEFINE next == [task EXCEPT !.op = "confirm", !.at = "check"]
<1>1. task \in TaskType /\ task.model \in Models
  BY DEF SInv, TypeOK, Asked, TaskType
<1>2. /\ next \in TaskType /\ next.op = "confirm" /\ next.model = task.model
      /\ next.raced = task.raced
  BY <1>1 DEF TaskType
<1>3. Ask("status", next)
  BY DEF Confirm
<1> HIDE DEF next
<1>4. /\ known' \in [Models -> Views] /\ known'[task.model] = "failing"
      /\ Holding(known', blind, misled \/ overtaken)
  BY <1>1, ViewKept DEF Confirm, Views
<1>5. WellViewed
  BY <1>4 DEF SInv, TypeOK, WellViewed
<1>6. /\ next.op \in {"load", "unload", "confirm"} => next.model # None
      /\ Kept(next.op, next.model, known') /\ (next.raced => misled)
  BY <1>2, <1>4 DEF SInv, Asked, Kept
<1>7. Current(look', misled, next.op, next.model)
  BY <1>2 DEF SInv, Current
<1>. QED
  BY <1>2, <1>3, <1>4, <1>5, <1>6, <1>7, StatusAsked

(* A task that ends, or pauses, with the resources rightly held.            *)
LEMMA EndKeeps ==
  ASSUME SInv, End, UNCHANGED <<container, mutex>>, WellViewed,
         Holding(known', blind', misled' \/ overtaken'), Current(look', misled', "none", None)
  PROVE  SInv'
<1>1. task' = NoTask /\ NoTask.model = None /\ Kept(NoTask.op, NoTask.model, known')
  BY NewTask DEF End, NoTask, Kept
<1>. QED
  BY <1>1, NewTask, TaskRests DEF End

(* The end of an unload leaves what a survey has read as good as it was.    *)
LEMMA UnloadEnds ==
  ASSUME SInv, task.op = "unload", UNCHANGED <<look, misled>>
  PROVE  Current(look', misled', "none", None)
BY DEF SInv, Current

(* That of a load makes it old. *)
LEMMA LoadEnds ==
  ASSUME SInv, Ages
  PROVE  look' \in LookType \cup {None} /\ Current(look', misled', "none", None)
<1>1. CASE look = None
  BY <1>1 DEF Ages, Current
<1>2. CASE look # None
  <2>1. look \in LookType /\ look' = [look EXCEPT !.old = TRUE]
    BY <1>2 DEF SInv, TypeOK, Ages
  <2>2. look' \in LookType /\ look'.old
    BY <2>1 DEF LookType
  <2>. QED
    BY <2>2 DEF Current
<1>. QED
  BY <1>1, <1>2

LEMMA PauseKeeps ==
  ASSUME SInv, Pause, task.answer # None,
         UNCHANGED <<container, mutex, known, look, blind, misled, overtaken>>
  PROVE  SInv'
<1>1. task \in TaskType
  BY DEF SInv, TypeOK
<1>2. /\ task' \in TaskType /\ task'.op = task.op /\ task'.model = task.model
      /\ task'.raced = task.raced /\ task'.call = None /\ task'.answer = None
  BY <1>1 DEF Pause, TaskType, SInv, Asked
<1>3. /\ task'.raced => misled'
      /\ task'.op \in {"load", "unload", "confirm"} => task'.model # None
      /\ Kept(task'.op, task'.model, known')
  BY <1>2 DEF SInv, Asked
<1>4. thread' = thread
  BY DEF Pause
<1>. QED
  BY <1>2, <1>3, <1>4, ViewsNow, TaskRests

(* The resources of a model that an answer shows gone may be held by nobody. *)
LEMMA GoneFrees ==
  ASSUME SInv, task.op \in {"unload", "confirm"}, task.answer # None,
         Gone(task.answer, task.model), Becomes(task.model, "no")
  PROVE  known' \in [Models -> Views] /\ Holding(known', blind, misled \/ overtaken)
<1>1. task.model \in Models /\ known' = [known EXCEPT ![task.model] = "no"]
      /\ known \in [Models -> Views]
  BY DEF SInv, TypeOK, TaskType, Asked, Becomes
<1>2. SUFFICES ASSUME ~blind, ~misled, ~overtaken
               PROVE  /\ \A t \in Threads : thread[t].op # "start"
                      /\ Holder => known'[container.model] # "no"
  BY <1>1 DEF Holding, Views
<1>3. /\ Busy = {}
      /\ Occupying(container.state) =>
           Occupying(task.answer.state) /\ task.answer.model = container.model
  BY <1>2 DEF SInv, Fresh, Gone
<1>4. Holder => container.model # task.model /\ known[container.model] # "no"
  BY <1>2, <1>3 DEF SInv, Holding, Holder, Gone, Runs
<1>. QED
  BY <1>1, <1>3, <1>4 DEF Busy, Changes, Holder

(* A load, and what it goes through. *)
LEMMA LoadKeeps ==
  ASSUME SInv, NEW m \in Models, Load(m)
  PROVE  SInv'
<1> DEFINE next == [NoTask EXCEPT !.op = "load", !.at = "check", !.model = m, !.own = "load" = "unload"]
<1>1. next \in TaskType /\ next.op = "load" /\ next.model = m /\ next.raced = FALSE
  BY NewTask
<1>2. Ask("status", next)
  BY DEF Load, Begin
<1> HIDE DEF next
<1>3. m # None
  BY ServiceAssumption DEF ServiceAssumption
<1>4. UNCHANGED <<container, mutex, misled, look, blind, overtaken>> /\ task.op = "none"
  BY NewTask DEF Load, dockerVars
<1>5. /\ known' \in [Models -> Views] /\ known'[m] = "loading"
      /\ Holding(known', blind, misled \/ overtaken)
  BY ViewKept DEF Load, Views
<1>6. WellViewed
  BY <1>4, <1>5 DEF SInv, TypeOK, WellViewed
<1>7. Current(look', misled, next.op, next.model)
  BY <1>4 DEF SInv, Current
<1>8. Kept(next.op, next.model, known')
  BY <1>1, <1>5 DEF Kept
<1>. QED
  BY <1>1, <1>2, <1>3, <1>4, <1>5, <1>6, <1>7, <1>8, StatusAsked

LEMMA UnloadKeeps ==
  ASSUME SInv, NEW m \in Models, Unload(m)
  PROVE  SInv'
<1> DEFINE next == [NoTask EXCEPT !.op = "unload", !.at = "check", !.model = m, !.own = "unload" = "unload"]
<1>1. next \in TaskType /\ next.op = "unload" /\ next.model = m /\ next.raced = FALSE
  BY NewTask
<1>2. Ask("status", next)
  BY DEF Unload, Begin
<1> HIDE DEF next
<1>3. m # None
  BY ServiceAssumption DEF ServiceAssumption
<1>4. UNCHANGED <<container, mutex, misled, known, look, blind, overtaken>> /\ task.op = "none"
  BY NewTask DEF Unload, dockerVars, brokerVars
<1>5. Current(look', misled, next.op, next.model) /\ Kept(next.op, next.model, known')
  BY <1>1, <1>4 DEF SInv, Current, Kept
<1>. QED
  BY <1>1, <1>2, <1>3, <1>4, <1>5, ViewsNow, StatusAsked

LEMMA LoadCheckedKeeps ==
  ASSUME SInv, LoadChecked
  PROVE  SInv'
<1>1. /\ UNCHANGED <<container, mutex, misled, look, blind, overtaken>>
      /\ task.op = "load" /\ task.answer # None
  BY DEF LoadChecked, Answered, dockerVars
<1>2. CASE Confirm
  BY <1>1, <1>2, ConfirmKeeps
<1>3. CASE Clear(task.answer, task.model) /\ UNCHANGED known /\ Watch
  BY <1>1, <1>3, WatchKeeps
<1>4. CASE /\ Clear(task.answer, task.model) /\ UNCHANGED known
           /\ ~Occupying(task.answer.state) /\ Change("start")
  BY <1>1, <1>4, ChangeAsked
<1>. QED
  BY <1>2, <1>3, <1>4 DEF LoadChecked

LEMMA UnloadCheckedKeeps ==
  ASSUME SInv, UnloadChecked
  PROVE  SInv'
<1>1. /\ UNCHANGED <<container, mutex, misled, known, look, blind, overtaken>>
      /\ task.op = "unload" /\ task.answer # None
  BY DEF UnloadChecked, Answered, dockerVars, brokerVars
<1>2. CASE End
  BY <1>1, <1>2, ViewsNow, UnloadEnds, EndKeeps
<1>3. CASE Clear(task.answer, task.model) /\ Watch
  BY <1>1, <1>3, WatchKeeps
<1>4. CASE Clear(task.answer, task.model) /\ Change("stop")
  BY <1>1, <1>4, ChangeAsked
<1>. QED
  BY <1>2, <1>3, <1>4 DEF UnloadChecked

LEMMA ChangedKeeps ==
  ASSUME SInv, Changed
  PROVE  SInv'
<1>1. UNCHANGED <<container, mutex, misled, look, blind, overtaken>>
  BY DEF Changed, dockerVars
<1>2. CASE UNCHANGED known /\ Watch
  BY <1>1, <1>2, WatchKeeps
<1>3. CASE task.op = "load" /\ Confirm
  BY <1>1, <1>3, ConfirmKeeps
<1>4. CASE task.op = "unload" /\ UNCHANGED known /\ End
  BY <1>1, <1>4, ViewsNow, UnloadEnds, EndKeeps
<1>. QED
  BY <1>2, <1>3, <1>4 DEF Changed

LEMMA PollKeeps ==
  ASSUME SInv, Poll
  PROVE  SInv'
BY WatchKeeps DEF Poll, dockerVars, brokerVars

LEMMA AwaitLoadedKeeps ==
  ASSUME SInv, AwaitLoaded
  PROVE  SInv'
<1>1. /\ UNCHANGED <<container, mutex, misled, blind, overtaken>>
      /\ task.op = "load" /\ task.answer # None
  BY DEF AwaitLoaded, Answered, dockerVars
<1>2. CASE Becomes(task.model, "ready") /\ Ages /\ End
  <2>1. task.model \in Models
    BY <1>1 DEF SInv, TypeOK, Asked, TaskType
  <2>2. known' \in [Models -> Views] /\ Holding(known', blind, misled \/ overtaken)
    BY <1>2, <2>1, ViewKept DEF Views
  <2>3. WellViewed /\ Current(look', misled', "none", None)
    BY <1>1, <1>2, <2>2, LoadEnds DEF SInv, TypeOK, WellViewed
  <2>. QED
    BY <1>1, <1>2, <2>2, <2>3, EndKeeps
<1>3. CASE UNCHANGED look /\ Confirm
  BY <1>1, <1>3, ConfirmKeeps
<1>4. CASE UNCHANGED <<known, look>> /\ Pause
  BY <1>1, <1>4, PauseKeeps
<1>. QED
  BY <1>2, <1>3, <1>4 DEF AwaitLoaded

LEMMA AwaitUnloadedKeeps ==
  ASSUME SInv, AwaitUnloaded
  PROVE  SInv'
<1>1. /\ UNCHANGED <<container, mutex, misled, look, blind, overtaken>>
      /\ task.op = "unload" /\ task.answer # None
  BY DEF AwaitUnloaded, Answered, dockerVars
<1>2. CASE Gone(task.answer, task.model) /\ Becomes(task.model, "no") /\ End
  <2>1. known' \in [Models -> Views] /\ Holding(known', blind, misled \/ overtaken)
    BY <1>1, <1>2, GoneFrees
  <2>2. WellViewed
    BY <1>1, <2>1 DEF SInv, TypeOK, WellViewed
  <2>. QED
    BY <1>1, <1>2, <2>1, <2>2, UnloadEnds, EndKeeps
<1>3. CASE UNCHANGED known /\ End
  BY <1>1, <1>3, ViewsNow, UnloadEnds, EndKeeps
<1>4. CASE UNCHANGED known /\ Pause
  BY <1>1, <1>4, PauseKeeps
<1>. QED
  BY <1>2, <1>3, <1>4 DEF AwaitUnloaded

LEMMA ConfirmFailedKeeps ==
  ASSUME SInv, ConfirmFailed
  PROVE  SInv'
<1>1. /\ UNCHANGED <<container, mutex, misled, blind, overtaken>> /\ End /\ Ages
      /\ task.op = "confirm" /\ task.answer # None
      /\ Becomes(task.model, IF Gone(task.answer, task.model) THEN "no" ELSE "unsure")
  BY DEF ConfirmFailed, dockerVars
<1>2. task.model \in Models
  BY <1>1 DEF SInv, TypeOK, Asked, TaskType
<1>3. known' \in [Models -> Views] /\ Holding(known', blind, misled \/ overtaken)
  <2>1. CASE Gone(task.answer, task.model)
    BY <1>1, <2>1, GoneFrees
  <2>2. CASE ~Gone(task.answer, task.model)
    BY <1>1, <1>2, <2>2, ViewKept DEF Views
  <2>. QED
    BY <2>1, <2>2
<1>4. WellViewed /\ Current(look', misled', "none", None)
  BY <1>1, <1>3, LoadEnds DEF SInv, TypeOK, WellViewed
<1>. QED
  BY <1>1, <1>3, <1>4, EndKeeps

(* A model that was adopted is waited for, beside the task.                 *)
LEMMA AdoptionKeeps ==
  ASSUME SInv, NEW m \in Models, Adoption(m)
  PROVE  SInv'
<1>1. /\ UNCHANGED <<container, thread, mutex, task, misled, look, blind, overtaken>>
      /\ known[m] = "adopted"
  BY DEF Adoption, dockerVars, helperVars
<1>2. PICK view \in {"ready", "failing"} : Becomes(m, view)
  BY DEF Adoption
<1>3. known' \in [Models -> Views] /\ Holding(known', blind, misled \/ overtaken)
  BY <1>2, ViewKept DEF Views
<1>4. Kept(task.op, task.model, known')
  BY <1>1, <1>2 DEF SInv, TypeOK, Asked, Kept, Becomes
<1>5. WellViewed /\ Current(look', misled', task.op, task.model)
  BY <1>1, <1>3 DEF SInv, TypeOK, WellViewed
<1>. QED
  BY <1>1, <1>3, <1>4, <1>5, ViewsMove

(* Its record is dropped only if it is not there; nothing starts it then.   *)
LEMMA AdoptionFailedKeeps ==
  ASSUME SInv, NEW m \in Models, AdoptionFailed(m)
  PROVE  SInv'
<1>1. /\ UNCHANGED <<container, thread, mutex, task, look, blind, overtaken>>
      /\ known[m] = "failing" /\ ~(task.op = "confirm" /\ task.model = m)
      /\ known \in [Models -> Views]
  BY DEF AdoptionFailed, dockerVars, helperVars, SInv, TypeOK
<1>2. PICK view \in {"no", "unsure"} : Becomes(m, view)
  BY DEF AdoptionFailed
<1>3. known' = [known EXCEPT ![m] = view] /\ view \in Views
  BY <1>2 DEF Becomes, Views
<1>4. WellViewed
  <2>1. {blind, misled, overtaken} \subseteq BOOLEAN /\ look \in LookType \cup {None}
    BY DEF SInv, TypeOK
  <2>2. misled' = (misled \/ Abandoned # {}) \/ misled' = misled
    BY DEF AdoptionFailed
  <2>3. misled' \in BOOLEAN /\ (misled => misled')
    <3>1. CASE misled' = (misled \/ Abandoned # {})
      <4>1. (misled \/ Abandoned # {}) \in BOOLEAN
        OBVIOUS
      <4>. QED
        BY <3>1, <4>1, Zenon
    <3>2. CASE misled' = misled
      BY <2>1, <3>2
    <3>. QED
      BY <2>2, <3>1, <3>2
  <2>4. known' \in [Models -> Views]
    BY <1>1, <1>3
  <2>. QED
    BY <1>1, <2>1, <2>3, <2>4 DEF WellViewed
<1>5. Holding(known', blind', misled' \/ overtaken')
  <2>1. CASE view = "unsure"
    BY <1>1, <1>2, <1>4, <2>1, ViewKept DEF Views, Holding, Holder, WellViewed
  <2>2. CASE view = "no"
    <3> SUFFICES ASSUME ~blind, ~misled', ~overtaken
                 PROVE  /\ \A t \in Threads : thread[t].op = "start" => known'[thread[t].model] # "no"
                        /\ Holder => known'[container.model] # "no"
      BY <1>1 DEF Holding, Holder
    <3>1. Gone(Seen, m) /\ Abandoned = {} /\ ~misled
      <4>1. known'[m] = "no"
        BY <1>1, <1>3, <2>2
      <4>2. ~Becomes(m, "unsure")
        BY <1>1, <4>1 DEF Becomes
      <4>. QED
        BY <4>2 DEF AdoptionFailed
    <3>2. ASSUME NEW t \in Threads, thread[t].op = "start" PROVE known'[thread[t].model] # "no"
      <4>1. task.call = t
        BY <3>1, <3>2 DEF Abandoned
      <4>2. known[thread[t].model] = "loading" /\ thread[t].model \in Models
        BY <3>2, <4>1 DEF SInv, Asked, Kept, Named, TypeOK, ThreadType
      <4>. QED
        BY <1>1, <1>3, <4>2
    <3>3. Holder => container.model # m /\ known[container.model] # "no"
      BY <3>1 DEF Gone, Runs, Seen, Holder, SInv, Holding
    <3>. QED
      BY <1>1, <1>3, <3>2, <3>3 DEF Holder
  <2>. QED
    BY <2>1, <2>2
<1>6. Kept(task.op, task.model, known')
  BY <1>1, <1>3 DEF SInv, Asked, Kept
<1>7. Current(look', misled', task.op, task.model)
  BY <1>1, <1>4 DEF SInv, Current, WellViewed
<1>. QED
  BY <1>1, <1>4, <1>5, <1>6, <1>7, ViewsMove

(* A survey reads what runs; what may yet be started is then the task's.    *)
LEMMA SurveyKeeps ==
  ASSUME SInv, SurveyRead
  PROVE  SInv'
<1>1. /\ UNCHANGED <<container, thread, mutex, task, known, blind, overtaken>>
      /\ misled' = (misled \/ Abandoned # {})
  BY DEF SurveyRead, dockerVars, helperVars
<1> DEFINE model == IF Occupying(container.state) THEN container.model ELSE None
<1>2. look' = [model |-> model, old |-> FALSE]
  BY DEF SurveyRead
<1>3. model \in Kinds
  BY DEF SInv, TypeOK, Kinds
<1>4. WellViewed
  <2> HIDE DEF model
  <2>. QED
    BY <1>1, <1>2, <1>3 DEF SInv, TypeOK, WellViewed, LookType
<1>5. Holding(known', blind', misled' \/ overtaken') /\ Kept(task.op, task.model, known')
  BY <1>1 DEF SInv, Holding, Holder, Asked
<1>6. Current(look', misled', task.op, task.model)
  <2> SUFFICES ASSUME ~misled'
               PROVE  /\ \A t \in Threads : thread[t].op = "start" =>
                           task.op \in {"load", "confirm"} /\ task.model = thread[t].model
                      /\ Holder => look'.model = container.model
    BY DEF Current
  <2>1. ASSUME NEW t \in Threads, thread[t].op = "start" PROVE task.call = t
    BY <1>1, <2>1 DEF Abandoned
  <2>. QED
    BY <1>2, <2>1 DEF SInv, Asked, Holder
<1>. QED
  BY <1>1, <1>4, <1>5, <1>6, ViewsMove

(* A survey is merged: unless it is old, it drops nothing that runs or is   *)
(* yet to be started.                                                       *)
LEMMA MergeKeeps ==
  ASSUME SInv, Merge
  PROVE  SInv'
<1>1. /\ UNCHANGED <<container, thread, mutex, misled>> /\ look # None /\ look' = None
      /\ blind' = FALSE /\ overtaken' = (overtaken \/ look.old)
      /\ known \in [Models -> Views] /\ look \in LookType /\ task \in TaskType
  BY DEF Merge, dockerVars, helperVars, SInv, TypeOK
<1>2. PICK dropped \in SUBSET {m \in Models : Droppable(m)} :
        known' = [m \in Models |->
          CASE Replaced(m) -> IF ApiAnswers THEN "ready" ELSE "adopted"
            [] m \in dropped -> "no"
            [] OTHER -> known[m]]
  BY DEF Merge
<1>3. ASSUME NEW m \in Models
      PROVE  /\ known'[m] \in Views
             /\ Replaced(m) => known'[m] # "no"
             /\ ~Replaced(m) /\ ~Droppable(m) => known'[m] = known[m]
  <2>1. CASE Replaced(m)
    <3>1. m \notin dropped
      BY <1>2, <2>1 DEF Replaced, Droppable
    <3>2. known'[m] = IF ApiAnswers THEN "ready" ELSE "adopted"
      BY <1>2, <2>1, <3>1
    <3>. QED
      BY <2>1, <3>2 DEF Views
  <2>2. CASE ~Replaced(m) /\ m \in dropped
    <3>1. known'[m] = "no" /\ Droppable(m)
      BY <1>2, <2>2
    <3>. QED
      BY <2>2, <3>1 DEF Views
  <2>3. CASE ~Replaced(m) /\ m \notin dropped
    <3>1. known'[m] = known[m]
      BY <1>2, <2>3
    <3>. QED
      BY <1>1, <2>3, <3>1
  <2>. QED
    BY <2>1, <2>2, <2>3
<1>4. WellViewed /\ Current(look', misled', task'.op, task'.model)
  <2>1. known' \in [Models -> Views]
    BY <1>2, <1>3
  <2>. QED
    BY <1>1, <2>1 DEF SInv, TypeOK, WellViewed, Current, LookType
<1>5. Holding(known', blind', misled' \/ overtaken')
  <2> SUFFICES ASSUME ~misled, ~look.old
               PROVE  /\ \A t \in Threads : thread[t].op = "start" => known'[thread[t].model] # "no"
                      /\ Holder => known'[container.model] # "no"
    BY <1>1 DEF Holding, Holder
  <2>1. ASSUME NEW m \in Models, task.op \in {"load", "confirm"} /\ task.model = m
        PROVE  known'[m] # "no"
    <3>1. known[m] \in {"loading", "failing"}
      BY <2>1 DEF SInv, Asked, Kept
    <3>2. ~Droppable(m)
      BY <3>1 DEF Droppable
    <3>. QED
      BY <1>3, <3>1, <3>2
  <2>2. ASSUME NEW m \in Models, look.model = m PROVE known'[m] # "no"
    BY <1>1, <1>3, <2>2 DEF Replaced, Droppable
  <2>3. /\ \A t \in Threads : thread[t].op = "start" =>
             task.op \in {"load", "confirm"} /\ task.model = thread[t].model
        /\ Holder => \/ look.model = container.model
                     \/ task.op \in {"load", "confirm"} /\ task.model = container.model
    BY <1>1 DEF SInv, Current
  <2>4. /\ \A t \in Threads : thread[t].op = "start" => thread[t].model \in Models
        /\ Holder => container.model \in Models
    BY DEF SInv, Named, TypeOK, ThreadType, Holder
  <2>. QED
    BY <2>1, <2>2, <2>3, <2>4
<1>6. CASE task.op = "confirm" /\ Replaced(task.model)
  <2>1. End
    BY <1>1, <1>6 DEF Merge, End
  <2>2. Current(look', misled', "none", None)
    BY <1>1 DEF Current
  <2>. QED
    BY <1>1, <1>4, <1>5, <2>1, <2>2, EndKeeps
<1>7. CASE ~(task.op = "confirm" /\ Replaced(task.model))
  <2>1. task' = task \/ \E own \in BOOLEAN : task' = [task EXCEPT !.own = own]
    BY <1>1, <1>7 DEF Merge
  <2>2. Kept(task.op, task.model, known')
    <3> SUFFICES ASSUME task.op \in {"load", "confirm"}
                 PROVE  known'[task.model] = known[task.model]
      BY DEF SInv, Asked, Kept
    <3>1. task.model \in Models /\ known[task.model] = (IF task.op = "load" THEN "loading" ELSE "failing")
      BY DEF SInv, Asked, Kept, TypeOK, TaskType
    <3>2. ~Replaced(task.model) /\ ~Droppable(task.model)
      BY <1>7, <3>1 DEF Replaced, Droppable
    <3>. QED
      BY <1>3, <3>1, <3>2
  <2>3. Current(look', misled', task.op, task.model)
    BY <1>1 DEF Current
  <2>. QED
    BY <1>1, <1>4, <1>5, <2>1, <2>2, <2>3, ViewsMove
<1>. QED
  BY <1>6, <1>7

(* A broker that starts anew holds nothing, and has read nothing.           *)
LEMMA BrokerKeeps ==
  ASSUME SInv, BrokerRestarts
  PROVE  SInv'
<1>1. End /\ known' = [m \in Models |-> "no"] /\ look' = None /\ blind' = TRUE
      /\ UNCHANGED <<container, mutex, misled, overtaken>>
  BY DEF BrokerRestarts, End, dockerVars, helperVars
<1>2. WellViewed
  BY <1>1 DEF SInv, TypeOK, WellViewed, Views
<1>3. Holding(known', blind', misled' \/ overtaken') /\ Current(look', misled', "none", None)
  BY <1>1 DEF Holding, Current
<1>. QED
  BY <1>1, <1>2, <1>3, EndKeeps

-----------------------------------------------------------------------------
(* The whole *)

LEMMA StartsSound == Init => SInv
<1> SUFFICES ASSUME Init PROVE SInv
  OBVIOUS
<1>1. /\ NoTask \in TaskType /\ NoTask.op = "none" /\ NoTask.call = None
      /\ NoTask.answer = None /\ NoTask.raced = FALSE
  BY NewTask
<1>2. Resting \in ThreadType /\ Resting.op = "none" /\ Resting.at = "none"
  BY DEF Resting, ThreadType
<1>3. /\ container \in ContainerType
      /\ Occupying(container.state) => container.model # None
  BY DEF Init, ContainerType, Occupying
<1>4. thread \in [Threads -> ThreadType] /\ \A t \in Threads : thread[t] = Resting
  BY <1>2 DEF Init
<1>5. TypeOK
  <2>1. /\ None \notin Threads /\ mutex = None /\ task = NoTask
        /\ known \in [Models -> Views] /\ look = None
        /\ {blind, misled, overtaken} \subseteq BOOLEAN
    BY ServiceAssumption DEF ServiceAssumption, Init, Views
  <2>. QED
    BY <1>1, <1>2, <1>3, <1>4, <2>1 DEF TypeOK, ContainerType
<1>6. Named /\ Asked
  BY <1>1, <1>2, <1>3, <1>4 DEF Init, Named, Asked, Kept
<1>7. Fresh /\ Sole
  BY <1>1, <1>2, <1>4 DEF Init, Fresh, Sole, Busy, Changes
<1>8. Holding(known, blind, misled \/ overtaken) /\ Current(look, misled, task.op, task.model)
  BY DEF Init, Holding, Current
<1>. QED
  BY <1>1, <1>5, <1>6, <1>7, <1>8 DEF SInv, Init

LEMMA StepSound == SInv /\ [Next]_vars => SInv'
<1> SUFFICES ASSUME SInv, [Next]_vars PROVE SInv'
  OBVIOUS
<1>1. CASE UNCHANGED vars
  <2>1. UNCHANGED <<container, thread, mutex, task, known, look, blind, misled, overtaken>>
    BY <1>1 DEF vars, dockerVars, helperVars, brokerVars
  <2>2. TypeOK'
    BY <2>1 DEF SInv, TypeOK
  <2>. QED
    BY <2>1, <2>2, ContainerMoves
<1>2. CASE Ready \/ Crash \/ ComesBack \/ Stopped
  BY <1>2, DockerKeeps
<1>3. ASSUME NEW t \in Threads, HelperStep(t) \/ CommandFails(t) PROVE SInv'
  BY <1>3, LockKeeps, ComposeKeeps, StatusKeeps DEF HelperStep
<1>4. CASE HelperRestarts \/ GiveUp \/ BrokerRestarts
  BY <1>4, RestartKeeps, GiveUpKeeps, BrokerKeeps
<1>5. ASSUME NEW m \in Models, Load(m) \/ Unload(m) \/ Adoption(m) \/ AdoptionFailed(m)
      PROVE  SInv'
  BY <1>5, LoadKeeps, UnloadKeeps, AdoptionKeeps, AdoptionFailedKeeps
<1>6. CASE SurveyRead \/ Merge \/ Deadline
  BY <1>6, SurveyKeeps, MergeKeeps, DeadlineKeeps
<1>7. CASE TaskStep
  BY <1>7, LoadCheckedKeeps, UnloadCheckedKeeps, ChangedKeeps, PollKeeps, AwaitLoadedKeeps,
     AwaitUnloadedKeeps, ConfirmFailedKeeps DEF TaskStep
<1>. QED
  BY <1>1, <1>2, <1>3, <1>4, <1>5, <1>6, <1>7 DEF Next

(* Every variable has its type, and the lock of the service is held by      *)
(* exactly the thread that changes the container or reads it afterwards     *)
(* (mutation in model-broker-service-control.py).                           *)
THEOREM LockIsHeld == Spec => []TypeOK
<1>1. SInv => TypeOK
  BY DEF SInv
<1>. QED
  BY <1>1, StartsSound, StepSound, PTL DEF Spec

(* The model whose container runs holds its resources in the broker's view, *)
(* whatever fails, is given up or restarts and however surveys overlap with *)
(* loads and unloads (managed.py, and reinspect in scheduler.py), unless an *)
(* answer was given while an abandoned change was under way, or that of a   *)
(* survey is merged after a load has ended that had not when it was given.  *)
THEOREM HolderIsTracked == Spec => []HolderTracked
<1>1. SInv => HolderTracked
  BY DEF SInv, Holding, HolderTracked
<1>. QED
  BY <1>1, StartsSound, StepSound, PTL DEF Spec

(* A container is asked to stop only to unload its own model: a start never *)
(* takes the place of a model that runs, and a stop never hits another one. *)
THEOREM StopsAreUnloads == Spec => StoppedToUnload
<1> DEFINE Meant ==
      ~container.ending /\ container'.ending /\ mutex = task.call /\ ~task.raced
        => task.op = "unload" /\ container.model = task.model
<1>1. SInv /\ [Next]_vars => [Meant]_vars
  <2> SUFFICES ASSUME SInv, Next PROVE Meant
    BY DEF vars
  <2>1. container \in ContainerType
    BY DEF SInv, TypeOK, ContainerType
  <2>2. ASSUME NEW t \in Threads, UpStopOld(t) \/ StopAsk(t) PROVE Meant
    <3> SUFFICES ASSUME mutex = task.call, ~task.raced
                 PROVE  task.op = "unload" /\ container.model = task.model
      OBVIOUS
    <3>1. /\ Occupying(container.state) /\ Changes(thread[t].op)
          /\ thread[t].at = "compose"
      BY <2>2 DEF UpStopOld, StopAsk, Composing, Changes
    <3>2. task.call = t /\ t \in Busy
      BY <3>1 DEF SInv, TypeOK, Changes, Busy
    <3>3. container.model = task.model
      BY <3>1, <3>2 DEF SInv, Sole
    <3>4. thread[t].op # "start"
      BY <2>2, <3>2, <3>3 DEF UpStopOld, StopAsk, Composing, SInv, Asked
    <3>. QED
      BY <3>1, <3>2, <3>3, <3>4 DEF SInv, Asked, Changes
  <2>3. CASE container'.ending => container.ending
    BY <2>3
  <2>4. ASSUME NEW t \in Threads, UpRemoveOld(t) \/ UpCreate(t) \/ UpStart(t)
        PROVE  container'.ending => container.ending
    <3>1. CASE UpRemoveOld(t)
      BY <3>1 DEF UpRemoveOld
    <3>2. CASE UpCreate(t)
      BY <2>1, <3>2 DEF UpCreate, ContainerType
    <3>3. CASE UpStart(t)
      <4> DEFINE state == IF Occupying(container.state) THEN container.state ELSE "running"
      <4>1. container' = [container EXCEPT !.state = state]
        BY <2>1, <3>3 DEF UpStart, ContainerType
      <4> HIDE DEF state
      <4>. QED
        BY <2>1, <4>1 DEF ContainerType
    <3>. QED
      BY <2>4, <3>1, <3>2, <3>3
  <2>5. ASSUME Ready \/ Crash \/ ComesBack \/ Stopped
        PROVE  container'.ending => container.ending
    BY <2>1, <2>5 DEF Ready, Crash, ComesBack, Stopped, ContainerType
  <2>6. ASSUME NEW t \in Threads,
               Lock(t) \/ StopDone(t) \/ List(t) \/ Inspect(t) \/ CommandFails(t)
        PROVE  container' = container
    BY <2>6 DEF Lock, StopDone, List, Inspect, CommandFails, dockerVars
  <2>7. ASSUME HelperRestarts \/ GiveUp \/ BrokerRestarts \/ SurveyRead \/ Merge
               \/ TaskStep \/ Deadline
        PROVE  container' = container
    BY <2>7 DEF HelperRestarts, GiveUp, BrokerRestarts, SurveyRead, Merge, TaskStep, Deadline,
       LoadChecked, UnloadChecked, Changed, Poll, AwaitLoaded, AwaitUnloaded, ConfirmFailed,
       dockerVars
  <2>8. ASSUME NEW m \in Models, Load(m) \/ Unload(m) \/ Adoption(m) \/ AdoptionFailed(m)
        PROVE  container' = container
    BY <2>8 DEF Load, Unload, Adoption, AdoptionFailed, dockerVars
  <2> HIDE DEF Meant
  <2>. QED
    BY <2>2, <2>3, <2>4, <2>5, <2>6, <2>7, <2>8 DEF Next, HelperStep
<1>. QED
  BY <1>1, StartsSound, StepSound, PTL DEF Spec, StoppedToUnload

=============================================================================
