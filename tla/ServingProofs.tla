---------------------------- MODULE ServingProofs ----------------------------
(***************************************************************************)
(* For any models, chats and number of faults: the adapter implements the  *)
(* protocol Backend, an unload that has returned well has freed the model, *)
(* no record that was chosen is unloaded under its own requests, and only  *)
(* clients that left are taken to have left.                               *)
(***************************************************************************)
EXTENDS Serving, TLAPS

Answers == {None} \cup BOOLEAN \cup [value : {"unloaded", "loading", "loaded"}, failed : BOOLEAN]

Calls == [op : Ops \cup {None},
          at : {"none", "post", "posted", "check", "checked", "poll", "polled", "sleep"},
          answer : Answers, late : BOOLEAN, met : BOOLEAN]

Results == {None} \cup [op : Ops, ok : BOOLEAN]

(* What the adapter keeps true of one model: a call that has met its state  *)
(* is marked so, even if it is an answer still on its way that says so;     *)
(* once an unload has met its state, or has returned well, the model stays  *)
(* unloaded; and a call begins only when the last result has been acted on. *)
Sound(w, c, r) ==
  /\ c.op # None /\ Reported(w).value = Expected(c.op) => c.met
  /\ c.op = "unload" /\ c.met => Reported(w).value = "unloaded"
  /\ c.at \in {"checked", "polled"} /\ c.answer.value = Expected(c.op) => c.met
  /\ c.at \in {"check", "checked"} => c.op = "unload"
  /\ c.at # "none" => c.op # None
  /\ c.op = None => ~c.met
  /\ r # None => c.op = None
  /\ r = [op |-> "unload", ok |-> TRUE] /\ c.op # "load" => Reported(w).value = "unloaded"

Shaped ==
  worker \in [Models -> WorkerState] /\ call \in [Models -> Calls] /\ result \in [Models -> Results]

AdapterInv == Shaped /\ \A m \in Models : Sound(worker[m], call[m], result[m])

ChatSet == [relay : Relaying \cup {"none", "close", "release"},
            watch : BOOLEAN, line : BOOLEAN, admitted : BOOLEAN,
            finishing : BOOLEAN, disconnected : BOOLEAN,
            cancelled : BOOLEAN, client : {"here", "gone", "served"},
            early : BOOLEAN]

(* What holds of one chat: the request to the router is closed before the   *)
(* admission ends.                                                          *)
Closing(c) ==
  /\ c.line => c.admitted
  /\ c.relay = "release" => ~c.line
  /\ c.relay = "none" => c = NoChat

ChatInv == chat \in [Chats -> ChatSet] /\ \A c \in Chats : Closing(chat[c])

(* No request is admitted to a record that is to be unloaded, and a model   *)
(* is asked to unload only for a swap that has chosen it.                   *)
Apart ==
  /\ target \in [Chats -> Models \cup {None}]
  /\ leaving \in [Models -> BOOLEAN] /\ victim \in [Models -> BOOLEAN]
  /\ \A m \in Models : leaving[m] => Admitted(m) = {}
  /\ \A m \in Models : call[m].op = "unload" => victim[m]

Inv == AdapterInv /\ ChatInv /\ Apart

-----------------------------------------------------------------------------
(* The adapter *)

(* What the router says of a worker is one of three states. *)
LEMMA ReportedShape ==
  ASSUME NEW w \in WorkerState
  PROVE  Reported(w) \in [value : {"unloaded", "loading", "loaded"}, failed : BOOLEAN]
  BY DEF WorkerState, Reported

(* A step on one model that leaves it sound leaves every model sound. *)
LEMMA OneModel ==
  ASSUME AdapterInv, NEW m \in Models,
         NEW w \in WorkerState, NEW c \in Calls, NEW r \in Results,
         worker' = [worker EXCEPT ![m] = w], call' = [call EXCEPT ![m] = c],
         result' = [result EXCEPT ![m] = r], Sound(w, c, r)
  PROVE  AdapterInv'
  <1>1. Shaped' BY DEF AdapterInv, Shaped
  <1>2. ASSUME NEW n \in Models PROVE Sound(worker[n], call[n], result[n])'
    <2>1. CASE n = m
      <3>1. worker'[n] = w /\ call'[n] = c /\ result'[n] = r BY <2>1 DEF AdapterInv, Shaped
      <3>. QED BY <3>1 DEF Sound, Reported
    <2>2. CASE n # m
      <3>1. worker'[n] = worker[n] /\ call'[n] = call[n] /\ result'[n] = result[n]
        BY <2>2 DEF AdapterInv, Shaped
      <3>2. Sound(worker[n], call[n], result[n]) BY DEF AdapterInv
      <3>. QED BY <3>1, <3>2 DEF Sound, Reported
    <2>. QED BY <2>1, <2>2
  <1>. QED BY <1>1, <1>2 DEF AdapterInv

(* A worker that changes, and the history that changes with it: sound if an *)
(* unloaded model is only taken up by a load.                               *)
LEMMA WorkerKeeps ==
  ASSUME AdapterInv, NEW m \in Models, NEW w \in WorkerState, NEW c \in Calls,
         Becomes(m, w, c), c.op = call[m].op, c.met = call[m].met,
         \/ c.at = call[m].at /\ c.answer = call[m].answer
         \/ c.at = "posted" /\ c.op # None,
         Reported(worker[m]).value = "unloaded" /\ Reported(w).value # "unloaded" => c.op = "load"
  PROVE  AdapterInv'
  <1>. DEFINE met == c.met \/ (c.op # None /\ Reported(w).value = Expected(c.op))
              d == [c EXCEPT !.met = met]
  <1>0. Sound(worker[m], call[m], result[m]) BY DEF AdapterInv
  <1>1. /\ worker \in [Models -> WorkerState] /\ call \in [Models -> Calls]
        /\ result \in [Models -> Results]
    BY DEF AdapterInv, Shaped
  <1>2. d = [op |-> c.op, at |-> c.at, answer |-> c.answer, late |-> c.late, met |-> met]
    BY DEF Calls
  <1>3. d \in Calls BY <1>2 DEF Calls
  <1>4. call' = [call EXCEPT ![m] = d] /\ worker' = [worker EXCEPT ![m] = w] BY DEF Becomes
  <1>5. result' = [result EXCEPT ![m] = result[m]] BY <1>1 DEF Becomes
  <1>6. Sound(w, d, result[m])
    <2>. HIDE DEF d
    <2>. USE <1>2
    <2>1. d.op # None /\ Reported(w).value = Expected(d.op) => d.met OBVIOUS
    <2>2. d.op = "unload" /\ d.met => Reported(w).value = "unloaded"
      BY <1>0 DEF Sound, Expected
    <2>3. d.at \in {"checked", "polled"} /\ d.answer.value = Expected(d.op) => d.met
      BY <1>0 DEF Sound
    <2>4. d.at \in {"check", "checked"} => d.op = "unload" BY <1>0 DEF Sound
    <2>5. d.at # "none" => d.op # None
      BY <1>0 DEF Sound
    <2>6. d.op = None => ~d.met BY <1>0 DEF Sound
    <2>8. result[m] # None => d.op = None BY <1>0 DEF Sound
    <2>7. result[m] = [op |-> "unload", ok |-> TRUE] /\ d.op # "load"
            => Reported(w).value = "unloaded"
      BY <1>0 DEF Sound
    <2>. QED BY <2>1, <2>2, <2>3, <2>4, <2>5, <2>6, <2>7, <2>8 DEF Sound
  <1>. HIDE DEF d
  <1>. QED BY <1>3, <1>4, <1>5, <1>6, <1>1, OneModel

(* The call goes one step further, with an answer perhaps.                  *)
LEMMA CallKeeps ==
  ASSUME AdapterInv, NEW m \in Models, NEW c \in Calls,
         UNCHANGED <<worker, result>>, call' = [call EXCEPT ![m] = c],
         c.op = call[m].op, c.met = call[m].met,
         c.at \in {"check", "checked"} => c.op = "unload",
         c.at # "none" => c.op # None,
         c.at \in {"checked", "polled"} =>
           c.answer = Reported(worker[m]) \/ (c.answer = call[m].answer /\ c.at = call[m].at)
  PROVE  AdapterInv'
  <1>1. /\ worker \in [Models -> WorkerState] /\ call \in [Models -> Calls]
        /\ result \in [Models -> Results]
    BY DEF AdapterInv, Shaped
  <1>2. Sound(worker[m], c, result[m])
    <2>1. Sound(worker[m], call[m], result[m]) BY DEF AdapterInv
    <2>. QED BY <2>1 DEF Sound
  <1>3. worker' = [worker EXCEPT ![m] = worker[m]] /\ result' = [result EXCEPT ![m] = result[m]]
    BY <1>1
  <1>. QED BY <1>1, <1>2, <1>3, OneModel

(* A call that returns: well only if its state has been met.                *)
LEMMA ReturnKeeps ==
  ASSUME AdapterInv, NEW m \in Models, NEW ok \in BOOLEAN,
         UNCHANGED worker, Returns(m, ok), call[m].op # None, ok => call[m].met
  PROVE  AdapterInv'
  <1>1. /\ worker \in [Models -> WorkerState] /\ call \in [Models -> Calls]
        /\ result \in [Models -> Results]
    BY DEF AdapterInv, Shaped
  <1>. DEFINE r == [op |-> call[m].op, ok |-> ok]
  <1>2. NoCall \in Calls BY DEF NoCall, Calls, Answers
  <1>3. r \in Results BY <1>1 DEF Results, Calls
  <1>4. Sound(worker[m], NoCall, r)
    <2>1. Sound(worker[m], call[m], result[m]) BY DEF AdapterInv
    <2>2. r = [op |-> "unload", ok |-> TRUE] => call[m].op = "unload" /\ ok OBVIOUS
    <2>3. /\ NoCall.op = None /\ NoCall.at = "none" /\ ~NoCall.met BY DEF NoCall
    <2>4. None # "unload" BY AdapterAssumption DEF Ops
    <2>. QED BY <2>1, <2>2, <2>3, <2>4 DEF Sound
  <1>5. worker' = [worker EXCEPT ![m] = worker[m]] BY <1>1
  <1>. QED BY <1>1, <1>2, <1>3, <1>4, <1>5, OneModel DEF Returns

pstate == [m \in Models |-> Reported(worker[m]).value]
pcall == [m \in Models |-> [op |-> call[m].op, met |-> call[m].met]]

(* How a step on one model looks to the protocol. *)
LEMMA SeenState ==
  ASSUME Shaped, NEW m \in Models, NEW w, worker' = [worker EXCEPT ![m] = w]
  PROVE  pstate' = [pstate EXCEPT ![m] = Reported(w).value]
  <1>1. ASSUME NEW n \in Models
        PROVE  Reported(worker'[n]).value
                 = IF n = m THEN Reported(w).value ELSE Reported(worker[n]).value
    BY DEF Shaped
  <1>. QED BY <1>1 DEF pstate, Reported

(* What the protocol sees of a call that is changed. *)
LEMMA SeenCall ==
  ASSUME Shaped, NEW m \in Models, NEW c, call' = [call EXCEPT ![m] = c]
  PROVE  pcall' = [pcall EXCEPT ![m] = [op |-> c.op, met |-> c.met]]
  <1>1. ASSUME NEW n \in Models
        PROVE  call'[n] = IF n = m THEN c ELSE call[n]
    BY DEF Shaped
  <1>. QED BY <1>1 DEF pcall

(* It sees nothing of a call that goes on for the same operation. *)
LEMMA SeenStutter ==
  ASSUME AdapterInv, NEW m \in Models, NEW c,
         UNCHANGED <<worker, result>>, call' = [call EXCEPT ![m] = c],
         c.op = call[m].op, c.met = call[m].met
  PROVE  UNCHANGED <<pstate, pcall, result>>
  <1>1. pcall' = [pcall EXCEPT ![m] = [op |-> c.op, met |-> c.met]]
    BY SeenCall DEF AdapterInv
  <1>2. pcall' = pcall BY <1>1 DEF pcall
  <1>3. pstate' = pstate BY DEF pstate, Reported
  <1>. QED BY <1>2, <1>3

(* A worker's change is the server's. *)
LEMMA WorkerServes ==
  ASSUME AdapterInv, NEW m \in Models, NEW w \in WorkerState, NEW c \in Calls,
         Becomes(m, w, c), c.op = call[m].op, c.met = call[m].met,
         Reported(worker[m]).value = "unloaded" /\ Reported(w).value # "unloaded" => c.op = "load"
  PROVE  Promise!Serve(m)
  <1>. DEFINE s == Reported(w).value
              met == c.met \/ (c.op # None /\ s = Expected(c.op))
              d == [c EXCEPT !.met = met]
  <1>1. Shaped BY DEF AdapterInv
  <1>2. d = [op |-> c.op, at |-> c.at, answer |-> c.answer, late |-> c.late, met |-> met]
    BY DEF Calls
  <1>3. s \in {"unloaded", "loading", "loaded"} BY ReportedShape
  <1>4. pstate' = [pstate EXCEPT ![m] = s] BY <1>1, SeenState DEF Becomes
  <1>5. pcall' = [pcall EXCEPT ![m] = [op |-> d.op, met |-> d.met]]
    <2>1. call' = [call EXCEPT ![m] = d] BY DEF Becomes
    <2>. HIDE DEF d
    <2>. QED BY <1>1, <2>1, SeenCall
  <1>6. d.op = c.op /\ d.met = met BY <1>2
  <1>7. pcall' = [pcall EXCEPT ![m].met =
                    @ \/ (pcall[m].op # None /\ s = Promise!Promised(pcall[m].op))]
    <2>1. pcall[m] = [op |-> c.op, met |-> c.met] BY DEF pcall
    <2>2. Promise!Promised(c.op) = Expected(c.op) BY DEF Promise!Promised, Expected
    <2>3. pcall[m].op = c.op /\ pcall[m].met = c.met BY <2>1
    <2>4. [pcall[m] EXCEPT !.met = met] = [op |-> c.op, met |-> met] BY <2>1
    <2>5. [pcall EXCEPT ![m].met = @ \/ (pcall[m].op # None /\ s = Promise!Promised(pcall[m].op))]
            = [pcall EXCEPT ![m] = [op |-> c.op, met |-> met]]
      BY <2>1, <2>2, <2>3, <2>4
    <2>. QED BY <1>5, <1>6, <2>5
  <1>8. pstate[m] = Reported(worker[m]).value /\ pcall[m].op = c.op BY DEF pstate, pcall
  <1>9. UNCHANGED result BY DEF Becomes
  <1>. HIDE DEF s, d, met
  <1>10. pstate[m] = "unloaded" /\ s # "unloaded" => pcall[m].op = "load" BY <1>8 DEF s
  <1>. QED BY <1>3, <1>4, <1>7, <1>9, <1>10 DEF Promise!Serve, pstate, pcall

(* A step of the adapter's state keeps it sound and is one of the protocol. *)
Implemented == AdapterInv' /\ (Promise!Next \/ UNCHANGED Promise!vars)

(* It begins no unload by itself, and a worker unloads only if asked to.    *)
Driven ==
  \A n \in Models :
    /\ call'[n].op = "unload" => call[n].op = "unload"
    /\ worker'[n] = "unloading" /\ worker[n] # "unloading" => call[n].op = "unload"

(* So a step of a worker implements the server's. *)
LEMMA WorkerStep ==
  ASSUME AdapterInv, NEW m \in Models, NEW w \in WorkerState, NEW c \in Calls,
         Becomes(m, w, c), c.op = call[m].op, c.met = call[m].met,
         \/ c.at = call[m].at /\ c.answer = call[m].answer
         \/ c.at = "posted" /\ c.op # None,
         Reported(worker[m]).value = "unloaded" /\ Reported(w).value # "unloaded" => c.op = "load",
         w = "unloading" => w = worker[m] \/ c.op = "unload"
  PROVE  Implemented /\ Driven
  <1>1. AdapterInv' BY WorkerKeeps
  <1>2. Promise!Serve(m) BY WorkerServes
  <1>3. Driven
    <2>. DEFINE met == c.met \/ (c.op # None /\ Reported(w).value = Expected(c.op))
                d == [c EXCEPT !.met = met]
    <2>1. d.op = c.op BY DEF Calls
    <2>2. worker' = [worker EXCEPT ![m] = w] /\ call' = [call EXCEPT ![m] = d] BY DEF Becomes
    <2>. HIDE DEF d
    <2>. QED BY <2>1, <2>2 DEF Driven, AdapterInv, Shaped
  <1>. QED BY <1>1, <1>2, <1>3 DEF Implemented, Promise!Next

(* A call that goes on without returning is no step of the protocol. *)
LEMMA CallStep ==
  ASSUME AdapterInv, NEW m \in Models, NEW c \in Calls,
         UNCHANGED <<worker, result>>, call' = [call EXCEPT ![m] = c],
         c.op = call[m].op, c.met = call[m].met,
         c.at \in {"check", "checked"} => c.op = "unload",
         c.at # "none" => c.op # None,
         c.at \in {"checked", "polled"} =>
           c.answer = Reported(worker[m]) \/ (c.answer = call[m].answer /\ c.at = call[m].at)
  PROVE  Implemented /\ Driven
  <1>1. AdapterInv' BY CallKeeps
  <1>2. UNCHANGED <<pstate, pcall, result>> BY SeenStutter
  <1>3. Driven BY DEF Driven, AdapterInv, Shaped
  <1>. QED BY <1>1, <1>2, <1>3 DEF Implemented, Promise!vars, pstate, pcall

(* A call that returns is the protocol's Return. *)
LEMMA ReturnStep ==
  ASSUME AdapterInv, NEW m \in Models, NEW ok \in BOOLEAN,
         UNCHANGED worker, Returns(m, ok), call[m].op # None, ok => call[m].met
  PROVE  Implemented /\ Driven
  <1>1. AdapterInv' BY ReturnKeeps
  <1>2. Promise!Return(m, ok)
    <2>1. pcall' = [pcall EXCEPT ![m] = [op |-> NoCall.op, met |-> NoCall.met]]
      BY SeenCall DEF Returns, AdapterInv
    <2>2. pcall' = [pcall EXCEPT ![m] = Promise!Quiet] BY <2>1 DEF NoCall, Promise!Quiet
    <2>3. pcall[m].op = call[m].op /\ pcall[m].met = call[m].met BY DEF pcall
    <2>4. pstate' = pstate BY DEF pstate, Reported
    <2>5. result' = [result EXCEPT ![m] = [op |-> pcall[m].op, ok |-> ok]]
      BY <2>3 DEF Returns
    <2>. QED BY <2>2, <2>3, <2>4, <2>5 DEF Promise!Return, pstate, pcall
  <1>3. Driven
    <2>1. None # "unload" BY AdapterAssumption DEF Ops
    <2>. QED BY <2>1 DEF Driven, Returns, NoCall, AdapterInv, Shaped
  <1>. QED BY <1>1, <1>2, <1>3 DEF Implemented, Promise!Next

(* The fields of a call that is changed. *)
LEMMA AnswerSet ==
  ASSUME NEW c \in Calls, NEW at, NEW answer
  PROVE  [c EXCEPT !.at = at, !.answer = answer]
           = [op |-> c.op, at |-> at, answer |-> answer, late |-> c.late, met |-> c.met]
  <1>1. [c EXCEPT !.at = at] = [op |-> c.op, at |-> at, answer |-> c.answer,
                                late |-> c.late, met |-> c.met]
    BY DEF Calls
  <1>2. [c EXCEPT !.at = at, !.answer = answer] = [[c EXCEPT !.at = at] EXCEPT !.answer = answer]
    OBVIOUS
  <1>3. [[op |-> c.op, at |-> at, answer |-> c.answer, late |-> c.late, met |-> c.met]
           EXCEPT !.answer = answer]
          = [op |-> c.op, at |-> at, answer |-> answer, late |-> c.late, met |-> c.met]
    OBVIOUS
  <1>. QED BY <1>1, <1>2, <1>3

(* The same for what is still on its way to the router. *)
LEMMA LateSet ==
  ASSUME NEW c \in Calls, NEW late
  PROVE  [c EXCEPT !.late = late]
           = [op |-> c.op, at |-> c.at, answer |-> c.answer, late |-> late, met |-> c.met]
  BY DEF Calls

(* The router's steps. *)
LEMMA RouterImplements ==
  ASSUME AdapterInv, NEW m \in Models, RouterStep(m)
  PROVE  Implemented /\ Driven
  <1>1. worker[m] \in WorkerState /\ call[m] \in Calls BY DEF AdapterInv, Shaped
  <1>2. None \notin Ops BY AdapterAssumption
  <1>3. /\ "loaded" \in WorkerState /\ "failed" \in WorkerState
        /\ "unloaded" \in WorkerState /\ "loading" \in WorkerState
        /\ "unloading" \in WorkerState
    BY DEF WorkerState
  <1>4. /\ Reported("failed").value = "unloaded" /\ Reported("unloaded").value = "unloaded"
        /\ Reported("loading").value = "loading" /\ Reported("loaded").value = "loaded"
        /\ Reported("unloading").value = "loaded"
    <2>1. "failed" \in {"unloaded", "failed"} /\ "unloaded" \in {"unloaded", "failed"} OBVIOUS
    <2>2. /\ "loading" \notin {"unloaded", "failed"} /\ "loading" \notin {"loaded", "unloading"}
          /\ "loaded" \notin {"unloaded", "failed"} /\ "unloading" \notin {"unloaded", "failed"}
      OBVIOUS
    <2>. QED BY <2>1, <2>2 DEF Reported
  <1>5. CASE Starts(m) BY <1>1, <1>3, <1>4, <1>5, WorkerStep DEF Starts
  <1>6. CASE LoadFails(m) BY <1>1, <1>3, <1>4, <1>6, WorkerStep DEF LoadFails
  <1>7. CASE Crashes(m) BY <1>1, <1>3, <1>4, <1>7, WorkerStep DEF Crashes
  <1>8. CASE Exits(m) BY <1>1, <1>3, <1>4, <1>8, WorkerStep DEF Exits
  <1>9. CASE TakesLoad(m)
    <2>. DEFINE accepted == worker[m] \in {"unloaded", "failed"}
                w == IF accepted THEN "loading" ELSE worker[m]
                c == [call[m] EXCEPT !.at = "posted", !.answer = accepted]
    <2>1. Becomes(m, w, c) /\ call[m].op = "load" BY <1>9 DEF TakesLoad
    <2>2. c = [op |-> call[m].op, at |-> "posted", answer |-> accepted,
               late |-> call[m].late, met |-> call[m].met]
      BY <1>1, AnswerSet
    <2>3. accepted \in Answers BY DEF Answers
    <2>4. c \in Calls BY <1>1, <2>2, <2>3 DEF Calls
    <2>5. w \in WorkerState BY <1>1, <1>3
    <2>6. c.op = "load" /\ c.met = call[m].met /\ c.at = "posted" BY <2>1, <2>2
    <2>7. "load" # None BY <1>2 DEF Ops
    <2>8. w = "unloading" => w = worker[m] BY "loading" # "unloading"
    <2>. HIDE DEF w, c
    <2>. QED BY <2>1, <2>4, <2>5, <2>6, <2>7, <2>8, WorkerStep
  <1>10. CASE TakesUnload(m)
    <2>. DEFINE accepted == worker[m] \in {"loading", "loaded", "unloading"}
                w == IF accepted THEN "unloading" ELSE worker[m]
                c == [call[m] EXCEPT !.at = "posted", !.answer = accepted]
    <2>1. Becomes(m, w, c) /\ call[m].op = "unload" BY <1>10 DEF TakesUnload
    <2>2. c = [op |-> call[m].op, at |-> "posted", answer |-> accepted,
               late |-> call[m].late, met |-> call[m].met]
      BY <1>1, AnswerSet
    <2>3. accepted \in Answers BY DEF Answers
    <2>4. c \in Calls BY <1>1, <2>2, <2>3 DEF Calls
    <2>5. w \in WorkerState BY <1>1, <1>3
    <2>6. c.op = "unload" /\ c.met = call[m].met /\ c.at = "posted" BY <2>1, <2>2
    <2>7. "unload" # None BY <1>2 DEF Ops
    <2>8. Reported(worker[m]).value = "unloaded" => Reported(w).value = "unloaded"
      BY <1>4, accepted => worker[m] \in {"loading", "loaded", "unloading"}
    <2>. HIDE DEF w, c
    <2>. QED BY <2>1, <2>4, <2>5, <2>6, <2>7, <2>8, WorkerStep
  <1>11. CASE Refuses(m)
    <2>. DEFINE c == [call[m] EXCEPT !.at = "posted", !.answer = FALSE]
    <2>1. c = [op |-> call[m].op, at |-> "posted", answer |-> FALSE,
               late |-> call[m].late, met |-> call[m].met]
      BY <1>1, AnswerSet
    <2>2. c \in Calls BY <1>1, <2>1 DEF Calls, Answers
    <2>3. call' = [call EXCEPT ![m] = c] /\ UNCHANGED <<worker, result>> /\ call[m].at # "none"
      BY <1>11 DEF Refuses
    <2>4. call[m].op # None BY <2>3 DEF AdapterInv, Sound
    <2>5. c.op = call[m].op /\ c.met = call[m].met /\ c.at = "posted" BY <2>1
    <2>. HIDE DEF c
    <2>. QED BY <2>2, <2>3, <2>4, <2>5, CallStep
  <1>12. CASE Lists(m)
    <2>. DEFINE at == IF call[m].at = "poll" THEN "polled" ELSE "checked"
                c == [call[m] EXCEPT !.at = at, !.answer = Reported(worker[m])]
    <2>1. c = [op |-> call[m].op, at |-> at, answer |-> Reported(worker[m]),
               late |-> call[m].late, met |-> call[m].met]
      BY <1>1, AnswerSet
    <2>2. Reported(worker[m]) \in Answers BY <1>1, ReportedShape DEF Answers
    <2>3. c \in Calls BY <1>1, <2>1, <2>2 DEF Calls
    <2>4. /\ call' = [call EXCEPT ![m] = c] /\ UNCHANGED <<worker, result>>
          /\ call[m].at \in {"check", "poll"}
      BY <1>12 DEF Lists
    <2>5. Sound(worker[m], call[m], result[m]) BY DEF AdapterInv
    <2>6. call[m].op # None /\ (at = "checked" => call[m].op = "unload")
      BY <2>4, <2>5 DEF Sound
    <2>7. /\ c.op = call[m].op /\ c.met = call[m].met /\ c.at = at
          /\ c.answer = Reported(worker[m]) /\ at \in {"checked", "polled"}
      BY <2>1
    <2>. HIDE DEF c, at
    <2>. QED BY <2>3, <2>4, <2>6, <2>7, CallStep
  <1>. QED BY <1>5, <1>6, <1>7, <1>8, <1>9, <1>10, <1>11, <1>12 DEF RouterStep

(* A call that only goes on keeps what it has been told. *)
LEMMA GoesImplements ==
  ASSUME AdapterInv, NEW m \in Models, NEW step \in {"check", "poll", "sleep"},
         Goes(m, step), UNCHANGED <<worker, result>>,
         call[m].op # None, step = "check" => call[m].op = "unload"
  PROVE  Implemented /\ Driven
  <1>. DEFINE c == [call[m] EXCEPT !.at = step]
  <1>1. call[m] \in Calls BY DEF AdapterInv, Shaped
  <1>2. c = [op |-> call[m].op, at |-> step, answer |-> call[m].answer,
             late |-> call[m].late, met |-> call[m].met]
    BY <1>1 DEF Calls
  <1>3. c \in Calls BY <1>1, <1>2 DEF Calls
  <1>4. c.op = call[m].op /\ c.met = call[m].met /\ c.at = step BY <1>2
  <1>5. call' = [call EXCEPT ![m] = c] BY DEF Goes
  <1>. HIDE DEF c
  <1>. QED BY <1>3, <1>4, <1>5, CallStep

(* The adapter's own steps. *)
LEMMA AdapterImplements ==
  ASSUME AdapterInv, NEW m \in Models, AdapterStep(m)
  PROVE  Implemented /\ Driven
  <1>1. call[m] \in Calls /\ Sound(worker[m], call[m], result[m])
    BY DEF AdapterInv, Shaped
  <1>2. CASE Lost(m) BY <1>2, ReturnStep DEF Lost
  <1>3. CASE Posted(m)
    <2>1. call[m].op # None BY <1>1, <1>3 DEF Posted, Sound
    <2>. QED BY <1>3, <2>1, GoesImplements, ReturnStep DEF Posted
  <1>4. CASE Checked(m)
    <2>1. call[m].op = "unload" /\ call[m].op # None BY <1>1, <1>4 DEF Checked, Sound
    <2>2. call[m].answer.value = "unloaded" => call[m].met
      BY <1>1, <1>4, <2>1 DEF Checked, Sound, Expected
    <2>. QED BY <1>4, <2>1, <2>2, ReturnStep DEF Checked
  <1>5. CASE Polled(m)
    <2>1. call[m].op # None BY <1>1, <1>5 DEF Polled, Sound
    <2>2. call[m].answer.value = Expected(call[m].op) => call[m].met
      BY <1>1, <1>5 DEF Polled, Sound
    <2>3. UNCHANGED worker BY <1>5 DEF Polled
    <2>4. \/ Returns(m, FALSE)
          \/ call[m].answer.value = Expected(call[m].op) /\ Returns(m, TRUE)
          \/ Goes(m, "sleep") /\ UNCHANGED result
      <3>1. CASE call[m].answer.failed BY <1>5, <3>1 DEF Polled
      <3>2. CASE ~call[m].answer.failed /\ call[m].answer.value = Expected(call[m].op)
        BY <1>5, <3>2 DEF Polled
      <3>3. CASE ~call[m].answer.failed /\ call[m].answer.value # Expected(call[m].op)
        BY <1>5, <3>3 DEF Polled
      <3>. QED BY <3>1, <3>2, <3>3
    <2>. QED BY <2>1, <2>2, <2>3, <2>4, GoesImplements, ReturnStep
  <1>6. CASE PollAgain(m)
    <2>1. call[m].op # None BY <1>1, <1>6 DEF PollAgain, Sound
    <2>. QED BY <1>6, <2>1, GoesImplements DEF PollAgain
  <1>7. CASE Deadline(m)
    <2>. DEFINE c == [call[m] EXCEPT !.late = TRUE]
    <2>1. c = [op |-> call[m].op, at |-> call[m].at, answer |-> call[m].answer,
               late |-> TRUE, met |-> call[m].met]
      BY <1>1, LateSet
    <2>2. c \in Calls BY <1>1, <2>1 DEF Calls
    <2>3. /\ c.op = call[m].op /\ c.met = call[m].met /\ c.at = call[m].at
          /\ c.answer = call[m].answer
      BY <2>1
    <2>4. call' = [call EXCEPT ![m] = c] /\ UNCHANGED <<worker, result>> BY <1>7 DEF Deadline
    <2>5. /\ c.at \in {"check", "checked"} => c.op = "unload"
          /\ c.at # "none" => c.op # None
      BY <1>1, <2>3 DEF Sound
    <2>. HIDE DEF c
    <2>. QED BY <2>2, <2>3, <2>4, <2>5, CallStep
  <1>. QED BY <1>2, <1>3, <1>4, <1>5, <1>6, <1>7 DEF AdapterStep

(* No result is not a result. *)
LEMMA NoResult == None # [op |-> "unload", ok |-> TRUE]
  <1>1. [op |-> "unload", ok |-> TRUE] \in [op : Ops, ok : BOOLEAN] BY DEF Ops
  <1>. QED BY <1>1, AdapterAssumption

(* The scheduler's part in the adapter's state: it asks, and it acts.       *)
LEMMA AskImplements ==
  ASSUME AdapterInv, NEW m \in Models, NEW op \in Ops, Ask(m, op)
  PROVE  Implemented
  <1>. DEFINE at == IF op = "wait" THEN "poll" ELSE "post"
              met == Reported(worker[m]).value = Expected(op)
              c == [op |-> op, at |-> at, answer |-> None, late |-> FALSE, met |-> met]
  <1>1. worker[m] \in WorkerState /\ result \in [Models -> Results] /\ worker \in [Models -> WorkerState]
    BY DEF AdapterInv, Shaped
  <1>2. c \in Calls BY DEF Calls, Answers
  <1>3. Sound(worker[m], c, result[m])
    <2>1. /\ c.op = op /\ c.at = at /\ c.met = met /\ c.op # None
          /\ at \notin {"check", "checked", "polled"}
      BY AdapterAssumption
    <2>2. result[m] = None BY DEF Ask
    <2>3. None # [op |-> "unload", ok |-> TRUE] BY NoResult
    <2>. HIDE DEF c, at
    <2>. QED BY <2>1, <2>2, <2>3 DEF Sound, Expected
  <1>4. call' = [call EXCEPT ![m] = c] BY DEF Ask
  <1>5. worker' = [worker EXCEPT ![m] = worker[m]] /\ result' = [result EXCEPT ![m] = result[m]]
    BY <1>1 DEF Ask
  <1>6. result[m] \in Results BY <1>1
  <1>7. Promise!Begin(m, op)
    <2>1. pcall' = [pcall EXCEPT ![m] = [op |-> op, met |-> met]]
      <3>1. c.op = op /\ c.met = met OBVIOUS
      <3>. HIDE DEF c
      <3>2. pcall' = [pcall EXCEPT ![m] = [op |-> c.op, met |-> c.met]]
        BY <1>4, SeenCall DEF AdapterInv
      <3>. QED BY <3>1, <3>2
    <2>2. call[m].op = None /\ ~call[m].met /\ call[m] \in Calls
      BY DEF Ask, AdapterInv, Sound, Shaped
    <2>3. pcall[m] = Promise!Quiet BY <2>2 DEF pcall, Promise!Quiet, Calls
    <2>4. pstate[m] = Reported(worker[m]).value /\ Expected(op) = Promise!Promised(op)
      BY DEF pstate, Promise!Promised, Expected
    <2>5. pstate' = pstate /\ result' = result BY DEF Ask, pstate, Reported
    <2>. QED BY <2>1, <2>3, <2>4, <2>5 DEF Promise!Begin, pstate, pcall
  <1>. HIDE DEF c
  <1>8. AdapterInv' BY <1>1, <1>2, <1>3, <1>4, <1>5, <1>6, OneModel
  <1>. QED BY <1>7, <1>8 DEF Implemented, Promise!Next, Ops

(* Once the scheduler has acted on it, a result is forgotten. *)
LEMMA ActImplements ==
  ASSUME AdapterInv, NEW m \in Models, UNCHANGED <<worker, call>>,
         result' = [result EXCEPT ![m] = None]
  PROVE  Implemented
  <1>1. /\ worker \in [Models -> WorkerState] /\ call \in [Models -> Calls]
    BY DEF AdapterInv, Shaped
  <1>2. worker' = [worker EXCEPT ![m] = worker[m]] /\ call' = [call EXCEPT ![m] = call[m]]
    BY <1>1
  <1>3. None # [op |-> "unload", ok |-> TRUE] BY NoResult
  <1>4. Sound(worker[m], call[m], None) BY <1>3 DEF AdapterInv, Sound
  <1>5. None \in Results BY DEF Results
  <1>6. AdapterInv' BY <1>1, <1>2, <1>4, <1>5, OneModel
  <1>7. pstate' = pstate /\ pcall' = pcall BY DEF pstate, pcall, Reported
  <1>8. Promise!Act(m) BY <1>7 DEF Promise!Act, pstate, pcall
  <1>. QED BY <1>6, <1>8 DEF Implemented, Promise!Next

-----------------------------------------------------------------------------
(* The chats *)

(* A step of one chat that leaves it closing in order, and that neither     *)
(* admits it nor opens a request.                                           *)
Closes(c) ==
  /\ ChatInv'
  /\ \A d \in Chats : (chat'[d].line => chat[d].line) /\ (chat'[d].admitted => chat[d].admitted)

(* A step that changes one chat is judged by what becomes of that chat. *)
LEMMA OneChat ==
  ASSUME ChatInv, NEW c \in Chats, NEW x \in ChatSet, chat' = [chat EXCEPT ![c] = x],
         Closing(x), x.line => chat[c].line, x.admitted => chat[c].admitted
  PROVE  Closes(c)
  BY DEF Closes, ChatInv

(* The end of the task group leaves the request to be closed. *)
LEMMA EndsCloses ==
  ASSUME ChatInv, NEW c \in Chats, NEW line \in BOOLEAN, line => chat[c].line,
         chat[c].relay \in Relaying, Ends(c, line)
  PROVE  Closes(c)
  <1>1. chat[c] \in ChatSet /\ Closing(chat[c]) /\ chat \in [Chats -> ChatSet] BY DEF ChatInv
  <1>. DEFINE early == chat[c].early /\ chat[c].disconnected
              x == [relay |-> "close", watch |-> FALSE, line |-> line,
                    admitted |-> chat[c].admitted, finishing |-> FALSE,
                    disconnected |-> chat[c].disconnected, cancelled |-> FALSE,
                    client |-> chat[c].client, early |-> early]
  <1>2. chat' = [chat EXCEPT ![c] = x] BY DEF Ends
  <1>3. x \in ChatSet /\ Closing(x) /\ x.line = line /\ x.admitted = chat[c].admitted
    BY <1>1 DEF ChatSet, Closing
  <1>. HIDE DEF x
  <1>. QED BY <1>2, <1>3, OneChat

(* Every step of a chat but its admission and its request is of that kind. *)
LEMMA ChatCloses ==
  ASSUME ChatInv, NEW c \in Chats, ChatStep(c)
  PROVE  Closes(c)
  <1>1. chat[c] \in ChatSet /\ Closing(chat[c]) /\ chat \in [Chats -> ChatSet] BY DEF ChatInv
  <1>2. NoChat \in ChatSet /\ NoChat.relay = "none" /\ ~NoChat.line /\ ~NoChat.admitted
    BY DEF NoChat, ChatSet
  <1>. USE DEF Closing, ChatSet, Relaying
  <1>3. CASE Opened(c)
    BY <1>1, <1>2, <1>3, OneChat DEF Opened, Relay
  <1>4. CASE NotOpened(c)
    BY <1>1, <1>2, <1>4, OneChat DEF NotOpened
  <1>5. CASE Chunk(c)
    BY <1>1, <1>2, <1>5, OneChat DEF Chunk, Relay
  <1>6. CASE BodyEnds(c)
    BY <1>1, <1>2, <1>6, OneChat DEF BodyEnds
  <1>7. CASE Forwarded(c)
    BY <1>1, <1>2, <1>7, OneChat DEF Forwarded, Relay
  <1>8. CASE Sent(c)
    BY <1>1, <1>2, <1>8, OneChat DEF Sent
  <1>9. CASE Returned(c)
    BY <1>1, <1>9, EndsCloses DEF Returned
  <1>10. CASE Leaves(c)
    BY <1>1, <1>2, <1>10, OneChat DEF Leaves
  <1>11. CASE Notices(c)
    <2>. DEFINE b == ~chat[c].finishing
                x == [[[chat[c] EXCEPT !.watch = FALSE] EXCEPT !.disconnected = b]
                        EXCEPT !.cancelled = b]
    <2>1. chat' = [chat EXCEPT ![c] = x] BY <1>1, <1>11 DEF Notices
    <2>2. b \in BOOLEAN OBVIOUS
    <2>3. x \in ChatSet /\ Closing(x) /\ x.line = chat[c].line /\ x.admitted = chat[c].admitted
      <3>1. chat[c].relay # "none" BY <1>1, <1>11 DEF Notices, NoChat
      <3>2. x \in ChatSet
        <4>. HIDE DEF b
        <4>. QED BY <1>1, <2>2
      <3>3. /\ x.relay = chat[c].relay /\ x.line = chat[c].line
            /\ x.admitted = chat[c].admitted
        <4>. HIDE DEF b
        <4>. QED BY <1>1, <2>2
      <3>. HIDE DEF x
      <3>. QED BY <1>1, <3>1, <3>2, <3>3
    <2>. HIDE DEF x
    <2>. QED BY <2>1, <2>3, OneChat
  <1>12. CASE Cut(c)
    BY <1>1, <1>12, EndsCloses DEF Cut, CutOff
  <1>13. CASE Abort(c)
    BY <1>1, <1>13, EndsCloses DEF Abort, CutOff
  <1>14. CASE CloseLine(c)
    <2>1. PICK fails \in BOOLEAN :
            chat' = [chat EXCEPT ![c].relay = "release", ![c].line = FALSE,
                                 ![c].disconnected = @ /\ ~fails]
      BY <1>14 DEF CloseLine
    <2>. DEFINE b == chat[c].disconnected /\ ~fails
                x == [[[chat[c] EXCEPT !.relay = "release"] EXCEPT !.line = FALSE]
                        EXCEPT !.disconnected = b]
    <2>2. chat' = [chat EXCEPT ![c] = x] BY <1>1, <2>1
    <2>3. b \in BOOLEAN OBVIOUS
    <2>4. x \in ChatSet /\ Closing(x) /\ ~x.line /\ x.admitted = chat[c].admitted
      <3>. HIDE DEF b
      <3>. QED BY <1>1, <2>3
    <2>. HIDE DEF x
    <2>. QED BY <2>2, <2>4, OneChat
  <1>15. CASE ReleaseAdmission(c)
    BY <1>1, <1>2, <1>15, OneChat DEF ReleaseAdmission
  <1>. QED
    BY <1>3, <1>4, <1>5, <1>6, <1>7, <1>8, <1>9, <1>10, <1>11, <1>12, <1>13, <1>14, <1>15 DEF ChatStep, SendStep

-----------------------------------------------------------------------------
(* The whole *)

(* The invariant holds at the start, where the protocol starts too. *)
LEMMA Begins == Init => Inv /\ Promise!Init
  <1>. SUFFICES ASSUME Init PROVE Inv /\ Promise!Init
    OBVIOUS
  <1>. USE DEF Init, AdapterInit, ChatInit
  <1>1. /\ NoCall \in Calls /\ NoCall.op = None /\ NoCall.at = "none" /\ ~NoCall.met
        /\ None # "unload"
    BY AdapterAssumption DEF NoCall, Calls, Answers, Ops
  <1>2. Shaped BY <1>1 DEF Shaped, WorkerState, Results
  <1>3. ASSUME NEW m \in Models PROVE Sound(worker[m], call[m], result[m])
    <2>1. call[m] = NoCall /\ result[m] = None OBVIOUS
    <2>. QED BY <2>1, <1>1, NoResult DEF Sound
  <1>4. ChatInv BY DEF ChatInv, ChatSet, Closing, NoChat, Relaying
  <1>5. Apart BY <1>1 DEF Apart
  <1>6. Promise!Init
    <2>1. pstate \in [Models -> {"unloaded", "loading", "loaded"}]
      BY <1>2, ReportedShape DEF pstate, Shaped
    <2>2. pcall = [m \in Models |-> Promise!Quiet] BY DEF pcall, Promise!Quiet, NoCall
    <2>. QED BY <2>1, <2>2 DEF Promise!Init, pstate, pcall
  <1>. QED BY <1>2, <1>3, <1>4, <1>5, <1>6 DEF Inv, AdapterInv

(* What a step does: the invariant stays, the protocol is followed, and no  *)
(* model is unloaded under a request for the record that was chosen.        *)
Undisturbed ==
  \A m \in Models :
    worker[m] # "unloading" /\ worker'[m] = "unloading" =>
      /\ victim[m]
      /\ leaving[m] => ~\E c \in Chats : target[c] = m /\ chat[c].line

Right == Inv' /\ (Promise!Next \/ UNCHANGED Promise!vars) /\ Undisturbed

(* Nobody is admitted to a record that is chosen, and the router starts to  *)
(* unload only the models that are.                                         *)
LEMMA AdapterRight ==
  ASSUME Inv, Implemented, Driven, UNCHANGED <<chat, target, leaving, victim>>
  PROVE  Right
  <1>1. ChatInv' BY DEF Inv, ChatInv
  <1>2. Apart' BY DEF Inv, Apart, Driven, Admitted
  <1>3. Undisturbed BY DEF Inv, ChatInv, Closing, Apart, Driven, Undisturbed, Admitted
  <1>. QED BY <1>1, <1>2, <1>3 DEF Right, Inv, Implemented

(* The scheduler looks at a result, and changes no chat.                    *)
LEMMA ResultRight ==
  ASSUME Inv, NEW m \in Models, UNCHANGED <<worker, call>>,
         result' = [result EXCEPT ![m] = None], UNCHANGED chat, Apart'
  PROVE  Right
  <1>1. Implemented BY ActImplements DEF Inv
  <1>2. ChatInv' BY DEF Inv, ChatInv
  <1>3. Undisturbed BY DEF Undisturbed
  <1>. QED BY <1>1, <1>2, <1>3 DEF Right, Inv, Implemented

(* The workers and what the adapter does are as they were. *)
LEMMA ChatsRight ==
  ASSUME Inv, UNCHANGED adapterVars, ChatInv', Apart'
  PROVE  Right
  <1>1. AdapterInv' BY DEF Inv, AdapterInv, Shaped, adapterVars, Sound, Reported
  <1>2. UNCHANGED Promise!vars BY DEF Promise!vars, adapterVars, Reported
  <1>3. Undisturbed BY DEF Undisturbed, adapterVars
  <1>. QED BY <1>1, <1>2, <1>3 DEF Right, Inv

(* The scheduler changes what it knows, and perhaps its victims: only one   *)
(* that nobody is admitted to is chosen, and none is given up while it is   *)
(* being unloaded.                                                          *)
LEMMA ViewRight ==
  ASSUME Inv, UNCHANGED <<adapterVars, chat, target>>,
         leaving' \in [Models -> BOOLEAN], victim' \in [Models -> BOOLEAN],
         \A m \in Models : leaving'[m] => leaving[m] \/ Admitted(m) = {},
         \A m \in Models : victim[m] /\ ~victim'[m] => call[m].op # "unload"
  PROVE  Right
  <1>1. ChatInv' BY DEF Inv, ChatInv
  <1>2. Apart' BY DEF Inv, Apart, Admitted, adapterVars
  <1>. QED BY <1>1, <1>2, ChatsRight

(* The scheduler's steps. *)
LEMMA SchedulerRight ==
  ASSUME Inv, NEW m \in Models, SchedulerStep(m)
  PROVE  Right
  <1>0. /\ leaving \in [Models -> BOOLEAN] /\ victim \in [Models -> BOOLEAN]
        /\ target \in [Chats -> Models \cup {None}]
        /\ call \in [Models -> Calls] /\ None # "unload"
    BY AdapterAssumption DEF Inv, Apart, AdapterInv, Shaped, Ops
  <1>1. CASE Choose(m) BY <1>0, <1>1, ViewRight DEF Choose
  <1>2. CASE AskUnload(m)
    <2>1. Implemented BY <1>2, AskImplements DEF AskUnload, Inv, Ops
    <2>2. Apart' BY <1>0, <1>2 DEF AskUnload, Ask, schedulerVars, Inv, Apart, Admitted
    <2>3. ChatInv' /\ Undisturbed BY <1>2 DEF AskUnload, Ask, Inv, ChatInv, Undisturbed
    <2>. QED BY <2>1, <2>2, <2>3 DEF Right, Inv, Implemented
  <1>3. CASE Spare(m) BY <1>0, <1>3, ViewRight DEF Spare
  <1>4. CASE UnloadReturns(m)
    <2>1. call[m].op = None BY <1>4 DEF UnloadReturns, Inv, AdapterInv, Sound
    <2>2. target' \in [Chats -> Models \cup {None}] /\ \A n \in Models : Admitted(n)' \subseteq Admitted(n)
      <3>1. CASE target' = [c \in Chats |-> IF target[c] = m THEN None ELSE target[c]]
        BY <1>0, <1>4, <3>1, ServingAssumption DEF UnloadReturns, Admitted
      <3>2. CASE UNCHANGED target BY <1>0, <1>4, <3>2 DEF UnloadReturns, Admitted
      <3>. QED BY <1>4, <3>1, <3>2 DEF UnloadReturns
    <2>3. Apart' BY <1>0, <1>4, <2>1, <2>2 DEF UnloadReturns, Inv, Apart
    <2>. QED BY <1>4, <2>3, ResultRight DEF UnloadReturns
  <1>5. CASE Place(m) \/ Withdraw(m) \/ WaitBeside(m) \/ Confirm(m)
    BY <1>0, <1>5, ViewRight DEF Place, Withdraw, WaitBeside, Confirm
  <1>6. CASE AskLoad(m) \/ AskWait(m)
    <2>1. Implemented BY <1>6, AskImplements DEF AskLoad, AskWait, Inv, Ops
    <2>2. Driven BY <1>6 DEF AskLoad, AskWait, Ask, Driven, Inv, AdapterInv, Shaped
    <2>3. UNCHANGED <<chat, target, leaving, victim>> BY <1>6 DEF AskLoad, AskWait, schedulerVars
    <2>. QED BY <2>1, <2>2, <2>3, AdapterRight
  <1>7. CASE LoadReturns(m)
    <2>1. Apart' BY <1>7 DEF LoadReturns, Inv, Apart, Admitted
    <2>. QED BY <1>7, <2>1, ResultRight DEF LoadReturns
  <1>8. ASSUME NEW c \in Chats, Admit(c, m) PROVE Right
    <2>. DEFINE x == [[[[NoChat EXCEPT !.relay = "open"] EXCEPT !.watch = TRUE]
                        EXCEPT !.line = TRUE] EXCEPT !.admitted = TRUE]
    <2>1. chat' = [chat EXCEPT ![c] = x] BY <1>8 DEF Admit, Enter
    <2>2. x \in ChatSet /\ Closing(x)
      <3>1. NoChat \in ChatSet BY DEF NoChat, ChatSet
      <3>2. x \in ChatSet /\ x.relay = "open" /\ x.admitted
        BY <3>1 DEF ChatSet, Relaying
      <3>. HIDE DEF x
      <3>. QED BY <3>2 DEF Closing
    <2>3. ChatInv'
      <3>. HIDE DEF x
      <3>. QED BY <2>1, <2>2 DEF Inv, ChatInv
    <2>4. ASSUME NEW n \in Models, leaving'[n] PROVE Admitted(n)' = {}
      <3>1. n # m /\ Admitted(n) = {}
        BY <1>8, <2>4 DEF Admit, Inv, Apart
      <3>2. \A d \in Chats : d # c => chat'[d] = chat[d] /\ target'[d] = target[d]
        BY <1>0, <1>8, <2>1 DEF Admit, Inv, ChatInv
      <3>3. target'[c] = m BY <1>0, <1>8 DEF Admit
      <3>. QED BY <3>1, <3>2, <3>3 DEF Admitted
    <2>5. Apart' BY <1>8, <2>4 DEF Apart, Inv, Admit, adapterVars
    <2>. QED BY <1>8, <2>3, <2>5, ChatsRight DEF Admit
  <1>. QED BY <1>1, <1>2, <1>3, <1>4, <1>5, <1>6, <1>7, <1>8 DEF SchedulerStep

(* Every step of the whole keeps the invariant and all that is promised. *)
LEMMA StepRight == Inv /\ [Next]_vars => Right
  <1>. SUFFICES ASSUME Inv, [Next]_vars PROVE Right
    OBVIOUS
  <1>0. leaving \in [Models -> BOOLEAN] /\ victim \in [Models -> BOOLEAN] BY DEF Inv, Apart
  <1>1. CASE UNCHANGED vars
    BY <1>0, <1>1, ViewRight DEF vars, adapterVars
  <1>2. ASSUME NEW m \in Models,
               (RouterStep(m) \/ AdapterStep(m)) /\ UNCHANGED <<chat, schedulerVars>>
        PROVE  Right
    BY <1>2, RouterImplements, AdapterImplements, AdapterRight DEF Inv, schedulerVars
  <1>3. ASSUME NEW m \in Models, SchedulerStep(m) PROVE Right
    BY <1>3, SchedulerRight
  <1>4. ASSUME NEW c \in Chats, ChatStep(c) /\ UNCHANGED <<adapterVars, schedulerVars>>
        PROVE  Right
    <2>1. Closes(c) BY <1>4, ChatCloses DEF Inv
    <2>2. Apart' BY <1>4, <2>1 DEF Closes, adapterVars, schedulerVars, Inv, Apart, Admitted
    <2>. QED BY <1>4, <2>1, <2>2, ChatsRight DEF Closes
  <1>5. CASE SurveyRead BY <1>0, <1>5, ViewRight DEF SurveyRead
  <1>6. CASE Merge BY <1>0, <1>6, ViewRight DEF Merge, adapterVars
  <1>. QED BY <1>1, <1>2, <1>3, <1>4, <1>5, <1>6 DEF Next

(* While the router may work on a request, the request is admitted, so that *)
(* its model counts as in use (stream in proxy.py, admit in scheduler.py).  *)
THEOREM OpenIsAdmitted == Spec => []AdmittedWhileOpen
  <1>1. Init => Inv BY Begins
  <1>2. Inv /\ [Next]_vars => Inv' BY StepRight DEF Right
  <1>3. Inv => AdmittedWhileOpen BY DEF Inv, ChatInv, Closing, AdmittedWhileOpen
  <1>. QED BY <1>1, <1>2, <1>3, PTL DEF Spec

(* An unload that unload() of LlamaAdapter reports as done has freed the    *)
(* model, whatever was refused, lost or late on the way.                    *)
THEOREM UnloadFrees == Spec => []Freed
  <1>1. Init => Inv BY Begins
  <1>2. Inv /\ [Next]_vars => Inv' BY StepRight DEF Right
  <1>3. Inv => Freed BY DEF Inv, AdapterInv, Sound, Freed, Promise!Freed
  <1>. QED BY <1>1, <1>2, <1>3, PTL DEF Spec

(* The router starts to unload only victims, and none while it works on a   *)
(* request that is admitted to the record that was chosen (place and swap   *)
(* in scheduler.py): requests in progress are cut off only on a record that *)
(* reinspect has put in the place of a failed one in the meantime.          *)
THEOREM NeverUnderRequest == Spec => UnloadsIdle
  <1>1. Init => Inv BY Begins
  <1>2. Inv /\ [Next]_vars => Inv' BY StepRight DEF Right
  <1>3. Inv /\ [Next]_vars => [Undisturbed]_vars BY StepRight DEF Right
  <1>4. Spec => [][Undisturbed]_vars BY <1>1, <1>2, <1>3, PTL DEF Spec
  <1>. QED BY <1>4 DEF UnloadsIdle, Undisturbed

(* LlamaAdapter, with the router and its workers, implements the protocol   *)
(* Backend that the scheduler is written against.                           *)
THEOREM AdapterImplementsBackend == Spec => ImplementsBackend
  <1>1. Init => Inv /\ Promise!Init BY Begins
  <1>2. Inv /\ [Next]_vars => Inv' /\ [Promise!Next]_(Promise!vars) BY StepRight DEF Right
  <1>. QED BY <1>1, <1>2, PTL DEF Spec, ImplementsBackend, Promise!Spec

-----------------------------------------------------------------------------
(* Who has left *)

(* A client is taken to have left only if it did: the last part is sent     *)
(* with finishing set, and only a client that leaves before is noted.       *)
Told(c) ==
  /\ c.disconnected => c.early
  /\ c.relay \in {"last", "sent"} => c.finishing
  /\ c.relay \in Relaying /\ ~c.finishing =>
       c.client # "served" /\ (c.client = "gone" => c.early)
  /\ c.watch => c.relay \in Relaying
  /\ c.relay = "none" => c = NoChat

ToldInv == chat \in [Chats -> ChatSet] /\ \A c \in Chats : Told(chat[c])

(* A step of one chat is judged by what becomes of that chat. *)
LEMMA OneTold ==
  ASSUME ToldInv, NEW c \in Chats, NEW x \in ChatSet, chat' = [chat EXCEPT ![c] = x],
         Told(x)
  PROVE  ToldInv'
  BY DEF ToldInv

(* The end of the task group keeps what was told, and forgets the rest. *)
LEMMA EndsTold ==
  ASSUME ToldInv, NEW c \in Chats, NEW line \in BOOLEAN, Ends(c, line)
  PROVE  ToldInv'
  <1>1. chat[c] \in ChatSet /\ Told(chat[c]) /\ chat \in [Chats -> ChatSet] BY DEF ToldInv
  <1>. DEFINE early == chat[c].early /\ chat[c].disconnected
              x == [relay |-> "close", watch |-> FALSE, line |-> line,
                    admitted |-> chat[c].admitted, finishing |-> FALSE,
                    disconnected |-> chat[c].disconnected, cancelled |-> FALSE,
                    client |-> chat[c].client, early |-> early]
  <1>2. chat' = [chat EXCEPT ![c] = x] BY DEF Ends
  <1>3. x \in ChatSet BY <1>1 DEF ChatSet
  <1>4. x.relay = "close" /\ ~x.watch /\ (x.disconnected => x.early)
    BY <1>1 DEF Told
  <1>. HIDE DEF x
  <1>5. Told(x) BY <1>4 DEF Told, Relaying
  <1>. QED BY <1>2, <1>3, <1>5, OneTold

LEMMA ChatTold ==
  ASSUME ToldInv, NEW c \in Chats, ChatStep(c)
  PROVE  ToldInv'
  <1>1. chat[c] \in ChatSet /\ Told(chat[c]) /\ chat \in [Chats -> ChatSet] BY DEF ToldInv
  <1>2. /\ NoChat \in ChatSet /\ NoChat.relay = "none" /\ ~NoChat.disconnected /\ ~NoChat.watch
    BY DEF NoChat, ChatSet
  <1>. USE DEF ChatSet, Relaying
  <1>3. CASE Opened(c)
    BY <1>1, <1>2, <1>3, OneTold DEF Opened, Relay, Told
  <1>4. CASE NotOpened(c)
    <2>. DEFINE x == [[[chat[c] EXCEPT !.relay = "last"] EXCEPT !.line = FALSE] EXCEPT !.finishing = TRUE]
    <2>1. chat' = [chat EXCEPT ![c] = x] BY <1>1, <1>4 DEF NotOpened
    <2>2. /\ x \in ChatSet
          /\ x.relay = "last" /\ x.watch = chat[c].watch /\ x.finishing = TRUE
          /\ x.disconnected = chat[c].disconnected /\ x.client = chat[c].client /\ x.early = chat[c].early
      BY <1>1
    <2>. HIDE DEF x
    <2>3. Told(x) BY <1>1, <1>2, <1>4, <2>2 DEF Told, NotOpened
    <2>. QED BY <2>1, <2>2, <2>3, OneTold
  <1>5. CASE Chunk(c)
    BY <1>1, <1>2, <1>5, OneTold DEF Chunk, Relay, Told
  <1>6. CASE BodyEnds(c)
    <2>. DEFINE x == [[chat[c] EXCEPT !.relay = "last"] EXCEPT !.finishing = TRUE]
    <2>1. chat' = [chat EXCEPT ![c] = x] BY <1>1, <1>6 DEF BodyEnds
    <2>2. /\ x \in ChatSet
          /\ x.relay = "last" /\ x.watch = chat[c].watch /\ x.finishing = TRUE
          /\ x.disconnected = chat[c].disconnected /\ x.client = chat[c].client /\ x.early = chat[c].early
      BY <1>1
    <2>. HIDE DEF x
    <2>3. Told(x) BY <1>1, <1>2, <1>6, <2>2 DEF Told, BodyEnds
    <2>. QED BY <2>1, <2>2, <2>3, OneTold
  <1>7. CASE Forwarded(c)
    BY <1>1, <1>2, <1>7, OneTold DEF Forwarded, Relay, Told
  <1>8. CASE Sent(c)
    <2>. DEFINE now == IF chat[c].client = "here" THEN "served" ELSE chat[c].client
                x == [[chat[c] EXCEPT !.relay = "sent"] EXCEPT !.client = now]
    <2>1. chat' = [chat EXCEPT ![c] = x] BY <1>1, <1>8 DEF Sent
    <2>2. now \in {"here", "gone", "served"} BY <1>1
    <2>3. /\ x \in ChatSet
          /\ x.relay = "sent" /\ x.watch = chat[c].watch /\ x.finishing = chat[c].finishing
          /\ x.disconnected = chat[c].disconnected /\ x.client = now /\ x.early = chat[c].early
      <3>. HIDE DEF now
      <3>. QED BY <1>1, <2>2
    <2>. HIDE DEF x
    <2>4. Told(x) BY <1>1, <1>2, <1>8, <2>3 DEF Told, Sent
    <2>. QED BY <2>1, <2>3, <2>4, OneTold
  <1>9. CASE Returned(c)
    BY <1>1, <1>9, EndsTold DEF Returned
  <1>10. CASE Leaves(c)
    <2>. DEFINE b == ~chat[c].finishing
                x == [[chat[c] EXCEPT !.client = "gone"] EXCEPT !.early = b]
    <2>1. chat' = [chat EXCEPT ![c] = x] BY <1>1, <1>10 DEF Leaves
    <2>2. b \in BOOLEAN BY <1>1
    <2>3. /\ x \in ChatSet
          /\ x.relay = chat[c].relay /\ x.watch = chat[c].watch /\ x.finishing = chat[c].finishing
          /\ x.disconnected = chat[c].disconnected /\ x.client = "gone" /\ x.early = b
      <3>. HIDE DEF b
      <3>. QED BY <1>1, <2>2
    <2>. HIDE DEF x
    <2>4. Told(x) BY <1>1, <1>2, <1>10, <2>3 DEF Told, Leaves
    <2>. QED BY <2>1, <2>3, <2>4, OneTold
  <1>11. CASE Notices(c)
    <2>. DEFINE b == ~chat[c].finishing
                x == [[[chat[c] EXCEPT !.watch = FALSE] EXCEPT !.disconnected = b] EXCEPT !.cancelled = b]
    <2>1. chat' = [chat EXCEPT ![c] = x] BY <1>1, <1>11 DEF Notices
    <2>2. b \in BOOLEAN BY <1>1
    <2>3. /\ x \in ChatSet
          /\ x.relay = chat[c].relay /\ x.watch = FALSE /\ x.finishing = chat[c].finishing
          /\ x.disconnected = b /\ x.client = chat[c].client /\ x.early = chat[c].early
      <3>. HIDE DEF b
      <3>. QED BY <1>1, <2>2
    <2>. HIDE DEF x
    <2>4. Told(x) BY <1>1, <1>2, <1>11, <2>3 DEF Told, Notices
    <2>. QED BY <2>1, <2>3, <2>4, OneTold
  <1>12. CASE Cut(c)
    BY <1>1, <1>12, EndsTold DEF Cut, CutOff
  <1>13. CASE Abort(c)
    BY <1>1, <1>13, EndsTold DEF Abort, CutOff
  <1>14. CASE CloseLine(c)
    <2>1. PICK fails \in BOOLEAN :
            chat' = [chat EXCEPT ![c].relay = "release", ![c].line = FALSE,
                                 ![c].disconnected = @ /\ ~fails]
      BY <1>14 DEF CloseLine
    <2>. DEFINE b == chat[c].disconnected /\ ~fails
                x == [[[chat[c] EXCEPT !.relay = "release"] EXCEPT !.line = FALSE] EXCEPT !.disconnected = b]
    <2>2. chat' = [chat EXCEPT ![c] = x] BY <1>1, <2>1
    <2>3. b \in BOOLEAN BY <1>1
    <2>4. /\ x \in ChatSet
          /\ x.relay = "release" /\ x.watch = chat[c].watch /\ x.finishing = chat[c].finishing
          /\ x.disconnected = b /\ x.client = chat[c].client /\ x.early = chat[c].early
      <3>. HIDE DEF b
      <3>. QED BY <1>1, <2>3
    <2>. HIDE DEF x
    <2>5. Told(x) BY <1>1, <1>2, <1>14, <2>4, <2>1 DEF Told, CloseLine
    <2>. QED BY <2>2, <2>4, <2>5, OneTold
  <1>15. CASE ReleaseAdmission(c)
    BY <1>1, <1>2, <1>15, OneTold DEF ReleaseAdmission, Told
  <1>. QED
    BY <1>3, <1>4, <1>5, <1>6, <1>7, <1>8, <1>9, <1>10, <1>11, <1>12, <1>13, <1>14, <1>15 DEF ChatStep, SendStep

LEMMA EnterTold ==
  ASSUME ToldInv, NEW c \in Chats, Enter(c)
  PROVE  ToldInv'
  <1>1. chat[c] \in ChatSet /\ chat \in [Chats -> ChatSet] BY DEF ToldInv
  <1>. DEFINE x == [NoChat EXCEPT !.relay = "open", !.watch = TRUE,
                                  !.line = TRUE, !.admitted = TRUE]
  <1>2. chat' = [chat EXCEPT ![c] = x] BY DEF Enter
  <1>3. NoChat \in ChatSet BY DEF NoChat, ChatSet
  <1>4. /\ x \in ChatSet /\ x.relay = "open" /\ x.client = NoChat.client
        /\ x.disconnected = NoChat.disconnected
    BY <1>3 DEF ChatSet, Relaying
  <1>5. NoChat.client = "here" /\ ~NoChat.disconnected BY DEF NoChat
  <1>. HIDE DEF x
  <1>6. Told(x) BY <1>4, <1>5 DEF Told, Relaying
  <1>. QED BY <1>2, <1>4, <1>6, OneTold

(* Only chats change a chat. *)
LEMMA StepTold == ToldInv /\ [Next]_vars => ToldInv'
  <1>. SUFFICES ASSUME ToldInv, [Next]_vars PROVE ToldInv'
    OBVIOUS
  <1>1. CASE UNCHANGED chat BY <1>1 DEF ToldInv
  <1>2. ASSUME NEW m \in Models, SchedulerStep(m) PROVE ToldInv'
    <2>1. ASSUME NEW c \in Chats, Admit(c, m) PROVE ToldInv'
      BY <2>1, EnterTold DEF Admit
    <2>2. CASE UNCHANGED chat BY <2>2 DEF ToldInv
    <2>. QED BY <1>2, <2>1, <2>2 DEF SchedulerStep, Choose, AskUnload, Spare, UnloadReturns,
         Place, Withdraw, AskLoad, AskWait, LoadReturns, WaitBeside, Confirm
  <1>3. ASSUME NEW c \in Chats, ChatStep(c) PROVE ToldInv'
    BY <1>3, ChatTold
  <1>. QED BY <1>1, <1>2, <1>3 DEF Next, vars, SurveyRead, Merge

LEMMA StartTold == Init => ToldInv
  BY DEF Init, ChatInit, ToldInv, Told, ChatSet, NoChat, Relaying

(* A client is reported to have left (client_disconnected in proxy.py) only *)
(* if it left before the last part of its response was sent, also when the  *)
(* server ends the connection at the same moment.                           *)
THEOREM LeaversToldTruly == Spec => []ToldTruth
  <1>1. ToldInv => ToldTruth BY DEF ToldInv, Told, ToldTruth
  <1>. QED BY <1>1, StartTold, StepTold, PTL DEF Spec

-----------------------------------------------------------------------------
(* Types *)

Bounded ==
  /\ faults \in 0..MaxFaults
  /\ known \in [Models -> Views]
  /\ look \in {None} \cup [Models -> {"unloaded", "loading", "loaded"}]

(* Faults are spent one at a time, as long as there are any. *)
LEMMA SpendBounded ==
  ASSUME faults \in 0..MaxFaults, UNCHANGED faults \/ Spend
  PROVE  faults' \in 0..MaxFaults
  BY AdapterAssumption DEF Spend

LEMMA StepBounded == Inv /\ Bounded /\ [Next]_vars => Bounded'
  <1>. SUFFICES ASSUME Inv, Bounded, [Next]_vars PROVE Bounded'
    OBVIOUS
  <1>. USE DEF Bounded
  <1>1. ASSUME NEW m \in Models, SchedulerStep(m) PROVE Bounded'
    <2>1. UNCHANGED faults
      BY <1>1 DEF SchedulerStep, Choose, AskUnload, Spare, UnloadReturns, Place, Withdraw,
         AskLoad, AskWait, LoadReturns, WaitBeside, Confirm, Admit, Ask, adapterVars
    <2>2. UNCHANGED look
      BY <1>1 DEF SchedulerStep, Choose, AskUnload, Spare, UnloadReturns, Place, Withdraw,
         AskLoad, AskWait, LoadReturns, WaitBeside, Confirm, Admit, schedulerVars
    <2>3. UNCHANGED known \/ \E now \in Views : known' = [known EXCEPT ![m] = now]
      BY <1>1 DEF SchedulerStep, Choose, AskUnload, Spare, UnloadReturns, Place, Withdraw,
         AskLoad, AskWait, LoadReturns, WaitBeside, Confirm, Admit, schedulerVars, Views
    <2>. QED BY <2>1, <2>2, <2>3
  <1>2. ASSUME NEW m \in Models,
               (RouterStep(m) \/ AdapterStep(m)) /\ UNCHANGED <<chat, schedulerVars>>
        PROVE  Bounded'
    <2>1. CASE RouterStep(m)
      <3>1. UNCHANGED faults \/ Spend
        BY <2>1 DEF RouterStep, Starts, LoadFails, Crashes, Exits, TakesLoad, TakesUnload,
           Refuses, Lists
      <3>. QED BY <1>2, <3>1, SpendBounded DEF schedulerVars
    <2>2. CASE AdapterStep(m)
      <3>1. UNCHANGED faults \/ Spend
        BY <2>2 DEF AdapterStep, Lost, Posted, Checked, Polled, PollAgain, Deadline
      <3>. QED BY <1>2, <3>1, SpendBounded DEF schedulerVars
    <2>. QED BY <1>2, <2>1, <2>2
  <1>3. CASE SurveyRead
    <2>1. Listed \in [Models -> {"unloaded", "loading", "loaded"}]
      BY ReportedShape DEF Listed, Inv, AdapterInv, Shaped
    <2>. QED BY <1>3, <2>1 DEF SurveyRead, adapterVars
  <1>4. CASE Merge
    <2>1. \A m \in Models : Adopted(look[m]) \in Views BY DEF Adopted, Views
    <2>. QED BY <1>4, <2>1 DEF Merge, adapterVars, Views
  <1>5. CASE UNCHANGED <<faults, known, look>> BY <1>5
  <1>. QED BY <1>1, <1>2, <1>3, <1>4, <1>5 DEF Next, vars, adapterVars, schedulerVars

(* Every variable has its type; a watcher waits only beside its relay, and  *)
(* a chat that is over has left nothing.                                    *)
THEOREM ServingTyped == Spec => []TypeOK
  <1>1. Init => Inv BY Begins
  <1>2. Inv /\ [Next]_vars => Inv' BY StepRight DEF Right
  <1>3. Init => Bounded
    <2>1. \A value : Adopted(value) \in Views BY DEF Adopted, Views
    <2>. QED BY <2>1, AdapterAssumption DEF Init, AdapterInit, Bounded
  <1>4. Inv /\ Bounded /\ ToldInv => TypeOK
    <2>. SUFFICES ASSUME Inv, Bounded, ToldInv PROVE TypeOK
      OBVIOUS
    <2>1. /\ worker \in [Models -> WorkerState] /\ call \in [Models -> Calls]
          /\ result \in [Models -> Results]
      BY DEF Inv, AdapterInv, Shaped
    <2>2. \A m \in Models : call[m] \in Calls /\ result[m] \in Results BY <2>1
    <2>3. AdapterTypeOK
      BY <2>1, <2>2 DEF AdapterTypeOK, Calls, Results, Bounded
    <2>4. ChatTypeOK BY DEF ChatTypeOK, ToldInv, Told, ChatSet
    <2>. QED BY <2>3, <2>4 DEF TypeOK, Bounded, Inv, Apart
  <1>. QED BY <1>1, <1>2, <1>3, <1>4, StepBounded, StartTold, StepTold, PTL DEF Spec

=============================================================================
