------------------------------ MODULE Serving ------------------------------
(***************************************************************************)
(* The router's adapter and the proxied chats together, with the scheduler *)
(* reduced to what it does to one model between them.  It admits chats to  *)
(* the models it takes for ready, chooses a model that nobody is admitted  *)
(* to and unloads it later (a swap unloads its victims one by one), and    *)
(* believes what the adapter returns.  At any moment it may survey the     *)
(* router, because of a problem of this server or of another one.          *)
(*                                                                         *)
(* Nothing else begins on a model until its unload has returned, and a     *)
(* record that took a victim's place is not chosen in its turn meanwhile.  *)
(***************************************************************************)
EXTENDS Adapter, ProxiedChat

ASSUME ServingAssumption == None \notin Models

VARIABLES
  known,    \* what the scheduler's record takes each model for
  leaving,  \* is that record a victim?
  victim,   \* has a swap a model to unload, by its name?
  look,     \* what a survey has read, until it is merged
  target    \* the model that each chat is admitted to

schedulerVars == <<known, leaving, victim, look, target>>

vars == <<worker, call, result, faults, chat, known, leaving, victim, look, target>>

(* no: there is no record.  placed: to be loaded, after the victims.        *)
(* pending: being loaded.  failing: the load has failed, and the router is  *)
(* asked whether the model is gone.  unsure: it did not say so.             *)
Views == {"no", "placed", "pending", "failing", "ready", "unsure"}

Admitted(m) == {c \in Chats : target[c] = m /\ chat[c].admitted}

Listed == [m \in Models |-> Reported(worker[m]).value]

Adopted(value) ==
  CASE value = "unloaded" -> "no" [] value = "loaded" -> "ready" [] OTHER -> "pending"

(* It has adopted what the router held when the broker started. *)
Init ==
  /\ AdapterInit /\ ChatInit
  /\ known = [m \in Models |-> Adopted(Reported(worker[m]).value)]
  /\ leaving = [m \in Models |-> FALSE] /\ victim = [m \in Models |-> FALSE]
  /\ look = None
  /\ target = [c \in Chats |-> None]

-----------------------------------------------------------------------------
(* Requests *)

Admit(c, m) ==
  /\ known[m] = "ready" /\ ~leaving[m]
  /\ Enter(c) /\ target' = [target EXCEPT ![c] = m]
  /\ UNCHANGED <<adapterVars, known, leaving, victim, look>>

-----------------------------------------------------------------------------
(* Swaps *)

(* Under the lock, a record nobody is admitted to is chosen, also one whose *)
(* load has failed ...                                                      *)
Choose(m) ==
  /\ look = None
  /\ known[m] \in {"ready", "unsure"} /\ ~victim[m] /\ Admitted(m) = {}
  /\ leaving' = [leaving EXCEPT ![m] = TRUE] /\ victim' = [victim EXCEPT ![m] = TRUE]
  /\ UNCHANGED <<adapterVars, chat, known, look, target>>

(* ... and unloaded in its turn ... *)
AskUnload(m) ==
  /\ victim[m] /\ Ask(m, "unload")
  /\ UNCHANGED <<chat, schedulerVars>>

(* ... or spared, because the unload of another victim has failed.          *)
Spare(m) ==
  /\ victim[m] /\ call[m].op = None /\ result[m] = None
  /\ leaving' = [leaving EXCEPT ![m] = FALSE] /\ victim' = [victim EXCEPT ![m] = FALSE]
  /\ UNCHANGED <<adapterVars, chat, known, look, target>>

(* After an unload the record is dropped by its name, whoever it is by now; *)
(* those who are admitted to it are admitted to no tracked record any more. *)
UnloadReturns(m) ==
  /\ result[m] # None /\ result[m].op = "unload"
  /\ result' = [result EXCEPT ![m] = None]
  /\ leaving' = [leaving EXCEPT ![m] = FALSE] /\ victim' = [victim EXCEPT ![m] = FALSE]
  /\ IF result[m].ok
       THEN /\ known' = [known EXCEPT ![m] = "no"]
            /\ target' = [c \in Chats |-> IF target[c] = m THEN None ELSE target[c]]
       ELSE UNCHANGED <<known, target>>
  /\ UNCHANGED <<worker, call, faults, chat, look>>

Place(m) ==
  /\ look = None
  /\ known[m] = "no" /\ ~victim[m]
  /\ known' = [known EXCEPT ![m] = "placed"]
  /\ UNCHANGED <<adapterVars, chat, leaving, victim, look, target>>

(* A victim's unload has failed: the model is not loaded. *)
Withdraw(m) ==
  /\ known[m] = "placed"
  /\ known' = [known EXCEPT ![m] = "no"]
  /\ UNCHANGED <<adapterVars, chat, leaving, victim, look, target>>

AskLoad(m) ==
  /\ known[m] = "placed" /\ Ask(m, "load")
  /\ known' = [known EXCEPT ![m] = "pending"]
  /\ UNCHANGED <<chat, leaving, victim, look, target>>

-----------------------------------------------------------------------------
(* The ends of loads *)

(* finish_load: a model that was adopted while it was loading *)
AskWait(m) ==
  /\ known[m] = "pending" /\ ~victim[m] /\ Ask(m, "wait")
  /\ UNCHANGED <<chat, schedulerVars>>

LoadReturns(m) ==
  /\ result[m] # None /\ result[m].op # "unload"
  /\ result' = [result EXCEPT ![m] = None]
  /\ known' = [known EXCEPT ![m] = IF result[m].ok THEN "ready" ELSE "failing"]
  /\ UNCHANGED <<worker, call, faults, chat, leaving, victim, look, target>>

(* finish_load of a record that took a victim's place: it only reads, beside *)
(* the unload that is under way, until it has seen the model loaded or fails. *)
WaitBeside(m) ==
  /\ known[m] = "pending" /\ victim[m]
  /\ \E now \in {"ready", "failing"} :
       /\ now = "ready" => Listed[m] = "loaded"
       /\ known' = [known EXCEPT ![m] = now]
  /\ UNCHANGED <<adapterVars, chat, leaving, victim, look, target>>

(* load_failed: the record is dropped only if the router says that the model *)
(* is unloaded, when asked again, which may fail.                            *)
Confirm(m) ==
  /\ known[m] = "failing"
  /\ \E now \in {"no", "unsure"} :
       /\ now = "no" => Listed[m] = "unloaded"
       /\ known' = [known EXCEPT ![m] = now]
  /\ UNCHANGED <<adapterVars, chat, leaving, victim, look, target>>

-----------------------------------------------------------------------------
(* Surveys: the router is read, then the answer is merged. *)

SurveyRead ==
  /\ look = None /\ look' = Listed
  /\ UNCHANGED <<adapterVars, chat, known, leaving, victim, target>>

(* A model that is listed is adopted, unless there is a record that has not *)
(* failed; one that is not listed is dropped, unless it is in use.          *)
Replaced(m) == look[m] # "unloaded" /\ known[m] \in {"no", "failing", "unsure"}

Dropped(m) ==
  /\ look[m] = "unloaded" /\ known[m] \in {"ready", "unsure"}
  /\ ~leaving[m] /\ Admitted(m) = {}

Merge ==
  /\ look # None /\ look' = None
  /\ known' = [m \in Models |->
       IF Replaced(m) THEN Adopted(look[m]) ELSE IF Dropped(m) THEN "no" ELSE known[m]]
  /\ leaving' = [m \in Models |-> leaving[m] /\ ~Replaced(m)]
  /\ UNCHANGED <<adapterVars, chat, victim, target>>

-----------------------------------------------------------------------------
SchedulerStep(m) ==
  \/ Choose(m) \/ AskUnload(m) \/ Spare(m) \/ UnloadReturns(m)
  \/ Place(m) \/ Withdraw(m) \/ AskLoad(m)
  \/ AskWait(m) \/ LoadReturns(m) \/ WaitBeside(m) \/ Confirm(m)
  \/ \E c \in Chats : Admit(c, m)

Next ==
  \/ \E m \in Models :
       \/ (RouterStep(m) \/ AdapterStep(m)) /\ UNCHANGED <<chat, schedulerVars>>
       \/ SchedulerStep(m)
  \/ \E c \in Chats : ChatStep(c) /\ UNCHANGED <<adapterVars, schedulerVars>>
  \/ SurveyRead \/ Merge

Spec == Init /\ [][Next]_vars

FairSpec == Spec /\ AdapterFairness /\ ChatFairness

TypeOK ==
  /\ AdapterTypeOK /\ ChatTypeOK
  /\ known \in [Models -> Views]
  /\ leaving \in [Models -> BOOLEAN] /\ victim \in [Models -> BOOLEAN]
  /\ look \in {None} \cup [Models -> {"unloaded", "loading", "loaded"}]
  /\ target \in [Chats -> Models \cup {None}]

(* "An in-progress request is never interrupted to make room" (design.md),  *)
(* as far as the scheduler's own bookkeeping reaches: the router unloads    *)
(* only victims, and when it begins, it works on no request for the model   *)
(* that the broker has sent, unless a survey has put another record, which  *)
(* takes requests, in the place of the one that was chosen (leaving) since. *)
UnloadsIdle ==
  [][\A m \in Models :
       worker[m] # "unloading" /\ worker'[m] = "unloading" =>
         /\ victim[m]
         /\ leaving[m] => ~\E c \in Chats : target[c] = m /\ chat[c].line]_vars

=============================================================================
