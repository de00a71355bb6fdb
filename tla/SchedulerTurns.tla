--------------------------- MODULE SchedulerTurns ---------------------------
(* The scheduler does what Turns promises. *)
EXTENDS Scheduler

(* A model is open while its record is tracked, ready, sound and stays. *)
Open ==
  {m \in Models : LET i == loaded[m] IN
     i # None /\ rec[i].ready /\ ~rec[i].error /\ ~rec[i].leaving}

Using == [r \in Requests |-> IF pc[r] = "active" THEN want[r] ELSE None]

T == INSTANCE Turns WITH open <- Open, using <- Using, trusted <- ~misled

(* Requests for conflicting models take turns, and no model is closed, by a *)
(* swap, a survey or a failure, while an admitted request uses it.          *)
ImplementsTurns == T!Spec

=============================================================================
