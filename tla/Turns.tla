------------------------------- MODULE Turns --------------------------------
(***************************************************************************)
(* What the scheduler promises to the requests it admits, without saying    *)
(* how: requests for models that share no exclusive resource are served     *)
(* side by side, those for conflicting models take turns, and a model that  *)
(* is being used stays open.                                                *)
(*                                                                          *)
(* The promise is kept as long as the broker is not misled about what its   *)
(* servers hold; after that nothing is promised.                            *)
(***************************************************************************)
EXTENDS Claims

CONSTANTS
  Requests,  \* those who are served
  None       \* the model of a request that uses none

VARIABLES
  open,     \* the models that requests may be admitted to
  using,    \* the model each admitted request uses
  trusted   \* is the promise still kept?

vars == <<open, using, trusted>>

Init ==
  /\ open = {}
  /\ using = [r \in Requests |-> None]
  /\ trusted = TRUE

(* Models are opened and closed, as many at once as may be. *)
Switch(S) ==
  /\ Compatible(S)
  /\ \A r \in Requests : using[r] = None \/ using[r] \in S
  /\ open' = S
  /\ UNCHANGED using

Begin(r) ==
  /\ using[r] = None
  /\ \E m \in open : using' = [using EXCEPT ![r] = m]
  /\ UNCHANGED open

End(r) ==
  /\ using[r] # None
  /\ using' = [using EXCEPT ![r] = None]
  /\ UNCHANGED open

(* The broker is restarted: every connection is cut. *)
Reset ==
  /\ open' = {}
  /\ using' = [r \in Requests |-> None]

Keep ==
  \/ \E S \in SUBSET Models : Switch(S)
  \/ \E r \in Requests : Begin(r) \/ End(r)
  \/ Reset

Next ==
  \/ trusted /\ trusted' /\ Keep
  \/ ~trusted'

Spec == Init /\ [][Next]_vars

(* Two requests never use models that claim the same resource. *)
TakeTurns ==
  trusted => \A r, s \in Requests :
               using[r] # None /\ using[s] # None => using[s] \notin Rivals(using[r])

=============================================================================
