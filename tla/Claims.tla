------------------------------- MODULE Claims -------------------------------
(***************************************************************************)
(* The resources that the models of a catalogue claim, and when two models *)
(* may not be loaded together (catalogue.py).  A claim is either exclusive  *)
(* or shared; only exclusive claims keep models apart, so a model is here   *)
(* the set of resources it claims exclusively.                              *)
(***************************************************************************)
EXTENDS FiniteSets

CONSTANTS
  Models,      \* the model IDs of the catalogue
  Resources,   \* GPUs and RAM:weights
  Exclusive    \* for each model, the resources it claims exclusively

ASSUME ClaimsAssumption == Exclusive \in [Models -> SUBSET Resources]

(* Do both models claim some resource exclusively? *)
ClaimsConflict(first, second) == Exclusive[first] \cap Exclusive[second] # {}

(* The models that cannot be loaded beside m.  m itself is left out: it is  *)
(* never among the loaded models when the scheduler asks.                   *)
Rivals(m) == {n \in Models \ {m} : ClaimsConflict(m, n)}

(* No two different models of S claim the same resource exclusively. *)
Compatible(S) == \A a, b \in S : a # b => ~ClaimsConflict(a, b)

=============================================================================
