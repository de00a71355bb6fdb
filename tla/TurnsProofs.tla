---------------------------- MODULE TurnsProofs -----------------------------
(* What taking turns is good for, for any catalogue and number of requests. *)
EXTENDS Turns, TLAPS

(* The open models are compatible, and whatever is used is open. *)
TurnsInv ==
  trusted => /\ using \in [Requests -> Models \cup {None}]
             /\ open \subseteq Models /\ Compatible(open)
             /\ \A r \in Requests : using[r] # None => using[r] \in open

LEMMA TurnsInit == Init => TurnsInv
BY DEF Init, TurnsInv, Compatible

LEMMA TurnsStep == TurnsInv /\ [Next]_vars => TurnsInv'
<1> SUFFICES ASSUME TurnsInv, [Next]_vars, trusted' PROVE TurnsInv'
  BY DEF TurnsInv
<1>1. CASE UNCHANGED vars
  BY <1>1 DEF TurnsInv, vars, Compatible
<1>2. CASE trusted /\ Keep
  <2>1. ASSUME NEW S \in SUBSET Models, Switch(S) PROVE TurnsInv'
    BY <1>2, <2>1 DEF TurnsInv, Switch, Compatible
  <2>2. ASSUME NEW r \in Requests, Begin(r) PROVE TurnsInv'
    BY <1>2, <2>2 DEF TurnsInv, Begin, Compatible
  <2>3. ASSUME NEW r \in Requests, End(r) PROVE TurnsInv'
    BY <1>2, <2>3 DEF TurnsInv, End, Compatible
  <2>4. CASE Reset
    BY <2>4 DEF TurnsInv, Reset, Compatible
  <2> QED BY <1>2, <2>1, <2>2, <2>3, <2>4 DEF Keep
<1> QED BY <1>1, <1>2 DEF Next

(* Two requests never use models that claim the same resource exclusively,  *)
(* as long as the promise is kept: this is what the scheduler's requests    *)
(* gain from ImplementsTurns.                                               *)
THEOREM TurnsTaken == Spec => []TakeTurns
<1>1. TurnsInv => TakeTurns
  BY DEF TurnsInv, TakeTurns, Compatible, Rivals
<1> QED BY <1>1, TurnsInit, TurnsStep, PTL DEF Spec

=============================================================================
