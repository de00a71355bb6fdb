---------------------------- MODULE MCScheduler -----------------------------
(* Small instances of the scheduler for TLC. *)
EXTENDS SchedulerTurns, SchedulerDocs, TLC

CONSTANTS r1, r2, r3

(* Model IDs are strings; gpu0 and gpu1 hold one card each, dual both. *)
MCResources == {"GPU0", "GPU1"}
MCClaims == [gpu0 |-> {"GPU0"}, gpu1 |-> {"GPU1"}, dual |-> {"GPU0", "GPU1"}]
MCExclusive == [m \in Models |-> MCClaims[m]]

(* Two records of each model: the one tracked, and one outlived by requests *)
(* or a task.                                                               *)
MCRecords == 1..(2 * Cardinality(Models))
MCModelOf ==
  LET order == CHOOSE f \in [1..Cardinality(Models) -> Models] :
                 \A a, b \in DOMAIN f : a # b => f[a] # f[b]
  IN [i \in MCRecords |-> order[(i + 1) \div 2]]

OneBackend == [m \in Models |-> "llama"]
TwoBackends == [m \in Models |-> IF m = "gpu0" THEN "strata" ELSE "llama"]

MCSymmetry == Permutations(Requests)
=============================================================================
