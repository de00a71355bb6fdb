--------------------------- MODULE SchedulerDocs ----------------------------
(***************************************************************************)
(* What comments and the design document say of the scheduler, and the code *)
(* does not keep in some orders of events.  Each property is checked by a   *)
(* run of its own, which is expected to find the order.                     *)
(***************************************************************************)
EXTENDS Scheduler

(* "A loaded model is busy while [...] its last activity is within the idle *)
(* protection window" (design.md, Request flow 3): no model is chosen for   *)
(* unloading within its window.                                             *)
ProtectedKept ==
  [][\A i \in Records :
       ~rec[i].leaving /\ rec'[i].leaving => ~rec[i].recent]_vars

(* "no two loaded models can hold the same one" (design.md, on exclusive    *)
(* resources): the servers never hold two models that claim a resource.     *)
NeverShared == Compatible({m \in Models : Held(m)})

(* "``model`` is marked ready either way, releasing its waiters" (swap):    *)
(* a request that waits for a load has a task that will release it.         *)
WaitersReleased ==
  \A r \in Requests : pc[r] = "wait" /\ ~rec[on[r]].ready => Driven(on[r])

=============================================================================
