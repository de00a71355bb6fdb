-------------------------- MODULE MCServiceControl --------------------------
(* The models of a service are alike. *)
EXTENDS ServiceControl, TLC

Symmetry == Permutations(Models)

=============================================================================
