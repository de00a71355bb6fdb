---------------------------- MODULE MCHostFacts -----------------------------
(* A small instance of the host facts helper for TLC: two GPUs, one behind  *)
(* a slow link of the chipset, in the other order for CUDA than for NVML.   *)
EXTENDS HostFacts

MCLinks == [g \in Gpus |-> IF g = "chipset" THEN <<5, 3>> ELSE <<5, 4>>]
MCCuda == <<"direct", "chipset">>
=============================================================================
