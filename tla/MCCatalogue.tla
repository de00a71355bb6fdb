---------------------------- MODULE MCCatalogue ----------------------------
(***************************************************************************)
(* The catalogue on a machine with two GPUs.  Settings that a valid section *)
(* has, and one or two wrong values of each.                                *)
(***************************************************************************)
EXTENDS Catalogue

MCDevices == {"CUDA0", "CUDA1"}
MCGpu == [d \in MCDevices |-> IF d = "CUDA0" THEN "GPU0" ELSE "GPU1"]
MCResources == {"GPU0", "GPU1", "CPU", "RAM:weights"}

MCSuffix ==
  [id \in Ids |->
     CASE id = "m--cpu" -> <<>>
       [] id = "m--cuda0" -> <<"CUDA0">>
       [] id = "m--cuda1" -> <<"CUDA1">>
       [] id = "m--cuda0-cuda1" -> <<"CUDA0", "CUDA1">>
       [] id = "m--cuda1-cuda1" -> <<"CUDA1", "CUDA1">>
       [] OTHER -> Bad]

MCLists == {<<>>, <<"CUDA0">>, <<"CUDA1">>, <<"CUDA0", "CUDA1">>, <<"CUDA1", "CUDA1">>}

MCSections ==
  [model : {"set"}, device : MCLists \cup {Bad},
   spec_draft_device : {Absent, <<"CUDA0">>}, device_draft : {Absent, <<"CUDA1">>},
   n_gpu_layers : {Absent, "all", "0", "auto"}, n_cpu_moe : {Absent, 0, 1},
   split_mode : {Absent}, threads : {Absent}, threads_batch : {Absent}]
  \cup
  [model : {"set", Absent}, device : {<<>>, Absent},
   spec_draft_device : {Absent}, device_draft : {Absent},
   n_gpu_layers : {"0"}, n_cpu_moe : {Absent, Bad, -1},
   split_mode : {Absent, "set"}, threads : {Absent, Bad, -1, 0}, threads_batch : {Absent, 0}]

Plain == [model |-> Absent, device |-> Absent, spec_draft_device |-> Absent,
          device_draft |-> Absent, n_gpu_layers |-> Absent, n_cpu_moe |-> Absent,
          split_mode |-> Absent, threads |-> Absent, threads_batch |-> Absent]

MCDefaults ==
  {Plain, [Plain EXCEPT !.n_gpu_layers = "all"], [Plain EXCEPT !.n_cpu_moe = 1],
   [Plain EXCEPT !.spec_draft_device = <<"CUDA0">>]}

MCServiceSections ==
  [service : {Strata, "other", Bad}, device : MCLists, env : {"set", Bad},
   exclusive : {{}, {"RAM:weights"}, {"CPU"}, Bad}, unknown : {Absent}]
  \cup
  [service : {Strata}, device : MCLists, env : {"set"}, exclusive : {{}},
   unknown : {"set"}]
  \cup
  [service : {"llama"}, device : {<<>>, <<"CUDA1">>}, env : {"set"}, exclusive : {{}},
   unknown : {Absent}]

=============================================================================
