----------------------------- MODULE Catalogue -----------------------------
(***************************************************************************)
(* The start-up of the broker: it reads the presets section by section     *)
(* (catalogue.py), merges them into one catalogue, opens a backend for     *)
(* each server that the catalogue names (application.py), and checks that  *)
(* each server's settings suit it (router_problems in scheduler.py).  The  *)
(* first invalid section ends the start-up; a server that does not suit    *)
(* only keeps the broker from scheduling.                                  *)
(*                                                                         *)
(* A section is a record of what the checks tell apart.  A setting that    *)
(* the section lacks is Absent, one that cannot be parsed is Bad.          *)
(***************************************************************************)
EXTENDS Integers, FiniteSets, Sequences

CONSTANTS
  Ids,             \* the section names: public model IDs
  Suffix,          \* the devices that an ID's suffix names (none: --cpu), or Bad
  Devices,         \* CUDA0, CUDA1, ...
  Gpu,             \* the resource that is a device: GPU0, GPU1, ...
  Resources,       \* GPUs, CPU and RAM:weights
  Defaults,        \* the [*] sections that the router's preset may have
  Sections,        \* the other sections that it may have
  ServiceSections, \* the sections that the services' preset may have
  Strata,          \* the one service that the broker has a client for
  Limits,          \* what a router may report as its models-max; 0: unlimited
  Absent, Bad, None,
  MaxSections,     \* bound: sections of the router's preset
  MaxServices      \* bound: sections of the services' preset

DraftDeviceKeys == {"spec_draft_device", "device_draft"}
GpuOnlyKeys == {"n_cpu_moe", "split_mode"}  \* main-gpu, tensor-split: as split-mode
ThreadKeys == {"threads", "threads_batch"}

ASSUME CatalogueAssumption ==
  /\ Gpu \in [Devices -> Resources] /\ {"CPU", "RAM:weights"} \subseteq Resources
  /\ Suffix \in [Ids -> Seq(Devices) \cup {Bad}]
  /\ Limits \subseteq Nat /\ MaxSections \in Nat /\ MaxServices \in Nat
  /\ IsFiniteSet(Ids) /\ Strata # "llama"
  /\ \A s \in ServiceSections : s.exclusive = Bad \/ s.exclusive \subseteq Resources

VARIABLES
  stage,      \* how far the start-up is
  defaults,   \* the [*] section of the router's preset, while that is read
  catalogue,  \* the variants read, by ID; with the services' once merged
  services,   \* the variants of the services' preset, until they are merged
  limit,      \* models-max of each server, as it was last read
  problems    \* why the broker does not schedule: server and reason

vars == <<stage, defaults, catalogue, services, limit, problems>>

-----------------------------------------------------------------------------
(* Settings *)

Value(setting, default) == IF setting = Absent THEN default ELSE setting

(* The [*] settings hold wherever a section does not set its own. *)
Effective(section) ==
  [key \in DOMAIN section |-> Value(section[key], defaults[key])]

Items(list) == {list[i] : i \in DOMAIN list}

Distinct(list) == \A i, j \in DOMAIN list : list[i] = list[j] => i = j

(* suffix_devices: the suffix is there and repeats no device. *)
SuffixValid(id) == Suffix[id] # Bad /\ Distinct(Suffix[id])

(* setting_devices gives the devices of the suffix, in their order. *)
DevicesAgree(id, setting) == setting \notin {Absent, Bad} /\ setting = Suffix[id]

ThreadsValid(s) ==
  \A key \in ThreadKeys :
    s[key] # Bad /\ LET n == Value(s[key], -1) IN n > 0 \/ n = -1

(* resource_class: every layer of a GPU variant is on its GPUs, and only    *)
(* n-cpu-moe moves experts to RAM.                                          *)
\* MISTAKE: a layer count is let through
CountAllowed(s, devices) ==
  IF devices = <<>>
    THEN s.n_gpu_layers = "0" /\ \A key \in GpuOnlyKeys : s[key] = Absent
    ELSE s.n_gpu_layers \notin {"0", Absent}
         /\ s.n_cpu_moe # Bad /\ Value(s.n_cpu_moe, 0) >= 0

PlacementValid(s, devices) ==
  IF devices = <<>>
    THEN s.n_gpu_layers = "0" /\ \A key \in GpuOnlyKeys : s[key] = Absent
    ELSE s.n_gpu_layers = "all"
         /\ s.n_cpu_moe # Bad /\ Value(s.n_cpu_moe, 0) >= 0

ResourceClass(s, devices) ==
  IF devices = <<>> THEN "cpu_weights"
  ELSE IF Value(s.n_cpu_moe, 0) # 0 THEN "moe_offload" ELSE "gpu_resident"

-----------------------------------------------------------------------------
(* Variants *)

Claim(resource, exclusive) == [resource |-> resource, exclusive |-> exclusive]
\* MISTAKE: a device is claimed under its own name
DeviceClaims(id) == {Claim(d, TRUE) : d \in Items(Suffix[id])}

GpuClaims(id) == {Claim(Gpu[d], TRUE) : d \in Items(Suffix[id])}

(* Each GPU is exclusive; RAM:weights only for weights that are kept there. *)
ResourceClaims(kind, id) ==
  {Claim("CPU", FALSE), Claim("RAM:weights", kind # "gpu_resident")} \cup GpuClaims(id)

VariantValid(id, s) ==
  /\ s.model # Absent
  /\ SuffixValid(id) /\ DevicesAgree(id, s.device)
  /\ \A key \in DraftDeviceKeys : s[key] # Absent => DevicesAgree(id, s[key])
  /\ ThreadsValid(s)
  /\ PlacementValid(s, Suffix[id])

Variant(id, s) ==
  LET class == ResourceClass(s, Suffix[id])
  IN [backend |-> "llama", class |-> class, settings |-> s,
      claims |-> ResourceClaims(class, id)]

ServiceVariantValid(id, s) ==
  /\ s.service # Bad /\ s.env # Bad /\ s.exclusive # Bad /\ s.unknown = Absent
  /\ SuffixValid(id) /\ DevicesAgree(id, s.device)

ServiceVariant(id, s) ==
  LET exclusive == {Gpu[d] : d \in Items(Suffix[id])} \cup s.exclusive
      cpu == IF "CPU" \in exclusive THEN {} ELSE {Claim("CPU", FALSE)}
  IN [backend |-> s.service, class |-> "service", settings |-> s,
      claims |-> {Claim(r, TRUE) : r \in exclusive} \cup cpu]

Holds(item) == {c.resource : c \in {d \in item.claims : d.exclusive}}

-----------------------------------------------------------------------------
(* Catalogues: functions from IDs to variants *)

Empty == [id \in {} |-> None]
With(variants, id, item) ==
  [x \in DOMAIN variants \cup {id} |-> IF x = id THEN item ELSE variants[x]]

(* merge_catalogues: an ID that both define is refused. *)
\* MISTAKE: the later preset wins
LaterWins(first, second) == TRUE

Mergeable(first, second) == DOMAIN first \cap DOMAIN second = {}

Merged(first, second) ==
  [id \in DOMAIN first \cup DOMAIN second |->
     IF id \in DOMAIN second THEN second[id] ELSE first[id]]

Own(backend) == {id \in DOMAIN catalogue : catalogue[id].backend = backend}
RouterModels == {id \in DOMAIN catalogue : catalogue[id].class # "service"}
Backends == {catalogue[id].backend : id \in DOMAIN catalogue} \cup {"llama"}

(* Conflicts, as the scheduler sees them. *)
Conflicts == INSTANCE Claims WITH
  Models <- DOMAIN catalogue,
  Exclusive <- [id \in DOMAIN catalogue |-> Holds(catalogue[id])]

(* max_loaded_models tries the groups of one set of resources, of two and   *)
(* so on, until no group of a size is free of overlaps.                     *)
Disjoint(group) == \A a, b \in group : a # b => a \cap b = {}

GroupFits(sets, size) ==
  \E group \in SUBSET sets : Cardinality(group) = size /\ Disjoint(group)

\* MISTAKE: it stops before the last size
OneShort(models) ==
  LET sets == {Holds(catalogue[id]) : id \in models}
  IN Cardinality({size \in 1..Cardinality(sets) - 1 :
                    \A n \in 1..size : GroupFits(sets, n)})

MaxLoadedModels(models) ==
  LET sets == {Holds(catalogue[id]) : id \in models}
  IN Cardinality({size \in 1..Cardinality(sets) :
                    \A n \in 1..size : GroupFits(sets, n)})

(* router_problems *)
\* MISTAKE: a service is not asked for its settings
RouterOnly(backend, max, autoload) ==
  (IF backend = "llama" /\ max \in 1..MaxLoadedModels(Own(backend)) - 1
     THEN {<<backend, "models-max">>} ELSE {})
  \cup (IF autoload THEN {<<backend, "autoload">>} ELSE {})

RouterProblems(backend, max, autoload) ==
  (IF max \in 1..MaxLoadedModels(Own(backend)) - 1
     THEN {<<backend, "models-max">>} ELSE {})
  \cup (IF autoload THEN {<<backend, "autoload">>} ELSE {})

-----------------------------------------------------------------------------
(* The start-up *)

Init ==
  /\ stage = "preset" /\ defaults \in Defaults
  /\ catalogue = Empty /\ services = Empty
  /\ limit = [b \in {} |-> 0] /\ problems = {}

Fails ==
  /\ stage' = "failed"
  /\ UNCHANGED <<defaults, catalogue, services, limit, problems>>

(* parse_catalogue, section by section *)
ReadSection(id) ==
  /\ stage = "preset"
  /\ id \notin DOMAIN catalogue /\ Cardinality(DOMAIN catalogue) < MaxSections
  /\ \E section \in Sections :
       LET s == Effective(section) IN
       IF VariantValid(id, s)
         THEN /\ catalogue' = With(catalogue, id, Variant(id, s))
              /\ UNCHANGED <<stage, defaults, services, limit, problems>>
         ELSE Fails

(* The next preset, if one is named, is that of the services. *)
PresetRead ==
  /\ stage = "preset" /\ DOMAIN catalogue # {}
  /\ stage' \in {"services", "merged"} /\ defaults' = None
  /\ UNCHANGED <<catalogue, services, limit, problems>>

(* parse_service_catalogue *)
ReadServiceSection(id) ==
  /\ stage = "services"
  /\ id \notin DOMAIN services /\ Cardinality(DOMAIN services) < MaxServices
  /\ \E s \in ServiceSections :
       IF ServiceVariantValid(id, s)
         THEN /\ services' = With(services, id, ServiceVariant(id, s))
              /\ UNCHANGED <<stage, defaults, catalogue, limit, problems>>
         ELSE Fails

ServicesRead ==
  /\ stage = "services" /\ DOMAIN services # {}
  /\ IF Mergeable(catalogue, services)
       THEN /\ stage' = "merged"
            /\ catalogue' = Merged(catalogue, services) /\ services' = Empty
            /\ UNCHANGED <<defaults, limit, problems>>
       ELSE Fails

(* A preset cannot be read, lacks its version or is no INI file (any other  *)
(* error of the text), a service's has a [*] section, or there is none but  *)
(* the [*] section.                                                         *)
Unreadable == stage \in {"preset", "services"} /\ Fails

(* One backend for each server; there is a client for Strata only. *)
OpenBackends ==
  /\ stage = "merged"
  /\ IF Backends \subseteq {"llama", Strata}
       THEN /\ stage' = "inspect"
            /\ UNCHANGED <<defaults, catalogue, services, limit, problems>>
       ELSE Fails

(* What a server reports: a managed service always answers the same.        *)
Reports(backend) ==
  IF backend = "llama" THEN [max : Limits, autoload : BOOLEAN]
                       ELSE {[max |-> 1, autoload |-> FALSE]}

(* The survey at the start, and again whenever a request comes while there  *)
(* are problems (check_router): a server may be out of reach.               *)
Inspect ==
  /\ stage = "inspect" \/ (stage = "ready" /\ problems # {})
  /\ stage' = "ready"
  /\ \E reached \in SUBSET Backends :
       \E report \in [reached -> UNION {Reports(b) : b \in reached}] :
         /\ \A b \in reached : report[b] \in Reports(b)
         /\ limit' = [b \in reached |-> report[b].max]
         /\ problems' =
              (UNION {RouterProblems(b, report[b].max, report[b].autoload) : b \in reached})
              \cup {<<b, "unavailable">> : b \in Backends \ reached}
  /\ UNCHANGED <<defaults, catalogue, services>>

(* The start-up failed, or the broker serves. *)
Settled == (stage = "failed" \/ (stage = "ready" /\ problems = {})) /\ UNCHANGED vars

Next ==
  \/ \E id \in Ids : ReadSection(id) \/ ReadServiceSection(id)
  \/ PresetRead \/ ServicesRead \/ Unreadable
  \/ OpenBackends \/ Inspect \/ Settled

Spec == Init /\ [][Next]_vars

Serving == stage = "ready" /\ problems = {}

-----------------------------------------------------------------------------
(* Properties *)

TypeOK ==
  /\ stage \in {"preset", "services", "merged", "inspect", "ready", "failed"}
  /\ defaults \in Defaults \cup {None}
  /\ DOMAIN catalogue \subseteq Ids /\ DOMAIN services \subseteq Ids
  /\ \A id \in DOMAIN catalogue :
       catalogue[id].claims \subseteq [resource : Resources, exclusive : BOOLEAN]
  /\ DOMAIN limit \subseteq Backends /\ \A b \in DOMAIN limit : limit[b] \in Nat
  /\ problems \subseteq Backends \X {"models-max", "autoload", "unavailable"}

(* What llama.cpp uses for a model with these settings: the devices it puts *)
(* layers and the draft model on, and RAM for layers and experts left over. *)
Uses(s) ==
  LET layers == IF s.n_gpu_layers = "0" THEN {} ELSE Items(s.device)
      drafts == UNION {Items(Value(s[key], s.device)) : key \in DraftDeviceKeys}
      inRam == s.n_gpu_layers # "all" \/ Value(s.n_cpu_moe, 0) # 0
  IN {Gpu[d] : d \in layers \cup drafts} \cup (IF inRam THEN {"RAM:weights"} ELSE {})

(* A variant of the router claims exclusively whatever llama.cpp will put   *)
(* weights on, whichever of its settings came from [*], and nothing else:   *)
(* conflicts between claims are conflicts between models.                   *)
ClaimsMatchUse ==
  \A id \in RouterModels : Holds(catalogue[id]) = Uses(catalogue[id].settings)

(* The router never has to choose a model to unload (docstring of           *)
(* router_problems): while the broker schedules, no set of the models of    *)
(* its preset that can be loaded together without conflict exceeds          *)
(* models-max.                                                              *)
NeverEvicts ==
  Serving /\ limit["llama"] # 0 =>
    \A S \in SUBSET RouterModels :
      Conflicts!Compatible(S) => Cardinality(S) <= limit["llama"]

(* A service holds one model at a time: while the broker schedules, two     *)
(* models of one service conflict, unless neither claims anything.          *)
ServiceApart ==
  Serving =>
    \A b \in Backends \ {"llama"} : \A x, y \in Own(b) :
      x # y => \/ Conflicts!ClaimsConflict(x, y)
               \/ Holds(catalogue[x]) = {} /\ Holds(catalogue[y]) = {}

(* A public model ID means one model: once a preset has defined it, nothing *)
(* that is read later changes what it is.                                   *)
IdsKept == [][\A id \in DOMAIN catalogue : catalogue'[id] = catalogue[id]]_vars

=============================================================================
