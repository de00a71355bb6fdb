--------------------------- MODULE CatalogueProofs --------------------------
(***************************************************************************)
(* Theorems about Catalogue, for any presets, devices and limits.           *)
(***************************************************************************)
EXTENDS Catalogue, FiniteSetTheorems, TLAPS

(* A finite set has a subset of every size up to its own. *)
LEMMA SubsetOfSize ==
  ASSUME NEW S, IsFiniteSet(S), NEW k \in Nat, k <= Cardinality(S)
  PROVE  \E T \in SUBSET S : Cardinality(T) = k
<1>1. Cardinality(S) \in Nat /\ ExistsBijection(1..Cardinality(S), S)
  BY FS_CardinalityType
<1>2. PICK f \in Bijection(1..Cardinality(S), S) : TRUE
  BY <1>1 DEF ExistsBijection
<1> DEFINE T == {f[i] : i \in 1..k}
           g == [i \in 1..k |-> f[i]]
<1>3. f \in [1..Cardinality(S) -> S]
      /\ \A i, j \in 1..Cardinality(S) : f[i] = f[j] => i = j
  BY <1>2 DEF Bijection, Injection, IsInjective
<1>4. 1..k \subseteq 1..Cardinality(S)
  BY <1>1
<1>5. T \in SUBSET S
  BY <1>3, <1>4
<1>6. g \in Bijection(1..k, T)
  BY <1>3, <1>4 DEF Bijection, Injection, Surjection, IsInjective
<1>7. IsFiniteSet(1..k) /\ Cardinality(1..k) = k
  BY FS_Interval
<1>8. ExistsBijection(1..k, T)
  BY <1>6 DEF ExistsBijection
<1>9. Cardinality(T) = k
  BY <1>7, <1>8, FS_Bijection
<1>. QED
  BY <1>5, <1>9

(* max_loaded_models counts no group too few: models that pairwise share no *)
(* resource, and hold different ones, are at most as many as it says.       *)
LEMMA MaxCovers ==
  ASSUME NEW models, IsFiniteSet(models), NEW S \in SUBSET models,
         \A x, y \in S : x # y =>
           /\ Holds(catalogue[x]) # Holds(catalogue[y])
           /\ Holds(catalogue[x]) \cap Holds(catalogue[y]) = {}
  PROVE  /\ MaxLoadedModels(models) \in Nat
         /\ Cardinality(S) <= MaxLoadedModels(models)
<1> DEFINE h == [id \in models |-> Holds(catalogue[id])]
           sets == {Holds(catalogue[id]) : id \in models}
           group == {Holds(catalogue[id]) : id \in S}
           fit == {size \in 1..Cardinality(sets) : \A n \in 1..size : GroupFits(sets, n)}
           n == Cardinality(S)
<1>1. IsFiniteSet(S) /\ n \in Nat
  BY FS_Subset, FS_CardinalityType
<1>2. IsFiniteSet(sets)
  <2>1. h \in Surjection(models, sets)
    BY DEF Surjection
  <2>. QED
    BY <2>1, FS_Surjection
<1>3. Cardinality(sets) \in Nat
  BY <1>2, FS_CardinalityType
<1>4. IsFiniteSet(group) /\ Cardinality(group) = n
  <2> DEFINE g == [id \in S |-> Holds(catalogue[id])]
  <2>1. g \in Bijection(S, group)
    BY DEF Bijection, Injection, Surjection, IsInjective
  <2>2. ExistsBijection(S, group)
    BY <2>1 DEF ExistsBijection
  <2>. QED
    BY <1>1, <2>2, FS_Bijection
<1>5. group \subseteq sets /\ Disjoint(group)
  BY DEF Disjoint
<1>6. n <= Cardinality(sets)
  BY <1>2, <1>4, <1>5, FS_Subset
<1>7. \A k \in 1..n : GroupFits(sets, k)
  <2> SUFFICES ASSUME NEW k \in 1..n PROVE GroupFits(sets, k)
    OBVIOUS
  <2>1. PICK T \in SUBSET group : Cardinality(T) = k
    BY <1>1, <1>4, SubsetOfSize
  <2>2. T \in SUBSET sets /\ Disjoint(T)
    BY <1>5 DEF Disjoint
  <2>. QED
    BY <2>1, <2>2 DEF GroupFits
<1>8. 1..n \subseteq fit
  <2> SUFFICES ASSUME NEW size \in 1..n PROVE size \in fit
    OBVIOUS
  <2>1. size \in 1..Cardinality(sets)
    BY <1>1, <1>3, <1>6
  <2>2. \A k \in 1..size : k \in 1..n
    BY <1>1
  <2>. QED
    BY <1>7, <2>1, <2>2
<1>9. IsFiniteSet(1..Cardinality(sets)) /\ IsFiniteSet(1..n) /\ Cardinality(1..n) = n
  BY <1>1, <1>3, FS_Interval
<1>10. IsFiniteSet(fit) /\ Cardinality(fit) \in Nat
  <2>1. fit \in SUBSET (1..Cardinality(sets))
    OBVIOUS
  <2>. QED
    BY <1>9, <2>1, FS_Subset, FS_CardinalityType
<1>11. n <= Cardinality(fit)
  BY <1>8, <1>9, <1>10, FS_Subset
<1>. QED
  BY <1>10, <1>11 DEF MaxLoadedModels

-----------------------------------------------------------------------------
(* The inductive invariant: a variant of the router holds something, and    *)
(* every server that suits allows as many models as max_loaded_models says, *)
(* a managed service one.                                                   *)

Known ==
  /\ DOMAIN catalogue \subseteq Ids /\ DOMAIN services \subseteq Ids
  /\ \A id \in DOMAIN catalogue :
       catalogue[id].class # "service" =>
         catalogue[id].backend = "llama" /\ Holds(catalogue[id]) # {}
  /\ \A id \in DOMAIN services : services[id].class = "service"

Suits ==
  Serving => \A b \in Backends :
    /\ limit[b] \in Nat /\ (b # "llama" => limit[b] = 1)
    /\ limit[b] \notin 1..MaxLoadedModels(Own(b)) - 1

CInv == Known /\ Suits

(* Each variant of the router holds a GPU or RAM:weights exclusively.       *)
LEMMA VariantHolds ==
  ASSUME NEW id \in Ids, NEW s, SuffixValid(id)
  PROVE  Holds(Variant(id, s)) # {}
<1> DEFINE kind == ResourceClass(s, Suffix[id])
           claims == ResourceClaims(kind, id)
<1>1. \E c \in claims : c.exclusive = TRUE
  <2>1. CASE kind # "gpu_resident"
    <3>1. Claim("RAM:weights", TRUE) \in claims
      BY <2>1 DEF ResourceClaims
    <3>. QED
      BY <3>1 DEF Claim
  <2>2. CASE kind = "gpu_resident"
    <3>1. Suffix[id] # <<>>
      BY <2>2 DEF ResourceClass
    <3>2. Suffix[id] \in Seq(Devices)
      BY CatalogueAssumption DEF CatalogueAssumption, SuffixValid
    <3>3. 1 \in DOMAIN Suffix[id]
      BY <3>1, <3>2
    <3>4. Claim(Gpu[Suffix[id][1]], TRUE) \in claims
      BY <3>3 DEF ResourceClaims, GpuClaims, Items
    <3>. QED
      BY <3>4 DEF Claim
  <2>. QED
    BY <2>1, <2>2
<1>2. Variant(id, s).claims = claims
  BY DEF Variant
<1>. QED
  BY <1>1, <1>2 DEF Holds

LEMMA StartKnown == Init => CInv
BY DEF Init, CInv, Known, Suits, Serving, Empty

(* Reading adds variants; only then does the catalogue change.              *)
LEMMA StepKnown == Known /\ [Next]_vars => Known'
<1> SUFFICES ASSUME Known, [Next]_vars PROVE Known'
  OBVIOUS
<1> USE DEF Known
<1>1. ASSUME NEW id \in Ids, ReadSection(id) PROVE Known'
  <2>1. CASE Fails
    BY <2>1 DEF Fails
  <2>2. ASSUME NEW s, VariantValid(id, s),
               catalogue' = With(catalogue, id, Variant(id, s)), services' = services
        PROVE  Known'
    <3>1. Holds(Variant(id, s)) # {}
      BY <2>2, VariantHolds DEF VariantValid
    <3>2. DOMAIN catalogue' = DOMAIN catalogue \cup {id}
          /\ \A x \in DOMAIN catalogue' :
               catalogue'[x] = IF x = id THEN Variant(id, s) ELSE catalogue[x]
      BY <2>2 DEF With
    <3>3. \A x \in DOMAIN catalogue' :
            catalogue'[x].class # "service" =>
              catalogue'[x].backend = "llama" /\ Holds(catalogue'[x]) # {}
      BY <3>1, <3>2 DEF Variant, Holds
    <3>. QED
      BY <2>2, <3>2, <3>3 DEF Holds
  <2>. QED
    BY <1>1, <2>1, <2>2 DEF ReadSection
<1>2. ASSUME NEW id \in Ids, ReadServiceSection(id) PROVE Known'
  <2>1. CASE Fails
    BY <2>1 DEF Fails
  <2>2. ASSUME NEW s \in ServiceSections, ServiceVariantValid(id, s),
               services' = With(services, id, ServiceVariant(id, s)),
               catalogue' = catalogue
        PROVE  Known'
    <3>1. ServiceVariant(id, s).class = "service"
      BY DEF ServiceVariant
    <3>. QED
      BY <2>2, <3>1 DEF With, Holds
  <2>. QED
    BY <1>2, <2>1, <2>2 DEF ReadServiceSection
<1>3. CASE ServicesRead
  <2>1. CASE Fails
    BY <2>1 DEF Fails
  <2>2. CASE catalogue' = Merged(catalogue, services) /\ services' = Empty
    BY <2>2 DEF Merged, Empty, Holds
  <2>. QED
    BY <1>3, <2>1, <2>2 DEF ServicesRead
<1>4. CASE UNCHANGED <<catalogue, services>>
  BY <1>4
<1>. QED
  BY <1>1, <1>2, <1>3, <1>4
     DEF Next, vars, PresetRead, Unreadable, Fails, OpenBackends, Inspect, Settled

(* The same catalogue is of the same servers, each with as many models.     *)
LEMMA SameModels ==
  ASSUME catalogue' = catalogue
  PROVE  /\ Backends' = Backends
         /\ \A b : MaxLoadedModels(Own(b))' = MaxLoadedModels(Own(b))
BY DEF Backends, MaxLoadedModels, Own

(* Only an inspection makes the broker serve, and it has read the limits.   *)
LEMMA StepSuits == Known /\ Suits /\ [Next]_vars => Suits'
<1> SUFFICES ASSUME Known, Suits, [Next]_vars, Serving' PROVE Suits'
  BY DEF Suits
<1>1. CASE Inspect
  <2> DEFINE Read(reached, report) ==
        /\ \A b \in reached : report[b] \in Reports(b)
        /\ limit' = [b \in reached |-> report[b].max]
        /\ problems' =
             (UNION {RouterProblems(b, report[b].max, report[b].autoload) : b \in reached})
             \cup {<<b, "unavailable">> : b \in Backends \ reached}
  <2>1. PICK reached \in SUBSET Backends :
          \E report \in [reached -> UNION {Reports(b) : b \in reached}] :
            Read(reached, report)
    BY <1>1 DEF Inspect
  <2>2. PICK report \in [reached -> UNION {Reports(b) : b \in reached}] :
          Read(reached, report)
    BY <2>1
  <2>3. problems' = {}
    BY DEF Serving
  <2>4. ASSUME NEW b \in Backends
        PROVE  /\ limit'[b] \in Nat /\ (b # "llama" => limit'[b] = 1)
               /\ limit'[b] \notin 1..MaxLoadedModels(Own(b)) - 1
    <3>1. b \in reached
      <4> SUFFICES ASSUME b \in Backends \ reached PROVE FALSE
        OBVIOUS
      <4>1. <<b, "unavailable">> \in {<<c, "unavailable">> : c \in Backends \ reached}
        OBVIOUS
      <4> HIDE DEF RouterProblems
      <4>2. <<b, "unavailable">> \in problems'
        BY <2>2, <4>1
      <4>. QED
        BY <2>3, <4>2
    <3>2. RouterProblems(b, report[b].max, report[b].autoload) = {}
      BY <2>2, <2>3, <3>1
    <3>3. report[b] \in Reports(b) /\ limit'[b] = report[b].max
      BY <2>2, <3>1
    <3>4. limit'[b] \in Nat /\ (b # "llama" => limit'[b] = 1)
      <4>1. CASE b = "llama"
        BY <3>3, <4>1, CatalogueAssumption DEF CatalogueAssumption, Reports
      <4>2. CASE b # "llama"
        BY <3>3, <4>2 DEF Reports
      <4>. QED
        BY <4>1, <4>2
    <3>5. report[b].max \notin 1..MaxLoadedModels(Own(b)) - 1
      BY <3>2 DEF RouterProblems
    <3>. QED
      BY <3>3, <3>4, <3>5
  <2>. QED
    BY <1>1, <2>4, SameModels DEF Inspect, Suits
<1>2. CASE UNCHANGED vars
  BY <1>2, SameModels DEF vars, Suits, Serving
<1>3. CASE stage' # "ready"
  BY <1>3 DEF Serving
<1>4. ASSUME NEW id \in Ids, ReadSection(id) \/ ReadServiceSection(id)
      PROVE  stage' # "ready"
  BY <1>4 DEF ReadSection, ReadServiceSection, Fails
<1>5. ASSUME PresetRead \/ ServicesRead \/ Unreadable \/ OpenBackends
      PROVE  stage' # "ready"
  BY <1>5 DEF PresetRead, ServicesRead, Unreadable, OpenBackends, Fails
<1>. QED
  BY <1>1, <1>2, <1>3, <1>4, <1>5 DEF Next, Settled

(* Models that the scheduler may hold together are no more than the limit.  *)
LEMMA SuitsNever == CInv => NeverEvicts
<1> SUFFICES ASSUME CInv, Serving, limit["llama"] # 0,
                    NEW S \in SUBSET RouterModels, Conflicts!Compatible(S)
             PROVE  Cardinality(S) <= limit["llama"]
  BY DEF NeverEvicts
<1>1. IsFiniteSet(Own("llama")) /\ Own("llama") \subseteq DOMAIN catalogue
  <2>1. Own("llama") \in SUBSET Ids /\ Own("llama") \subseteq DOMAIN catalogue
    BY DEF CInv, Known, Own
  <2>. QED
    BY <2>1, CatalogueAssumption, FS_Subset DEF CatalogueAssumption
<1>2. /\ S \subseteq Own("llama")
      /\ \A id \in S : Holds(catalogue[id]) # {}
  <2>1. \A id \in S : id \in DOMAIN catalogue /\ catalogue[id].class # "service"
    BY DEF RouterModels
  <2>. QED
    BY <2>1 DEF CInv, Known, Own
<1>3. \A x, y \in S : x # y =>
        /\ Holds(catalogue[x]) # Holds(catalogue[y])
        /\ Holds(catalogue[x]) \cap Holds(catalogue[y]) = {}
  BY <1>1, <1>2 DEF Conflicts!Compatible, Conflicts!ClaimsConflict
<1>4. /\ MaxLoadedModels(Own("llama")) \in Nat
      /\ Cardinality(S) <= MaxLoadedModels(Own("llama"))
  BY <1>1, <1>2, <1>3, MaxCovers
<1>5. Cardinality(S) \in Nat
  BY <1>1, <1>2, FS_Subset, FS_CardinalityType
<1>. QED
  BY <1>4, <1>5 DEF CInv, Suits, Backends

(* Two models of a service either conflict or hold nothing: else they would *)
(* be a group of two, and a service is a server for one.                    *)
LEMMA SuitsApart == CInv => ServiceApart
<1> SUFFICES ASSUME CInv, Serving, NEW b \in Backends \ {"llama"},
                    NEW x \in Own(b), NEW y \in Own(b), x # y,
                    ~Conflicts!ClaimsConflict(x, y),
                    Holds(catalogue[x]) # {} \/ Holds(catalogue[y]) # {}
             PROVE  FALSE
  BY DEF ServiceApart
<1> DEFINE S == {x, y}
<1>1. IsFiniteSet(Own(b)) /\ Own(b) \subseteq DOMAIN catalogue
  <2>1. Own(b) \in SUBSET Ids /\ Own(b) \subseteq DOMAIN catalogue
    BY DEF CInv, Known, Own
  <2>. QED
    BY <2>1, CatalogueAssumption, FS_Subset DEF CatalogueAssumption
<1>2. Holds(catalogue[x]) \cap Holds(catalogue[y]) = {}
  BY <1>1 DEF Conflicts!ClaimsConflict
<1>3. \A v, w \in S : v # w =>
        /\ Holds(catalogue[v]) # Holds(catalogue[w])
        /\ Holds(catalogue[v]) \cap Holds(catalogue[w]) = {}
  BY <1>2
<1>4. /\ MaxLoadedModels(Own(b)) \in Nat
      /\ Cardinality(S) <= MaxLoadedModels(Own(b))
  <2>1. S \in SUBSET Own(b)
    OBVIOUS
  <2> HIDE DEF S
  <2>. QED
    BY <1>1, <1>3, <2>1, MaxCovers
<1>5. Cardinality(S) = 2
  <2>1. IsFiniteSet({x}) /\ Cardinality({x}) = 1
    BY FS_Singleton
  <2>2. S = {x} \cup {y} /\ y \notin {x}
    OBVIOUS
  <2>. QED
    BY <2>1, <2>2, FS_AddElement
<1>6. limit[b] = 1 /\ limit[b] \notin 1..MaxLoadedModels(Own(b)) - 1
  BY DEF CInv, Suits
<1>. QED
  BY <1>4, <1>5, <1>6

(* The router never has to choose a model to unload: while the broker       *)
(* schedules, models of the router that do not conflict are never more than *)
(* its models-max, whatever the presets, the devices and the limit.         *)
THEOREM RouterNeverEvicts == Spec => []NeverEvicts
<1>1. CInv /\ [Next]_vars => CInv'
  BY StepKnown, StepSuits DEF CInv
<1>. QED
  BY <1>1, StartKnown, SuitsNever, PTL DEF Spec

(* Two models of one managed service are never held together, unless        *)
(* neither claims anything: router_problems, with the one model that        *)
(* ManagedService.props says it can have, keeps the broker from scheduling  *)
(* any other catalogue.                                                     *)
THEOREM ServiceModelsExclude == Spec => []ServiceApart
<1>1. CInv /\ [Next]_vars => CInv'
  BY StepKnown, StepSuits DEF CInv
<1>. QED
  BY <1>1, StartKnown, SuitsApart, PTL DEF Spec

-----------------------------------------------------------------------------
(* Claims and names *)

(* What a valid section claims is what llama.cpp will use for it.           *)
LEMMA VariantUses ==
  ASSUME NEW id \in Ids, NEW s, VariantValid(id, s)
  PROVE  Holds(Variant(id, s)) = Uses(s)
<1> DEFINE used == {Gpu[d] : d \in Items(Suffix[id])}
           kind == ResourceClass(s, Suffix[id])
           ram == IF kind # "gpu_resident" THEN {"RAM:weights"} ELSE {}
<1>1. Holds(Variant(id, s)) = used \cup ram
  <2> DEFINE claims == ResourceClaims(kind, id)
  <2>1. Holds(Variant(id, s)) = {c.resource : c \in {d \in claims : d.exclusive}}
    BY DEF Holds, Variant
  <2>2. \A r : Claim(r, TRUE).resource = r /\ Claim(r, TRUE).exclusive
               /\ Claim(r, FALSE).resource = r /\ ~Claim(r, FALSE).exclusive
    BY DEF Claim
  <2> HIDE DEF kind
  <2> DEFINE gpus == {Claim(Gpu[d], TRUE) : d \in Items(Suffix[id])}
  <2>3. claims = {Claim("CPU", FALSE), Claim("RAM:weights", kind # "gpu_resident")} \cup gpus
    BY DEF ResourceClaims, GpuClaims
  <2>4. ASSUME NEW r
        PROVE  (\E c \in gpus : c.exclusive /\ c.resource = r) <=> r \in used
    <3>1. ASSUME NEW c \in gpus, c.resource = r PROVE r \in used
      <4>1. PICK d \in Items(Suffix[id]) : c = Claim(Gpu[d], TRUE)
        OBVIOUS
      <4>. QED
        BY <3>1, <4>1, <2>2
    <3>2. ASSUME r \in used PROVE \E c \in gpus : c.exclusive /\ c.resource = r
      <4>1. PICK d \in Items(Suffix[id]) : r = Gpu[d]
        BY <3>2
      <4>2. Claim(Gpu[d], TRUE) \in gpus
        OBVIOUS
      <4>. QED
        BY <4>1, <4>2, <2>2
    <3>. QED
      BY <3>1, <3>2
  <2> HIDE DEF claims, gpus, used
  <2>5. ASSUME NEW r
        PROVE  r \in Holds(Variant(id, s)) <=> r \in used \cup ram
    <3>1. r \in Holds(Variant(id, s)) <=> \E c \in claims : c.exclusive /\ c.resource = r
      BY <2>1
    <3>2. CASE kind # "gpu_resident"
      <4>1. claims = {Claim("CPU", FALSE), Claim("RAM:weights", TRUE)} \cup gpus
        BY <2>3, <3>2
      <4>. QED
        BY <2>2, <2>4, <3>1, <3>2, <4>1
    <3>3. CASE kind = "gpu_resident"
      <4>1. claims = {Claim("CPU", FALSE), Claim("RAM:weights", FALSE)} \cup gpus
        BY <2>3, <3>3
      <4>. QED
        BY <2>2, <2>4, <3>1, <3>3, <4>1
    <3>. QED
      BY <3>2, <3>3
  <2> HIDE DEF ram
  <2>. QED
    BY <2>5
<1>2. s.device = Suffix[id] /\ PlacementValid(s, Suffix[id])
  BY DEF VariantValid, DevicesAgree
<1>3. \A key \in DraftDeviceKeys : Value(s[key], s.device) = Suffix[id]
  BY <1>2 DEF VariantValid, DevicesAgree, Value
<1>4. UNION {Items(Value(s[key], s.device)) : key \in DraftDeviceKeys} = Items(Suffix[id])
  BY <1>3 DEF DraftDeviceKeys
<1>5. CASE Suffix[id] = <<>>
  <2>1. s.n_gpu_layers = "0" /\ kind = "cpu_weights"
    BY <1>2, <1>5 DEF PlacementValid, ResourceClass
  <2>. QED
    BY <1>1, <1>4, <2>1 DEF Uses
<1>6. CASE Suffix[id] # <<>>
  <2>1. s.n_gpu_layers = "all" /\ (kind # "gpu_resident" <=> Value(s.n_cpu_moe, 0) # 0)
    BY <1>2, <1>6 DEF PlacementValid, ResourceClass
  <2>. QED
    BY <1>1, <1>2, <1>4, <2>1 DEF Uses
<1>. QED
  BY <1>5, <1>6

(* A router's variant claims exclusively what llama.cpp will put weights    *)
(* on, whatever the sections, the [*] settings and the devices.             *)
THEOREM ClaimsAreUse == Spec => []ClaimsMatchUse
<1> DEFINE Matched ==
      /\ ClaimsMatchUse
      /\ \A id \in DOMAIN services : services[id].class = "service"
<1>1. Init => Matched
  BY DEF Init, Empty, ClaimsMatchUse, RouterModels
<1>2. Matched /\ [Next]_vars => Matched'
  <2> SUFFICES ASSUME Matched, [Next]_vars PROVE Matched'
    OBVIOUS
  <2>1. CASE UNCHANGED <<catalogue, services>>
    BY <2>1 DEF ClaimsMatchUse, RouterModels, Holds
  <2>2. ASSUME NEW id \in Ids, ReadSection(id), catalogue' # catalogue PROVE Matched'
    <3>1. PICK s : /\ VariantValid(id, s) /\ services' = services
                   /\ catalogue' = With(catalogue, id, Variant(id, s))
      BY <2>2 DEF ReadSection, Fails
    <3>2. DOMAIN catalogue' = DOMAIN catalogue \cup {id}
          /\ \A x \in DOMAIN catalogue' :
               catalogue'[x] = IF x = id THEN Variant(id, s) ELSE catalogue[x]
      BY <3>1 DEF With
    <3>3. Holds(Variant(id, s)) = Uses(Variant(id, s).settings)
      BY <3>1, VariantUses DEF Variant
    <3>4. \A x \in DOMAIN catalogue' : catalogue'[x].class # "service"
            => Holds(catalogue'[x]) = Uses(catalogue'[x].settings)
      BY <3>2, <3>3 DEF ClaimsMatchUse, RouterModels
    <3>. QED
      BY <3>1, <3>4 DEF ClaimsMatchUse, RouterModels, Holds
  <2>3. ASSUME NEW id \in Ids, ReadServiceSection(id), services' # services PROVE Matched'
    <3>1. PICK s : catalogue' = catalogue /\ services' = With(services, id, ServiceVariant(id, s))
      BY <2>3 DEF ReadServiceSection, Fails
    <3>2. ServiceVariant(id, s).class = "service"
      BY DEF ServiceVariant
    <3>. QED
      BY <3>1, <3>2 DEF With, ClaimsMatchUse, RouterModels, Holds
  <2>4. CASE ServicesRead /\ catalogue' = Merged(catalogue, services) /\ services' = Empty
    BY <2>4 DEF Merged, Empty, ClaimsMatchUse, RouterModels, Holds
  <2>5. ASSUME NEW id \in Ids, ReadSection(id) PROVE services' = services
    BY <2>5 DEF ReadSection, Fails
  <2>6. ASSUME NEW id \in Ids, ReadServiceSection(id) PROVE catalogue' = catalogue
    BY <2>6 DEF ReadServiceSection, Fails
  <2>. QED
    BY <2>1, <2>2, <2>3, <2>4, <2>5, <2>6
       DEF Next, vars, PresetRead, ServicesRead, Unreadable, Fails, OpenBackends, Inspect, Settled
<1>. QED
  BY <1>1, <1>2, PTL DEF Spec

(* Once a preset has defined a public model ID, nothing that is read later  *)
(* changes what it is.                                                      *)
THEOREM IdsAreKept == Spec => IdsKept
<1> DEFINE Same == \A id \in DOMAIN catalogue : catalogue'[id] = catalogue[id]
<1>1. [Next]_vars => [Same]_vars
  <2> SUFFICES ASSUME Next PROVE Same
    BY DEF vars
  <2>1. CASE catalogue' = catalogue
    BY <2>1
  <2>2. ASSUME NEW id \in Ids, ReadSection(id) PROVE Same
    BY <2>2 DEF ReadSection, With, Fails
  <2>3. CASE ServicesRead
    BY <2>3 DEF ServicesRead, Mergeable, Merged, Fails
  <2>. QED
    BY <2>1, <2>2, <2>3
       DEF Next, vars, ReadServiceSection, PresetRead, Unreadable, Fails, OpenBackends, Inspect, Settled
<1>. QED
  BY <1>1, PTL DEF Spec, IdsKept

-----------------------------------------------------------------------------
(* Types *)

ClaimType == [resource : Resources, exclusive : BOOLEAN]

(* What is known of the services is typed too before it is merged, and each *)
(* problem and limit is of a server that the catalogue names.               *)
Typed ==
  /\ TypeOK
  /\ \A id \in DOMAIN services : services[id].claims \subseteq ClaimType

(* The devices of an ID's suffix are GPUs of the machine. *)
LEMMA SuffixGpus ==
  ASSUME NEW id \in Ids, SuffixValid(id)
  PROVE  \A d \in Items(Suffix[id]) : Gpu[d] \in Resources
<1>1. Suffix[id] \in Seq(Devices) /\ Gpu \in [Devices -> Resources]
  BY CatalogueAssumption DEF CatalogueAssumption, SuffixValid
<1>. QED
  BY <1>1 DEF Items

LEMMA VariantTyped ==
  ASSUME NEW id \in Ids, NEW s, VariantValid(id, s)
  PROVE  Variant(id, s).claims \subseteq ClaimType
<1> DEFINE kind == ResourceClass(s, Suffix[id])
<1>1. \A r \in Resources, e \in BOOLEAN : Claim(r, e) \in ClaimType
  BY DEF Claim, ClaimType
<1>2. {"CPU", "RAM:weights"} \subseteq Resources
  BY CatalogueAssumption DEF CatalogueAssumption
<1>3. GpuClaims(id) \subseteq ClaimType
  BY <1>1, SuffixGpus DEF GpuClaims, VariantValid
<1>4. (kind # "gpu_resident") \in BOOLEAN
  OBVIOUS
<1>5. Variant(id, s).claims = ResourceClaims(kind, id)
  BY DEF Variant
<1>6. Claim("CPU", FALSE) \in ClaimType /\ Claim("RAM:weights", TRUE) \in ClaimType
      /\ Claim("RAM:weights", FALSE) \in ClaimType
  BY <1>1, <1>2
<1> HIDE DEF kind
<1>7. CASE kind = "gpu_resident"
  BY <1>3, <1>5, <1>6, <1>7 DEF ResourceClaims
<1>8. CASE kind # "gpu_resident"
  BY <1>3, <1>5, <1>6, <1>8 DEF ResourceClaims
<1>. QED
  BY <1>7, <1>8

LEMMA ServiceVariantTyped ==
  ASSUME NEW id \in Ids, NEW s \in ServiceSections, ServiceVariantValid(id, s)
  PROVE  ServiceVariant(id, s).claims \subseteq ClaimType
<1> DEFINE exclusive == {Gpu[d] : d \in Items(Suffix[id])} \cup s.exclusive
           cpu == IF "CPU" \in exclusive THEN {} ELSE {Claim("CPU", FALSE)}
           claimed == {Claim(r, TRUE) : r \in exclusive}
<1>1. \A r \in Resources, e \in BOOLEAN : Claim(r, e) \in ClaimType
  BY DEF Claim, ClaimType
<1>2. exclusive \subseteq Resources
  BY SuffixGpus, CatalogueAssumption DEF CatalogueAssumption, ServiceVariantValid
<1>3. "CPU" \in Resources
  BY CatalogueAssumption DEF CatalogueAssumption
<1>4. ServiceVariant(id, s).claims = claimed \cup cpu
  BY DEF ServiceVariant
<1> HIDE DEF exclusive
<1>5. claimed \subseteq ClaimType /\ cpu \subseteq ClaimType
  BY <1>1, <1>2, <1>3
<1> HIDE DEF claimed, cpu
<1>. QED
  BY <1>4, <1>5

(* A catalogue that grows names the servers that it named.                  *)
LEMMA BackendsGrow ==
  ASSUME \A id \in DOMAIN catalogue : id \in DOMAIN catalogue' /\ catalogue'[id] = catalogue[id]
  PROVE  Backends \subseteq Backends'
BY DEF Backends

LEMMA StepTyped == Typed /\ [Next]_vars => Typed'
<1> SUFFICES ASSUME Typed, [Next]_vars PROVE Typed'
  OBVIOUS
<1>1. ASSUME UNCHANGED <<catalogue, services, limit, problems>>, defaults' \in {defaults, None},
             stage' \in {"preset", "services", "merged", "inspect", "ready", "failed"}
      PROVE  Typed'
  BY <1>1, SameModels DEF Typed, TypeOK
<1>2. ASSUME Fails PROVE Typed'
  BY <1>1, <1>2 DEF Fails
<1>3. ASSUME NEW id \in Ids, ReadSection(id), ~Fails PROVE Typed'
  <2>1. PICK s : /\ VariantValid(id, s)
                 /\ catalogue' = With(catalogue, id, Variant(id, s))
                 /\ UNCHANGED <<stage, defaults, services, limit, problems>>
    BY <1>3 DEF ReadSection
  <2>2. /\ DOMAIN catalogue' = DOMAIN catalogue \cup {id} /\ id \notin DOMAIN catalogue
        /\ \A x \in DOMAIN catalogue' :
             catalogue'[x] = IF x = id THEN Variant(id, s) ELSE catalogue[x]
    BY <1>3, <2>1 DEF With, ReadSection
  <2>3. Backends \subseteq Backends'
    BY <2>2, BackendsGrow
  <2>4. \A x \in DOMAIN catalogue' : catalogue'[x].claims \subseteq ClaimType
    BY <2>1, <2>2, VariantTyped DEF Typed, TypeOK, ClaimType
  <2>. QED
    BY <2>1, <2>2, <2>3, <2>4 DEF Typed, TypeOK, ClaimType
<1>4. ASSUME NEW id \in Ids, ReadServiceSection(id), ~Fails PROVE Typed'
  <2>1. PICK s \in ServiceSections :
          /\ ServiceVariantValid(id, s)
          /\ services' = With(services, id, ServiceVariant(id, s))
          /\ UNCHANGED <<stage, defaults, catalogue, limit, problems>>
    BY <1>4 DEF ReadServiceSection
  <2>2. /\ DOMAIN services' = DOMAIN services \cup {id}
        /\ \A x \in DOMAIN services' :
             services'[x] = IF x = id THEN ServiceVariant(id, s) ELSE services[x]
    BY <2>1 DEF With
  <2>3. \A x \in DOMAIN services' : services'[x].claims \subseteq ClaimType
    BY <2>1, <2>2, ServiceVariantTyped DEF Typed
  <2>. QED
    BY <2>1, <2>2, <2>3, SameModels DEF Typed, TypeOK
<1>5. ASSUME ServicesRead, ~Fails PROVE Typed'
  <2>1. /\ Mergeable(catalogue, services) /\ stage' = "merged"
        /\ catalogue' = Merged(catalogue, services) /\ services' = Empty
        /\ UNCHANGED <<defaults, limit, problems>>
    BY <1>5 DEF ServicesRead
  <2>2. /\ DOMAIN catalogue' = DOMAIN catalogue \cup DOMAIN services
        /\ \A x \in DOMAIN catalogue' :
             catalogue'[x] = IF x \in DOMAIN services THEN services[x] ELSE catalogue[x]
    BY <2>1 DEF Merged
  <2>3. Backends \subseteq Backends'
    BY <2>1, <2>2, BackendsGrow DEF Mergeable
  <2>4. \A x \in DOMAIN catalogue' : catalogue'[x].claims \subseteq ClaimType
    BY <2>2 DEF Typed, TypeOK, ClaimType
  <2>5. DOMAIN services' = {}
    BY <2>1 DEF Empty
  <2>. QED
    BY <2>1, <2>2, <2>3, <2>4, <2>5 DEF Typed, TypeOK, ClaimType
<1>6. ASSUME Inspect PROVE Typed'
  <2> DEFINE Read(reached, report) ==
        /\ \A b \in reached : report[b] \in Reports(b)
        /\ limit' = [b \in reached |-> report[b].max]
        /\ problems' =
             (UNION {RouterProblems(b, report[b].max, report[b].autoload) : b \in reached})
             \cup {<<b, "unavailable">> : b \in Backends \ reached}
      kinds == {"models-max", "autoload", "unavailable"}
  <2>1. PICK reached \in SUBSET Backends :
          \E report \in [reached -> UNION {Reports(b) : b \in reached}] :
            Read(reached, report)
    BY <1>6 DEF Inspect
  <2>2. PICK report \in [reached -> UNION {Reports(b) : b \in reached}] :
          Read(reached, report)
    BY <2>1
  <2>3. \A b \in reached : report[b].max \in Nat
    <3> SUFFICES ASSUME NEW b \in reached PROVE report[b].max \in Nat
      OBVIOUS
    <3>1. report[b] \in Reports(b)
      BY <2>2
    <3>2. CASE b = "llama"
      BY <3>1, <3>2, CatalogueAssumption DEF CatalogueAssumption, Reports
    <3>3. CASE b # "llama"
      BY <3>1, <3>3 DEF Reports
    <3>. QED
      BY <3>2, <3>3
  <2>4. DOMAIN limit' = reached /\ \A b \in reached : limit'[b] = report[b].max
    BY <2>2
  <2>5. problems' \subseteq Backends \X kinds
    <3>1. \A b \in reached :
            RouterProblems(b, report[b].max, report[b].autoload) \subseteq Backends \X kinds
      BY DEF RouterProblems
    <3>2. {<<b, "unavailable">> : b \in Backends \ reached} \subseteq Backends \X kinds
      OBVIOUS
    <3> HIDE DEF RouterProblems, kinds
    <3>. QED
      BY <2>2, <3>1, <3>2
  <2>6. UNCHANGED <<defaults, catalogue, services>> /\ stage' = "ready"
    BY <1>6 DEF Inspect
  <2>. QED
    BY <2>3, <2>4, <2>5, <2>6, SameModels DEF Typed, TypeOK
<1>7. CASE UNCHANGED vars
  BY <1>1, <1>7 DEF vars, Typed, TypeOK
<1>8. CASE PresetRead \/ OpenBackends
  BY <1>1, <1>2, <1>8 DEF PresetRead, OpenBackends
<1>. QED
  BY <1>2, <1>3, <1>4, <1>5, <1>6, <1>7, <1>8 DEF Next, Unreadable, Settled

(* Every variable has its type: what is claimed are resources of the        *)
(* machine, and problems are those of servers that the catalogue names.     *)
THEOREM CatalogueTyped == Spec => []TypeOK
<1>1. Init => Typed
  BY DEF Init, Empty, Typed, TypeOK
<1>2. Typed => TypeOK
  BY DEF Typed
<1>. QED
  BY <1>1, <1>2, StepTyped, PTL DEF Spec

=============================================================================
