--------------------------- MODULE RayServiceSpec ---------------------------
(***************************************************************************)
(* The spec of a RayService, as the MLService controller makes it from the *)
(* spec of a service and as it changes the one that is there:              *)
(* pkg/controller/mlservice/cluster_util.go and serve_util.go.             *)
(*                                                                         *)
(* The spec of a service is a record with                                  *)
(*   image  - "" for the image of the settings;                            *)
(*   hf     - the name of the HF secret, or "none";                        *)
(*   groups - the worker groups, a sequence of records with name, scale    *)
(*            (the three replica counts), params (of ray start, a function *)
(*            from names to values, "" when absent), accelerators (a       *)
(*            function from product names to counts), placement (runtime   *)
(*            class, node selector and tolerations), resources and volume  *)
(*            ("none" when nil).                                           *)
(* The spec of a RayService is a record with image, that of the head, and  *)
(* groups, which have an image of their own, the param "resources" as the  *)
(* sequence accelerators, and tokens, the secrets named by the             *)
(* HUGGING_FACE_HUB_TOKEN entries of the environment, in order.            *)
(* Ports, volumes of the head, autoscaler options, labels and the serve    *)
(* config are the same for every service and left out.                     *)
(***************************************************************************)
EXTENDS Naturals, Sequences, FiniteSets

CONSTANTS
  Text,                \* what names, images and values can be: strings
  RayLLMImage,         \* the setting of that name
  Products,            \* the accelerator product names that occur
  ParamNames,          \* the names of start params, "block" among them
  Contains             \* the known types each of them contains, as indices of AcceleratorTypes

AcceleratorTypes ==
  <<"V100", "P100", "T4", "P4", "K80", "A10G", "L4", "A100", "Intel-GPU-Max-1550",
    "Intel-GPU-Max-1100", "Intel-GAUDI", "AMD-Instinct-MI100", "AMD-Instinct-MI250X",
    "AMD-Instinct-MI250X-MI250", "AMD-Instinct-MI210", "AMD-Instinct-MI300X-OAM",
    "AMD-Radeon-R9-200-HD-7900", "AMD-Radeon-HD-7900", "aws-neuron-core", "TPU-V2",
    "TPU-V3", "TPU-V4", "A100-40G", "A100-80G">>

ASSUME ParamAssumption == "block" \in ParamNames
ASSUME TextAssumption == /\ {"", "none", "true", RayLLMImage} \subseteq Text
                         /\ \A i \in DOMAIN AcceleratorTypes : AcceleratorTypes[i] \in Text
ASSUME ContainsAssumption == /\ IsFiniteSet(Products)
                             /\ Contains \in [Products -> SUBSET DOMAIN AcceleratorTypes]

\* The first type in the order of the code, so that a longer name which contains
\* another one is only found when it is listed before that.
GetAcceleratorTypeByProductName(p) ==
  IF Contains[p] = {} THEN ""
  ELSE AcceleratorTypes[CHOOSE i \in Contains[p] : \A j \in Contains[p] : i <= j]

\* A range over a map visits its keys in any order.
Visits(keys) == {order \in [1..Cardinality(keys) -> keys] :
                   \A i, j \in DOMAIN order : order[i] = order[j] => i = j}

\* One of these for each set of keys.  TLC makes the image of a set once, and a set that is
\* given by a condition whenever it is used.
Orders == {visit : visit \in
             {v \in [SUBSET Products -> UNION {Visits(keys) : keys \in SUBSET Products}] :
                \A keys \in SUBSET Products : v[keys] \in Visits(keys)}}

ConfigResourceAccelerators(g, visit) ==
  LET order == visit[DOMAIN g.accelerators]
  IN [i \in DOMAIN order |-> <<GetAcceleratorTypeByProductName(order[i]),
                               g.accelerators[order[i]]>>]

GetRayClusterImage(image) == IF image # "" THEN image ELSE RayLLMImage

NoParams == [p \in ParamNames |-> ""]

-----------------------------------------------------------------------------
\* A new RayService.

GetDefaultWorkerGroupSpecConfig(g, image, hf, order) ==
  [name |-> g.name, scale |-> g.scale,
   params |-> IF g.params # NoParams THEN g.params ELSE [NoParams EXCEPT !["block"] = "true"],
   accelerators |-> IF DOMAIN g.accelerators # {}
                    THEN ConfigResourceAccelerators(g, order) ELSE <<>>,
   placement |-> g.placement, resources |-> g.resources, volume |-> g.volume,
   image |-> image, tokens |-> IF hf = "none" THEN <<>> ELSE <<hf>>]

GetRayClusterSpecConfig(spec, order) ==
  LET image == GetRayClusterImage(spec.image)
  IN [image  |-> image,
      groups |-> [i \in DOMAIN spec.groups |->
                    GetDefaultWorkerGroupSpecConfig(spec.groups[i], image, spec.hf, order)]]

-----------------------------------------------------------------------------
\* One that is there.

\* The new image goes to the head and to the first worker group, no further.
SetRayClusterImage(spec, ray) ==
  LET image == GetRayClusterImage(spec.image)
  IN [image  |-> image,
      groups |-> [ray.groups EXCEPT ![1].image = image]]

\* Mutant of SetWorkerGroupHFEnv: it is not looked up first.
SetWorkerGroupHFEnvAgain(hf, tokens) ==
  IF hf = "none" THEN tokens ELSE Append(tokens, hf)

\* An entry for the secret is added unless there is one; the others stay.
SetWorkerGroupHFEnv(hf, tokens) ==
  IF hf = "none" \/ \E i \in DOMAIN tokens : tokens[i] = hf THEN tokens
  ELSE Append(tokens, hf)

\* Start params are added or replaced; resources are replaced unless nil; a volume
\* is left as it was.
SetWorkerGroup(g, hf, group, order) ==
  [group EXCEPT
     !.scale = g.scale,
     !.params = [p \in ParamNames |-> IF g.params[p] # "" THEN g.params[p] ELSE @[p]],
     !.accelerators = IF DOMAIN g.accelerators # {}
                      THEN ConfigResourceAccelerators(g, order) ELSE @,
     !.placement = g.placement,
     !.resources = IF g.resources # "none" THEN g.resources ELSE @,
     !.tokens = SetWorkerGroupHFEnv(hf, @)]

\* Groups of the same name are matched; none is added or removed.  The names of the
\* groups of a service are distinct.
SetRayClusterWorkerGroupConfig(spec, ray, order) ==
  [ray EXCEPT !.groups = [i \in DOMAIN ray.groups |->
     IF \E k \in DOMAIN spec.groups : spec.groups[k].name = ray.groups[i].name
     THEN SetWorkerGroup(spec.groups[CHOOSE k \in DOMAIN spec.groups :
                                       spec.groups[k].name = ray.groups[i].name],
                         spec.hf, ray.groups[i], order)
     ELSE ray.groups[i]]]

UpdatedSpec(spec, ray, order) ==
  SetRayClusterWorkerGroupConfig(spec, SetRayClusterImage(spec, ray), order)

\* What the specs of services and of RayServices can be.
ServiceGroup(products) ==
  [name : Text, scale : Nat, params : [ParamNames -> Text],
   accelerators : [products -> Nat], placement : Text, resources : Text, volume : Text]
IsServiceSpec(spec) ==
  /\ spec.image \in Text /\ spec.hf \in Text
  /\ Len(spec.groups) \in Nat /\ DOMAIN spec.groups = 1..Len(spec.groups)
  /\ \A i \in DOMAIN spec.groups : \E products \in SUBSET Products :
       spec.groups[i] \in ServiceGroup(products)
RayGroup == [name : Text, scale : Nat,
             params : [ParamNames -> Text],
             accelerators : Seq(Text \X Nat), placement : Text, resources : Text,
             volume : Text, image : Text, tokens : Seq(Text)]
RaySpecs == [image : Text, groups : Seq(RayGroup)]

-----------------------------------------------------------------------------
\* What a RayService owes a service: the image of the head, and in the groups of both
\* the replicas, the placement, the start params, the resources and the HF token.
InEffect(spec, ray) ==
  /\ ray.image = GetRayClusterImage(spec.image)
  /\ \A k \in DOMAIN spec.groups, i \in DOMAIN ray.groups :
       LET g == spec.groups[k]
           r == ray.groups[i]
       IN g.name = r.name =>
            /\ r.scale = g.scale /\ r.placement = g.placement
            /\ \A p \in ParamNames : g.params[p] # "" => r.params[p] = g.params[p]
            /\ g.resources # "none" => r.resources = g.resources
            /\ spec.hf # "none" => \E t \in DOMAIN r.tokens : r.tokens[t] = spec.hf

\* Two groups, and two specs, that differ in the order of the accelerators at most.
Entries(group) == {group.accelerators[k] : k \in DOMAIN group.accelerators}
SameGroup(a, b) == /\ [a EXCEPT !.accelerators = <<>>] = [b EXCEPT !.accelerators = <<>>]
                   /\ Entries(a) = Entries(b)
SameButOrder(a, b) == /\ a.image = b.image /\ DOMAIN a.groups = DOMAIN b.groups
                      /\ \A i \in DOMAIN a.groups : SameGroup(a.groups[i], b.groups[i])

OneTypeEach(spec) ==
  \A i \in DOMAIN spec.groups : Cardinality(DOMAIN spec.groups[i].accelerators) <= 1

\* A second update with the same spec, whatever order it visits the accelerators in, changes
\* that order and nothing else; and nothing at all if no group has two types of them.
UpdatesOnce(spec, ray) ==
  \A order, other \in Orders :
    LET once  == UpdatedSpec(spec, ray, order)
        twice == UpdatedSpec(spec, once, other)
    IN SameButOrder(once, twice) /\ (OneTypeEach(spec) => twice = once)
=============================================================================
