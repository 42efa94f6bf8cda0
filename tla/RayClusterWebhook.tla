-------------------------- MODULE RayClusterWebhook --------------------------
(***************************************************************************)
(* What admission makes of a RayCluster, pkg/webhook/resources/raycluster: *)
(* the mutator, which every Create and Update of anybody passes, the       *)
(* controllers' own among them, and after it the validator.                *)
(*                                                                         *)
(* Of a cluster these look at                                              *)
(*   gcs         - the annotation that turns GCS fault tolerance on, a     *)
(*                 string or "none";                                       *)
(*   ft          - whether ray's own fault tolerance annotation is "true"; *)
(*   autoscaling - enableInTreeAutoscaling: "none", "true" or "false";     *)
(*   head and workers - the group of the head, and a sequence of others.   *)
(* A group has the start params ("" when absent), the names in its         *)
(* environment in order, ports and lifecycle ("none" when absent), and the *)
(* requests and limits of its resources in thousandths, 0 when absent.     *)
(* What has other names in these maps is left as it is, and left out.      *)
(***************************************************************************)
EXTENDS Integers, Sequences

CONSTANT Words     \* the strings that start params, environments and groups hold

\* The mutator's own are among them.
ASSUME WordsAssumption ==
  {"none", "true", "default", "ray stop", "0.0.0.0", "$REDIS_PASSWORD", "RAY_REDIS_ADDRESS",
   "REDIS_PASSWORD", "RAY_gcs_rpc_server_reconnect_timeout_s"} \subseteq Words

Flags == {"none", "true", "false"}
StartParams == {"block", "dashboard-host", "redis-password"}
ResourceNames == {"cpu", "memory", "gpu"}
Group == [params : [StartParams -> Words], env : Seq(Words), ports : Words,
          lifecycle : Words, requests : [ResourceNames -> Nat],
          limits : [ResourceNames -> Nat]]
ClusterSpecs == [gcs : Flags, ft : BOOLEAN, autoscaling : Flags, head : Group,
                 workers : Seq(Group)]

-----------------------------------------------------------------------------
\* Quantity.Value rounds a fraction up.
Value(q) == ((q + 999) \div 1000) * 1000

\* A missing limit of cpu or memory is taken from the requests.  Then the other limits
\* are the requests too, also those that were given.
PatchResourceLimits(requests, limits) ==
  IF limits["cpu"] # 0 /\ limits["memory"] # 0 THEN limits
  ELSE [r \in ResourceNames |->
          IF r = "gpu" THEN requests[r]
          ELSE Value(IF limits[r] # 0 THEN limits[r] ELSE requests[r])]

\* Mutant of AddEnv: the name is not looked up first.
AddEnvAgain(env, name) == Append(env, name)

AddEnv(env, name) ==
  IF \E i \in DOMAIN env : env[i] = name THEN env ELSE Append(env, name)

PatchContainerLifecycle(lifecycle) == IF lifecycle = "none" THEN "ray stop" ELSE lifecycle

HeadParams(params, gcs) ==
  [params EXCEPT !["block"] = "true", !["dashboard-host"] = "0.0.0.0",
                 !["redis-password"] = IF gcs THEN "$REDIS_PASSWORD" ELSE @]

PatchHeadGroup(g, gcs) ==
  [params    |-> HeadParams(g.params, gcs),
   env       |-> IF gcs THEN AddEnv(AddEnv(g.env, "RAY_REDIS_ADDRESS"), "REDIS_PASSWORD")
                 ELSE g.env,
   ports     |-> IF g.ports = "none" THEN "default" ELSE g.ports,
   lifecycle |-> PatchContainerLifecycle(g.lifecycle),
   requests  |-> g.requests,
   limits    |-> PatchResourceLimits(g.requests, g.limits)]

PatchWorkerGroup(g) ==
  [params    |-> [g.params EXCEPT !["block"] = "true"],
   env       |-> AddEnv(g.env, "RAY_gcs_rpc_server_reconnect_timeout_s"),
   ports     |-> g.ports,
   lifecycle |-> PatchContainerLifecycle(g.lifecycle),
   requests  |-> g.requests,
   limits    |-> PatchResourceLimits(g.requests, g.limits)]

Mutated(spec) ==
  LET gcs == spec.gcs = "true"
  IN [gcs         |-> spec.gcs,
      ft          |-> gcs \/ spec.ft,
      autoscaling |-> IF gcs /\ spec.autoscaling = "none" THEN "true" ELSE spec.autoscaling,
      head        |-> PatchHeadGroup(spec.head, gcs),
      workers     |-> [i \in DOMAIN spec.workers |-> PatchWorkerGroup(spec.workers[i])]]

\* Autoscaling needs worker groups.
Valid(spec) == spec.autoscaling = "true" => spec.workers # <<>>

\* An annotation that is removed altogether passes.
KeepsGCS(old, new) == old.gcs = "true" => new.gcs \in {"none", "true"}

\* Clusters of a RayService are validated, not mutated.
AdmittedSpec(new, owned) == IF owned THEN new ELSE Mutated(new)
CreateAdmitted(new, owned) == Valid(AdmittedSpec(new, owned))
UpdateAdmitted(old, new, owned) ==
  (owned \/ KeepsGCS(old, new)) /\ Valid(AdmittedSpec(new, owned))
==============================================================================
