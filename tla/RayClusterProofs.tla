-------------------------- MODULE RayClusterProofs --------------------------
(***************************************************************************)
(* Theorems about RayCluster and its admission, for any clusters, claims,  *)
(* specs that are submitted, workers and disturbances.                     *)
(*                                                                         *)
(* The first part is about the mutator alone: what it makes is a cluster   *)
(* spec, and what it makes of that is the same.  The invariant then says   *)
(* that every stored spec has been admitted; the copies in the cache and   *)
(* in jobs only need to be cluster specs, as every write passes admission. *)
(* The third part is about what an old copy may still be trusted for, the  *)
(* last about the claims that are made.                                    *)
(***************************************************************************)
EXTENDS RayCluster, VolumeClaimsProofs

-----------------------------------------------------------------------------
\* The mutator.

LEMMA ValueIdempotent ==
  ASSUME NEW q \in Nat
  PROVE  Value(q) \in Nat /\ Value(Value(q)) = Value(q)
<1> DEFINE k == (q + 999) \div 1000
<1>1. k \in Nat /\ Value(q) = k * 1000
  BY DEF Value
<1> HIDE DEF k
<1>2. (k * 1000 + 999) \div 1000 = k
  BY <1>1
<1> QED BY <1>1, <1>2 DEF Value

LEMMA LimitsIdempotent ==
  ASSUME NEW requests \in [ResourceNames -> Nat], NEW limits \in [ResourceNames -> Nat]
  PROVE  LET once == PatchResourceLimits(requests, limits)
         IN once \in [ResourceNames -> Nat] /\ PatchResourceLimits(requests, once) = once
<1> DEFINE once == PatchResourceLimits(requests, limits)
<1>1. {"cpu", "memory", "gpu"} = ResourceNames
  BY DEF ResourceNames
<1>2. CASE limits["cpu"] # 0 /\ limits["memory"] # 0
  BY <1>2 DEF PatchResourceLimits
<1>3. CASE ~(limits["cpu"] # 0 /\ limits["memory"] # 0)
  <2> DEFINE full(r) == IF limits[r] # 0 THEN limits[r] ELSE requests[r]
  <2>1. \A r \in ResourceNames : full(r) \in Nat
    OBVIOUS
  <2>2. once = [r \in ResourceNames |-> IF r = "gpu" THEN requests[r] ELSE Value(full(r))]
    BY <1>3 DEF PatchResourceLimits
  <2> HIDE DEF full, once
  <2>3. once \in [ResourceNames -> Nat]
    BY <2>1, <2>2, ValueIdempotent
  <2>4. CASE once["cpu"] # 0 /\ once["memory"] # 0
    <3>1. PatchResourceLimits(requests, once) = once
      BY <2>3, <2>4 DEF PatchResourceLimits
    <3> QED BY <2>3, <3>1 DEF once
  <2>5. CASE ~(once["cpu"] # 0 /\ once["memory"] # 0)
    <3> DEFINE twice == PatchResourceLimits(requests, once)
    <3>1. twice = [r \in ResourceNames |->
                     IF r = "gpu" THEN requests[r]
                     ELSE Value(IF once[r] # 0 THEN once[r] ELSE requests[r])]
      BY <2>5 DEF PatchResourceLimits
    <3>2. ASSUME NEW r \in ResourceNames
          PROVE  twice[r] = once[r]
      <4>1. CASE r = "gpu"
        BY <2>2, <3>1, <4>1
      <4>2. CASE r # "gpu" /\ once[r] # 0
        <5>1. once[r] = Value(full(r)) /\ full(r) \in Nat
          BY <2>1, <2>2, <4>2
        <5>2. Value(once[r]) = once[r]
          BY <5>1, ValueIdempotent
        <5>3. twice[r] = Value(once[r])
          BY <3>1, <4>2
        <5> QED BY <5>2, <5>3
      <4>3. CASE r # "gpu" /\ once[r] = 0
        <5>1. Value(full(r)) = 0 /\ full(r) \in Nat /\ twice[r] = Value(requests[r])
          BY <2>1, <2>2, <3>1, <4>3
        <5>2. full(r) = 0
          BY <5>1 DEF Value
        <5>3. requests[r] = 0
          BY <5>2 DEF full
        <5> QED BY <5>1, <5>2, <5>3, <4>3
      <4> QED BY <4>1, <4>2, <4>3
    <3>3. twice = once
      BY <2>3, <3>1, <3>2
    <3> QED BY <2>3, <3>3 DEF once
  <2> QED BY <2>4, <2>5
<1> QED BY <1>2, <1>3

LEMMA AddEnvIdempotent ==
  ASSUME NEW env \in Seq(Words), NEW name \in Words
  PROVE  /\ AddEnv(env, name) \in Seq(Words)
         /\ \E i \in DOMAIN AddEnv(env, name) : AddEnv(env, name)[i] = name
         /\ \A other \in Words :
              (\E i \in DOMAIN env : env[i] = other) =>
                \E i \in DOMAIN AddEnv(env, name) : AddEnv(env, name)[i] = other
<1>1. CASE \E i \in DOMAIN env : env[i] = name
  BY <1>1 DEF AddEnv
<1>2. CASE ~\E i \in DOMAIN env : env[i] = name
  <2> DEFINE longer == Append(env, name)
  <2>1. /\ longer \in Seq(Words) /\ DOMAIN longer = 1..(Len(env) + 1)
        /\ DOMAIN env = 1..Len(env) /\ Len(env) \in Nat
        /\ longer[Len(env) + 1] = name
        /\ \A i \in 1..Len(env) : longer[i] = env[i]
    OBVIOUS
  <2>2. AddEnv(env, name) = longer
    BY <1>2 DEF AddEnv
  <2> HIDE DEF longer
  <2>3. Len(env) + 1 \in DOMAIN longer /\ \A i \in 1..Len(env) : i \in DOMAIN longer
    BY <2>1
  <2> QED BY <2>1, <2>2, <2>3
<1> QED BY <1>1, <1>2

LEMMA AddEnvAgainSame ==
  ASSUME NEW env \in Seq(Words), NEW name \in Words,
         \E i \in DOMAIN env : env[i] = name
  PROVE  AddEnv(env, name) = env
BY DEF AddEnv

\* A group that a patch has gone over.
LEMMA LifecycleIdempotent ==
  ASSUME NEW l \in Words
  PROVE  /\ PatchContainerLifecycle(l) \in Words
         /\ PatchContainerLifecycle(PatchContainerLifecycle(l)) = PatchContainerLifecycle(l)
BY WordsAssumption DEF PatchContainerLifecycle

LEMMA HeadPatch ==
  ASSUME NEW g \in Group, NEW gcs \in BOOLEAN
  PROVE  LET once == PatchHeadGroup(g, gcs)
         IN once \in Group /\ PatchHeadGroup(once, gcs) = once
<1> DEFINE params == HeadParams(g.params, gcs)
           env == IF gcs THEN AddEnv(AddEnv(g.env, "RAY_REDIS_ADDRESS"), "REDIS_PASSWORD")
                  ELSE g.env
           ports == IF g.ports = "none" THEN "default" ELSE g.ports
           lifecycle == PatchContainerLifecycle(g.lifecycle)
           limits == PatchResourceLimits(g.requests, g.limits)
           once == [params |-> params, env |-> env, ports |-> ports, lifecycle |-> lifecycle,
                    requests |-> g.requests, limits |-> limits]
<1>1. /\ g.params \in [StartParams -> Words] /\ g.env \in Seq(Words) /\ g.ports \in Words
      /\ g.lifecycle \in Words /\ g.requests \in [ResourceNames -> Nat]
      /\ g.limits \in [ResourceNames -> Nat]
  BY DEF Group
<1>2. params \in [StartParams -> Words] /\ HeadParams(params, gcs) = params
  <2>1. {"true", "0.0.0.0", "$REDIS_PASSWORD"} \subseteq Words
    BY WordsAssumption
  <2>2. params \in [StartParams -> Words]
    BY <1>1, <2>1 DEF HeadParams
  <2>3. /\ params["block"] = "true" /\ params["dashboard-host"] = "0.0.0.0"
        /\ gcs => params["redis-password"] = "$REDIS_PASSWORD"
    BY <1>1 DEF HeadParams, StartParams
  <2> HIDE DEF params
  <2>4. HeadParams(params, gcs) = params
    BY <2>2, <2>3 DEF HeadParams
  <2> QED BY <2>2, <2>4
<1>3. /\ env \in Seq(Words)
      /\ env = IF gcs THEN AddEnv(AddEnv(env, "RAY_REDIS_ADDRESS"), "REDIS_PASSWORD") ELSE env
  <2> DEFINE one == AddEnv(g.env, "RAY_REDIS_ADDRESS")
             two == AddEnv(one, "REDIS_PASSWORD")
  <2>0. "RAY_REDIS_ADDRESS" \in Words /\ "REDIS_PASSWORD" \in Words
    BY WordsAssumption
  <2>1. /\ one \in Seq(Words)
        /\ \E i \in DOMAIN one : one[i] = "RAY_REDIS_ADDRESS"
    BY <1>1, <2>0, AddEnvIdempotent
  <2> HIDE DEF one
  <2>2. two \in Seq(Words) /\ \E i \in DOMAIN two : two[i] = "REDIS_PASSWORD"
    BY <2>0, <2>1, AddEnvIdempotent
  <2>5. \A other \in Words : (\E i \in DOMAIN one : one[i] = other) =>
                                \E i \in DOMAIN two : two[i] = other
    BY <2>0, <2>1, AddEnvIdempotent
  <2> HIDE DEF two
  <2>6. \E i \in DOMAIN two : two[i] = "RAY_REDIS_ADDRESS"
    BY <2>0, <2>1, <2>5
  <2>3. AddEnv(two, "RAY_REDIS_ADDRESS") = two /\ AddEnv(two, "REDIS_PASSWORD") = two
    BY <2>0, <2>2, <2>6, AddEnvAgainSame
  <2>4. env = IF gcs THEN two ELSE g.env
    BY DEF one, two
  <2> HIDE DEF env
  <2> QED BY <1>1, <2>2, <2>3, <2>4
<1>4. ports \in Words /\ ports = IF ports = "none" THEN "default" ELSE ports
  BY <1>1, WordsAssumption
<1>5. lifecycle \in Words /\ PatchContainerLifecycle(lifecycle) = lifecycle
  BY <1>1, LifecycleIdempotent
<1>6. limits \in [ResourceNames -> Nat] /\ PatchResourceLimits(g.requests, limits) = limits
  BY <1>1, LimitsIdempotent
<1>7. PatchHeadGroup(g, gcs) = once
  BY DEF PatchHeadGroup
<1> HIDE DEF params, env, ports, lifecycle, limits
<1>8. once \in Group
  BY <1>1, <1>2, <1>3, <1>4, <1>5, <1>6 DEF Group
<1>9. PatchHeadGroup(once, gcs) = once
  BY <1>2, <1>3, <1>4, <1>5, <1>6 DEF PatchHeadGroup
<1> HIDE DEF once
<1> QED BY <1>7, <1>8, <1>9

LEMMA WorkerPatch ==
  ASSUME NEW g \in Group
  PROVE  PatchWorkerGroup(g) \in Group
         /\ PatchWorkerGroup(PatchWorkerGroup(g)) = PatchWorkerGroup(g)
<1> DEFINE params == [g.params EXCEPT !["block"] = "true"]
           env == AddEnv(g.env, "RAY_gcs_rpc_server_reconnect_timeout_s")
           lifecycle == PatchContainerLifecycle(g.lifecycle)
           limits == PatchResourceLimits(g.requests, g.limits)
           once == [params |-> params, env |-> env, ports |-> g.ports,
                    lifecycle |-> lifecycle, requests |-> g.requests, limits |-> limits]
<1>1. /\ g.params \in [StartParams -> Words] /\ g.env \in Seq(Words) /\ g.ports \in Words
      /\ g.lifecycle \in Words /\ g.requests \in [ResourceNames -> Nat]
      /\ g.limits \in [ResourceNames -> Nat]
  BY DEF Group
<1>2. params \in [StartParams -> Words] /\ [params EXCEPT !["block"] = "true"] = params
  <2>1. "true" \in Words
    BY WordsAssumption
  <2> QED BY <1>1, <2>1 DEF StartParams
<1>3. env \in Seq(Words) /\ AddEnv(env, "RAY_gcs_rpc_server_reconnect_timeout_s") = env
  <2>1. "RAY_gcs_rpc_server_reconnect_timeout_s" \in Words
    BY WordsAssumption
  <2>2. env \in Seq(Words)
        /\ \E i \in DOMAIN env : env[i] = "RAY_gcs_rpc_server_reconnect_timeout_s"
    BY <1>1, <2>1, AddEnvIdempotent
  <2> HIDE DEF env
  <2> QED BY <2>1, <2>2, AddEnvAgainSame
<1>4. lifecycle \in Words /\ PatchContainerLifecycle(lifecycle) = lifecycle
  BY <1>1, LifecycleIdempotent
<1>5. limits \in [ResourceNames -> Nat] /\ PatchResourceLimits(g.requests, limits) = limits
  BY <1>1, LimitsIdempotent
<1>6. PatchWorkerGroup(g) = once
  BY DEF PatchWorkerGroup
<1> HIDE DEF params, env, lifecycle, limits
<1>7. once \in Group
  BY <1>1, <1>2, <1>3, <1>4, <1>5 DEF Group
<1>8. PatchWorkerGroup(once) = once
  BY <1>2, <1>3, <1>4, <1>5 DEF PatchWorkerGroup
<1> HIDE DEF once
<1> QED BY <1>6, <1>7, <1>8

\* What the mutator makes of a cluster spec it leaves alone from then on, and it keeps
\* the annotation.
THEOREM MutatedOnce ==
  ASSUME NEW spec \in ClusterSpecs
  PROVE  /\ Mutated(spec) \in ClusterSpecs /\ Mutated(Mutated(spec)) = Mutated(spec)
         /\ Mutated(spec).gcs = spec.gcs
<1> DEFINE gcs(s) == s.gcs = "true"
           autoscaling(s) == IF gcs(s) /\ s.autoscaling = "none" THEN "true" ELSE s.autoscaling
           workers(w) == [i \in DOMAIN w |-> PatchWorkerGroup(w[i])]
           patched(s) == [gcs |-> s.gcs, ft |-> gcs(s) \/ s.ft, autoscaling |-> autoscaling(s),
                          head |-> PatchHeadGroup(s.head, gcs(s)),
                          workers |-> workers(s.workers)]
           once == patched(spec)
<1>1. ASSUME NEW s \in ClusterSpecs
      PROVE  Mutated(s) = patched(s)
  BY DEF Mutated
<1>2. /\ spec.gcs \in Flags /\ spec.ft \in BOOLEAN /\ spec.autoscaling \in Flags
      /\ spec.head \in Group /\ spec.workers \in Seq(Group)
  BY DEF ClusterSpecs
<1>3. workers(spec.workers) \in Seq(Group) /\ workers(workers(spec.workers)) = workers(spec.workers)
  <2>1. \A i \in DOMAIN spec.workers :
          /\ PatchWorkerGroup(spec.workers[i]) \in Group
          /\ PatchWorkerGroup(PatchWorkerGroup(spec.workers[i]))
               = PatchWorkerGroup(spec.workers[i])
    BY <1>2, WorkerPatch
  <2>2. Len(spec.workers) \in Nat /\ DOMAIN spec.workers = 1..Len(spec.workers)
    BY <1>2
  <2>3. workers(spec.workers) \in [1..Len(spec.workers) -> Group]
    BY <2>1, <2>2
  <2>4. workers(spec.workers) \in Seq(Group)
    BY <2>2, <2>3, \A n \in Nat : [1..n -> Group] \subseteq Seq(Group)
  <2> QED BY <2>1, <2>4
<1>4. /\ PatchHeadGroup(spec.head, gcs(spec)) \in Group
      /\ PatchHeadGroup(PatchHeadGroup(spec.head, gcs(spec)), gcs(spec))
           = PatchHeadGroup(spec.head, gcs(spec))
  BY <1>2, HeadPatch
<1>5. autoscaling(spec) \in Flags
  BY <1>2 DEF Flags
<1> HIDE DEF workers
<1>6. once \in ClusterSpecs
  BY <1>2, <1>3, <1>4, <1>5 DEF ClusterSpecs
<1>7. once.gcs = spec.gcs /\ once.ft = (gcs(spec) \/ spec.ft) /\ once.autoscaling = autoscaling(spec)
      /\ once.head = PatchHeadGroup(spec.head, gcs(spec)) /\ once.workers = workers(spec.workers)
  OBVIOUS
<1>8. patched(once) = once
  BY <1>3, <1>4, <1>7
<1> HIDE DEF once, patched
<1>9. Mutated(spec) = once
  BY <1>1 DEF once
<1> QED BY <1>1, <1>6, <1>7, <1>8, <1>9
-----------------------------------------------------------------------------
\* The invariant.

\* A stored spec has been admitted.
Fit(obj) ==
  obj.exists => /\ obj.spec \in ClusterSpecs /\ Valid(obj.spec)
                /\ AdmittedSpec(obj.spec, IsOwnedByRayService(obj)) = obj.spec

ClustersFit == \A c \in Clusters : Fit(cluster[c])
CopiesFit == \A c \in Clusters : ccache[c].exists => ccache[c].spec \in ClusterSpecs
JobsFit == \A c \in Clusters : job[c].pc # "idle" => job[c].obj.spec \in ClusterSpecs
ClaimsSafe == \A p \in Claims : ClaimSafe(claim[p], claimcache[p])

IInv == TypeOK /\ ClustersFit /\ CopiesFit /\ JobsFit /\ ClaimsSafe

-----------------------------------------------------------------------------
\* Objects.

LEMMA ClusterRecords ==
  /\ NoCluster \in ClusterObject /\ ~NoCluster.exists /\ NoSecret \in SecretObject
  /\ Idle \in Job /\ Idle.pc = "idle"
<1>1. NoCluster \in ClusterObject /\ ~NoCluster.exists
  BY DEF NoCluster, ClusterObject
<1>2. NoSecret \in SecretObject
  BY DEF NoSecret, SecretObject
<1>3. Idle \in Job /\ Idle.pc = "idle"
  BY <1>1 DEF Idle, Job
<1> QED BY <1>1, <1>2, <1>3

LEMMA ClusterTypes ==
  ASSUME NEW cur \in ClusterObject, NEW new \in ClusterObject
  PROVE  /\ Changed(cur, new) \in ClusterObject
         /\ Changed(cur, new).spec = new.spec /\ Changed(cur, new).mounts = new.mounts
         /\ Changed(cur, new).exists = new.exists
<1>1. cur.rv + 1 \in Nat
  BY DEF ClusterObject
<1>2. ASSUME NEW n \in Nat
      PROVE  /\ [new EXCEPT !.rv = n] \in ClusterObject
             /\ [new EXCEPT !.rv = n].spec = new.spec
             /\ [new EXCEPT !.rv = n].mounts = new.mounts
             /\ [new EXCEPT !.rv = n].exists = new.exists
  BY DEF ClusterObject
<1> QED BY <1>1, <1>2 DEF Changed

LEMMA LeftTypes ==
  ASSUME NEW obj \in ClusterObject
  PROVE  /\ Left(obj) \in ClusterObject
         /\ Left(obj).spec = obj.spec /\ Left(obj).mounts = obj.mounts
         /\ Left(obj).exists => obj.exists
<1>1. obj.rv + 1 \in Nat
  BY DEF ClusterObject
<1>2. ASSUME NEW n \in Nat
      PROVE  /\ [obj EXCEPT !.exists = FALSE, !.rv = n] \in ClusterObject
             /\ [obj EXCEPT !.exists = FALSE, !.rv = n].spec = obj.spec
             /\ [obj EXCEPT !.exists = FALSE, !.rv = n].mounts = obj.mounts
             /\ ~[obj EXCEPT !.exists = FALSE, !.rv = n].exists
  BY DEF ClusterObject
<1> QED BY <1>1, <1>2 DEF Left, Removed

LEMMA FitKept ==
  ASSUME NEW a \in ClusterObject, NEW b \in ClusterObject, Fit(a), b.spec = a.spec,
         b.mounts = a.mounts, b.exists => a.exists
  PROVE  Fit(b)
BY DEF Fit, IsOwnedByRayService

LEMMA FitLeft ==
  ASSUME NEW cur \in ClusterObject, NEW new \in ClusterObject, Fit(new)
  PROVE  /\ Changed(cur, new) \in ClusterObject /\ Fit(Changed(cur, new))
         /\ Left(Changed(cur, new)) \in ClusterObject /\ Fit(Left(Changed(cur, new)))
<1>1. Changed(cur, new) \in ClusterObject /\ Fit(Changed(cur, new))
  BY ClusterTypes, FitKept
<1>2. Left(Changed(cur, new)) \in ClusterObject /\ Fit(Left(Changed(cur, new)))
  BY <1>1, LeftTypes, FitKept
<1> QED BY <1>1, <1>2

\* What admission makes of a spec it makes of that again.
LEMMA SpecAdmitted ==
  ASSUME NEW spec \in ClusterSpecs, NEW owned \in BOOLEAN
  PROVE  /\ AdmittedSpec(spec, owned) \in ClusterSpecs
         /\ AdmittedSpec(AdmittedSpec(spec, owned), owned) = AdmittedSpec(spec, owned)
BY MutatedOnce DEF AdmittedSpec

LEMMA SpecReplaced ==
  ASSUME NEW obj \in ClusterObject, NEW spec \in ClusterSpecs
  PROVE  /\ [obj EXCEPT !.spec = spec] \in ClusterObject
         /\ [obj EXCEPT !.spec = spec].spec = spec
         /\ [obj EXCEPT !.spec = spec].mounts = obj.mounts
         /\ [obj EXCEPT !.spec = spec].exists = obj.exists
         /\ spec = obj.spec => [obj EXCEPT !.spec = spec] = obj
BY DEF ClusterObject

LEMMA AdmittedFits ==
  ASSUME NEW obj \in ClusterObject, obj.spec \in ClusterSpecs,
         Valid(AdmittedSpec(obj.spec, IsOwnedByRayService(obj)))
  PROVE  /\ AsAdmitted(obj) \in ClusterObject /\ Fit(AsAdmitted(obj))
         /\ AsAdmitted(obj).exists = obj.exists
<1> DEFINE owned == IsOwnedByRayService(obj)
           spec == AdmittedSpec(obj.spec, owned)
           made == [obj EXCEPT !.spec = spec]
<1>1. spec \in ClusterSpecs /\ AdmittedSpec(spec, owned) = spec
  BY SpecAdmitted DEF IsOwnedByRayService
<1>2. Valid(spec) /\ AsAdmitted(obj) = made
  BY DEF AsAdmitted
<1> HIDE DEF spec
<1>3. made \in ClusterObject /\ made.spec = spec /\ made.mounts = obj.mounts
      /\ made.exists = obj.exists
  BY <1>1, SpecReplaced
<1> HIDE DEF made
<1>4. Fit(made)
  BY <1>1, <1>2, <1>3 DEF Fit, IsOwnedByRayService
<1> QED BY <1>2, <1>3, <1>4

\* So an update that leaves the spec alone is admitted, and stored as it is.
LEMMA FitMeans ==
  ASSUME NEW obj \in ClusterObject, Fit(obj), obj.exists
  PROVE  Admitted(obj, obj) /\ AsAdmitted(obj) = obj
<1>1. /\ obj.spec \in ClusterSpecs /\ Valid(obj.spec)
      /\ AdmittedSpec(obj.spec, IsOwnedByRayService(obj)) = obj.spec
  BY DEF Fit
<1>2. AsAdmitted(obj) = obj
  BY <1>1, SpecReplaced DEF AsAdmitted
<1> QED BY <1>1, <1>2 DEF Admitted, UpdateAdmitted, KeepsGCS

-----------------------------------------------------------------------------
\* Parts of a step.

LEMMA DisturbType ==
  ASSUME disturbed \in 0..MaxDisturbances, NEW kind, Disturb(kind)
  PROVE  disturbed' \in 0..MaxDisturbances
BY ClusterBounds DEF Disturb

LEMMA CallType ==
  ASSUME disturbed \in 0..MaxDisturbances,
         NEW old, NEW new, NEW possible, NEW stored, NEW ok,
         Call(old, new, possible, stored, ok)
  PROVE  disturbed' \in 0..MaxDisturbances
<1>1. UNCHANGED disturbed \/ Disturb("lostCall")
  BY DEF Call
<1> QED BY <1>1, DisturbType

LEMMA ClusterChanged ==
  ASSUME IInv, NEW c \in Clusters, NEW new \in ClusterObject, Fit(new),
         cluster' = [cluster EXCEPT ![c] = new]
  PROVE  cluster' \in [Clusters -> ClusterObject] /\ ClustersFit'
<1>1. cluster' \in [Clusters -> ClusterObject]
  BY DEF IInv, TypeOK
<1>2. \A d \in Clusters : cluster'[d] = IF d = c THEN new ELSE cluster[d]
  BY DEF IInv, TypeOK
<1> QED BY <1>1, <1>2 DEF IInv, ClustersFit

LEMMA JobChanged ==
  ASSUME IInv, NEW c \in Clusters, NEW new \in Job,
         new.pc # "idle" => new.obj.spec \in ClusterSpecs,
         job' = [job EXCEPT ![c] = new]
  PROVE  job' \in [Clusters -> Job] /\ JobsFit'
<1>1. job' \in [Clusters -> Job]
  BY DEF IInv, TypeOK
<1>2. \A d \in Clusters : job'[d] = IF d = c THEN new ELSE job[d]
  BY DEF IInv, TypeOK
<1> QED BY <1>1, <1>2 DEF IInv, JobsFit

LEMMA JobMoves ==
  ASSUME NEW j \in Job, NEW pc \in {"idle", "claims", "lifecycle", "remove"}
  PROVE  /\ [j EXCEPT !.pc = pc] \in Job /\ [j EXCEPT !.pc = pc].obj = j.obj
         /\ [j EXCEPT !.pc = pc].pc = pc
         /\ [j EXCEPT !.pc = pc, !.failed = TRUE] \in Job
         /\ [j EXCEPT !.pc = pc, !.failed = TRUE].obj = j.obj
BY DEF Job

LEMMA JobMoved ==
  ASSUME IInv, NEW c \in Clusters, job[c].pc # "idle",
         NEW pc \in {"claims", "lifecycle", "remove"}, job' = [job EXCEPT ![c].pc = pc]
  PROVE  job' \in [Clusters -> Job] /\ JobsFit'
<1>1. PICK j \in Job : j = job[c] /\ j.obj.spec \in ClusterSpecs
  BY DEF IInv, TypeOK, JobsFit
<1>4. pc \in {"idle", "claims", "lifecycle", "remove"}
  OBVIOUS
<1> DEFINE next == [j EXCEPT !.pc = pc]
<1>2. next \in Job /\ next.obj = j.obj
  BY <1>4, JobMoves
<1>3. job' = [job EXCEPT ![c] = next]
  BY <1>1
<1> HIDE DEF next
<1> QED BY <1>1, <1>2, <1>3, JobChanged

LEMMA Ended ==
  ASSUME IInv, NEW c \in Clusters, NEW failed, End(c, failed)
  PROVE  job' \in [Clusters -> Job] /\ JobsFit' /\ queue' \subseteq Clusters
<1>1. job' = [job EXCEPT ![c] = Idle] /\ queue' \subseteq Clusters
  BY DEF End, IInv, TypeOK
<1> QED BY <1>1, ClusterRecords, JobChanged

LEMMA CachesKept ==
  ASSUME IInv, UNCHANGED caches
  PROVE  /\ ccache' \in [Clusters -> ClusterObject] /\ CopiesFit'
         /\ redcache' = redcache /\ seccache' \in [Namespaces -> SecretObject]
         /\ claimcache' \in [Claims -> ClaimObject(Clusters)] /\ claimcache' = claimcache
BY DEF IInv, TypeOK, CopiesFit, caches
-----------------------------------------------------------------------------
LEMMA Initially == Init => IInv
<1> SUFFICES ASSUME Init PROVE IInv
  OBVIOUS
<1>1. TypeOK
  BY ClusterRecords, NoClaimType, ClusterBounds DEF Init, TypeOK
<1>2. ClustersFit /\ CopiesFit /\ JobsFit
  BY ClusterRecords DEF Init, ClustersFit, CopiesFit, JobsFit, Fit
<1>3. ClaimsSafe
  BY NoClaimType DEF Init, ClaimsSafe, ClaimSafe, NoClaim
<1> QED BY <1>1, <1>2, <1>3 DEF IInv

\* A step that stores a cluster and disturbs at most.
LEMMA StoreStep ==
  ASSUME IInv, NEW c \in Clusters, NEW new \in ClusterObject, Fit(new),
         cluster' = [cluster EXCEPT ![c] = new],
         UNCHANGED <<redis, secret, claim, configMap, caches, queue, job>>,
         disturbed' \in 0..MaxDisturbances
  PROVE  IInv'
<1>1. cluster' \in [Clusters -> ClusterObject] /\ ClustersFit'
  BY ClusterChanged
<1>2. TypeOK'
  BY <1>1, CachesKept DEF IInv, TypeOK
<1>3. CopiesFit' /\ JobsFit' /\ ClaimsSafe'
  BY CachesKept DEF IInv, JobsFit, ClaimsSafe
<1> QED BY <1>1, <1>2, <1>3 DEF IInv

LEMMA CreateStep ==
  ASSUME IInv, NEW c \in Clusters, NEW m \in ConfigMaps \cup {NoConfigMap},
         NEW s \in Submissions, CreateCluster(c, m, s)
  PROVE  IInv'
<1> DEFINE new   == [NoCluster EXCEPT !.exists = TRUE, !.size = 1, !.mounts = m]
           owned == IsOwnedByRayService(new)
           made  == AdmittedSpec(s, owned)
           obj   == [new EXCEPT !.spec = made, !.redisFinalizer = made.ft]
<1>1. new \in ClusterObject /\ new.mounts = m
  BY DEF NoCluster, ClusterObject
<1>2. /\ CreateAdmitted(s, owned)
      /\ cluster' = [cluster EXCEPT ![c] = Changed(cluster[c], obj)]
  BY DEF CreateCluster
<1>3. /\ made \in ClusterSpecs /\ AdmittedSpec(made, owned) = made /\ Valid(made)
      /\ made.ft \in BOOLEAN
  <2>1. s \in ClusterSpecs /\ owned \in BOOLEAN
    BY SubmissionsAssumption DEF IsOwnedByRayService
  <2>2. made \in ClusterSpecs /\ AdmittedSpec(made, owned) = made
    BY <2>1, SpecAdmitted
  <2> HIDE DEF owned
  <2>3. Valid(made)
    BY <1>2 DEF CreateAdmitted
  <2> HIDE DEF made
  <2> QED BY <2>2, <2>3 DEF ClusterSpecs
<1> HIDE DEF made, new
<1>4. obj \in ClusterObject /\ obj.spec = made /\ obj.mounts = new.mounts
  BY <1>1, <1>3 DEF ClusterObject
<1> HIDE DEF obj
<1>5. Fit(obj)
  BY <1>3, <1>4 DEF Fit, IsOwnedByRayService
<1>6. cluster[c] \in ClusterObject
  BY DEF IInv, TypeOK
<1>7. Changed(cluster[c], obj) \in ClusterObject /\ Fit(Changed(cluster[c], obj))
  BY <1>4, <1>5, <1>6, FitLeft
<1>8. /\ UNCHANGED <<redis, secret, claim, configMap, caches, queue, job>>
      /\ disturbed' \in 0..MaxDisturbances
  BY DEF CreateCluster, IInv, TypeOK
<1> QED BY <1>2, <1>7, <1>8, StoreStep
\* A change to a stored cluster that leaves its spec and its annotation alone.
LEMMA TouchStep ==
  ASSUME IInv, NEW c \in Clusters, NEW new \in ClusterObject,
         cluster[c].exists, new.exists, new.spec = cluster[c].spec,
         new.mounts = cluster[c].mounts,
         \/ cluster' = [cluster EXCEPT ![c] = Changed(cluster[c], new)]
         \/ cluster' = [cluster EXCEPT ![c] = Left(Changed(cluster[c], new))],
         UNCHANGED <<redis, secret, claim, configMap, caches, queue, job>>,
         disturbed' \in 0..MaxDisturbances
  PROVE  IInv'
<1>1. cluster[c] \in ClusterObject /\ Fit(cluster[c])
  BY DEF IInv, TypeOK, ClustersFit
<1>2. Fit(new)
  BY <1>1, FitKept
<1>3. /\ Changed(cluster[c], new) \in ClusterObject /\ Fit(Changed(cluster[c], new))
      /\ Left(Changed(cluster[c], new)) \in ClusterObject
      /\ Fit(Left(Changed(cluster[c], new)))
  BY <1>1, <1>2, FitLeft
<1> QED BY <1>3, StoreStep

LEMMA TouchedTypes ==
  ASSUME NEW obj \in ClusterObject
  PROVE  /\ \A f \in BOOLEAN :
              LET new == [obj EXCEPT !.redisFinalizer = f]
              IN new \in ClusterObject /\ new.spec = obj.spec /\ new.mounts = obj.mounts
                 /\ new.exists = obj.exists
         /\ \A f \in BOOLEAN :
              LET new == [obj EXCEPT !.finalizer = f]
              IN new \in ClusterObject /\ new.spec = obj.spec /\ new.mounts = obj.mounts
                 /\ new.exists = obj.exists
         /\ LET new == [obj EXCEPT !.deleting = TRUE]
            IN new \in ClusterObject /\ new.spec = obj.spec /\ new.mounts = obj.mounts
               /\ new.exists = obj.exists
         /\ \A n \in Nat :
              LET new == [obj EXCEPT !.size = n]
              IN new \in ClusterObject /\ new.spec = obj.spec /\ new.mounts = obj.mounts
                 /\ new.exists = obj.exists
BY DEF ClusterObject

\* What is stored of such a change is the change.
LEMMA TouchAdmitted ==
  ASSUME NEW old \in ClusterObject, Fit(old), old.exists, NEW new \in ClusterObject,
         new.spec = old.spec, new.mounts = old.mounts, new.exists
  PROVE  AsAdmitted(new) = new
BY FitKept, FitMeans

LEMMA EditStep ==
  ASSUME IInv, NEW c \in Clusters, EditCluster(c)
  PROVE  IInv'
<1>1. PICK obj \in ClusterObject : obj = cluster[c] /\ Fit(obj)
  BY DEF IInv, TypeOK, ClustersFit
<1>2. obj.size + 1 \in Nat
  BY DEF ClusterObject
<1> DEFINE new == [obj EXCEPT !.size = obj.size + 1]
<1>3. new \in ClusterObject /\ new.spec = obj.spec /\ new.mounts = obj.mounts
      /\ new.exists = obj.exists
  BY <1>2, TouchedTypes
<1>4. /\ obj.exists /\ Disturb("editCluster")
      /\ cluster' = [cluster EXCEPT ![c] = Changed(obj, AsAdmitted(new))]
      /\ UNCHANGED <<redis, secret, claim, configMap, caches, queue, job>>
  BY <1>1 DEF EditCluster
<1> HIDE DEF new
<1>5. AsAdmitted(new) = new
  BY <1>1, <1>3, <1>4, TouchAdmitted
<1>6. disturbed' \in 0..MaxDisturbances
  BY <1>4, DisturbType DEF IInv, TypeOK
<1> QED BY <1>1, <1>3, <1>4, <1>5, <1>6, TouchStep

LEMMA DeleteStep ==
  ASSUME IInv, NEW c \in Clusters, DeleteCluster(c)
  PROVE  IInv'
<1>1. PICK obj \in ClusterObject : obj = cluster[c]
  BY DEF IInv, TypeOK
<1> DEFINE new == [obj EXCEPT !.deleting = TRUE]
<1>2. new \in ClusterObject /\ new.spec = obj.spec /\ new.mounts = obj.mounts
      /\ new.exists = obj.exists
  BY TouchedTypes
<1>3. /\ obj.exists /\ disturbed' \in 0..MaxDisturbances
      /\ cluster' = [cluster EXCEPT ![c] = Left(Changed(obj, new))]
      /\ UNCHANGED <<redis, secret, claim, configMap, caches, queue, job>>
  BY <1>1 DEF DeleteCluster, IInv, TypeOK
<1> HIDE DEF new
<1> QED BY <1>1, <1>2, <1>3, TouchStep

LEMMA FinishStep ==
  ASSUME IInv, NEW c \in Clusters, FinishRedisCleanUp(c)
  PROVE  IInv'
<1>1. PICK obj \in ClusterObject : obj = cluster[c] /\ Fit(obj)
  BY DEF IInv, TypeOK, ClustersFit
<1> DEFINE new == [obj EXCEPT !.redisFinalizer = FALSE]
<1>2. new \in ClusterObject /\ new.spec = obj.spec /\ new.mounts = obj.mounts
      /\ new.exists = obj.exists
  BY TouchedTypes
<1>3. /\ obj.exists /\ disturbed' \in 0..MaxDisturbances
      /\ cluster' = [cluster EXCEPT ![c] = Left(Changed(obj, AsAdmitted(new)))]
      /\ UNCHANGED <<redis, secret, claim, configMap, caches, queue, job>>
  BY <1>1 DEF FinishRedisCleanUp, IInv, TypeOK
<1> HIDE DEF new
<1>4. AsAdmitted(new) = new
  BY <1>1, <1>2, <1>3, TouchAdmitted
<1> QED BY <1>1, <1>2, <1>3, <1>4, TouchStep

LEMMA SwitchStep ==
  ASSUME IInv, NEW c \in Clusters, NEW v \in Flags, SwitchGCS(c, v)
  PROVE  IInv'
<1>1. PICK obj \in ClusterObject : obj = cluster[c] /\ Fit(obj)
  BY DEF IInv, TypeOK, ClustersFit
<1>2. obj.exists
  BY <1>1 DEF SwitchGCS
<1>3. PICK spec \in ClusterSpecs : spec = obj.spec
  BY <1>1, <1>2 DEF Fit
<1> DEFINE switched == [spec EXCEPT !.gcs = v]
           new  == [obj EXCEPT !.spec = switched]
           made == AsAdmitted(new)
           last == [made EXCEPT !.redisFinalizer = made.redisFinalizer \/ made.spec.ft]
<1>4. switched \in ClusterSpecs
  BY DEF ClusterSpecs
<1>5. new = [cluster[c] EXCEPT !.spec.gcs = v]
  BY <1>1, <1>3
<1>6. /\ Admitted(obj, new) /\ Disturb("switchGCS")
      /\ cluster' = [cluster EXCEPT ![c] = Changed(cluster[c], last)]
      /\ UNCHANGED <<redis, secret, claim, configMap, caches, queue, job>>
  BY <1>1, <1>5 DEF SwitchGCS
<1> HIDE DEF switched
<1>7. new \in ClusterObject /\ new.spec = switched /\ new.exists
  BY <1>2, <1>4, SpecReplaced
<1> HIDE DEF new
<1>8. made \in ClusterObject /\ Fit(made) /\ made.exists
  BY <1>4, <1>6, <1>7, AdmittedFits DEF Admitted, UpdateAdmitted
<1> HIDE DEF made
<1>9. last \in ClusterObject /\ Fit(last)
  <2>1. made.redisFinalizer \in BOOLEAN /\ made.spec.ft \in BOOLEAN
    BY <1>8 DEF Fit, ClusterSpecs, ClusterObject
  <2>2. PICK f \in BOOLEAN : f = (made.redisFinalizer \/ made.spec.ft)
    BY <2>1
  <2>3. last = [made EXCEPT !.redisFinalizer = f]
    BY <2>2
  <2> HIDE DEF last
  <2>4. /\ last \in ClusterObject /\ last.spec = made.spec /\ last.mounts = made.mounts
        /\ last.exists = made.exists
    BY <1>8, <2>3, TouchedTypes
  <2> QED BY <1>8, <2>4, FitKept
<1> HIDE DEF last
<1>10. cluster[c] \in ClusterObject
  BY <1>1
<1>11. Changed(cluster[c], last) \in ClusterObject /\ Fit(Changed(cluster[c], last))
  BY <1>9, <1>10, FitLeft
<1>12. disturbed' \in 0..MaxDisturbances
  BY <1>6, DisturbType DEF IInv, TypeOK
<1> QED BY <1>6, <1>11, <1>12, StoreStep

-----------------------------------------------------------------------------
\* Redis, the claims and the informers.

LEMMA RedisStep ==
  ASSUME IInv, SetRedis
  PROVE  IInv'
<1>1. redis' \in Nat /\ redcache' \in 0..redis'
  BY CachesKept DEF SetRedis, IInv, TypeOK
<1>2. disturbed' \in 0..MaxDisturbances
  BY DisturbType DEF SetRedis, IInv, TypeOK
<1>3. TypeOK'
  BY <1>1, <1>2, CachesKept DEF SetRedis, IInv, TypeOK
<1> QED BY <1>3, CachesKept DEF SetRedis, IInv, ClustersFit, JobsFit, ClaimsSafe

\* A step that stores a claim.
LEMMA ClaimChanged ==
  ASSUME IInv, NEW p \in Claims, NEW new \in ClaimObject(Clusters), ClaimSafe(new, claimcache[p]),
         claim' = [claim EXCEPT ![p] = new], UNCHANGED claimcache
  PROVE  claim' \in [Claims -> ClaimObject(Clusters)] /\ ClaimsSafe'
<1>1. claim' \in [Claims -> ClaimObject(Clusters)]
  BY DEF IInv, TypeOK
<1>2. \A q \in Claims : claim'[q] = IF q = p THEN new ELSE claim[q]
  BY DEF IInv, TypeOK
<1> QED BY <1>1, <1>2 DEF IInv, ClaimsSafe

LEMMA GrowStep ==
  ASSUME IInv, NEW p \in Claims, GrowClaim(p)
  PROVE  IInv' /\ claim[p].size <= claim'[p].size
<1>1. /\ claim[p] \in ClaimObject(Clusters) /\ claimcache[p] \in ClaimObject(Clusters)
      /\ ClaimSafe(claim[p], claimcache[p]) /\ claim[p].exists
  BY DEF IInv, TypeOK, ClaimsSafe, GrowClaim
<1> DEFINE new == Changed(claim[p], [claim[p] EXCEPT !.size = @ + 2])
<1>2. claim' = [claim EXCEPT ![p] = new] /\ disturbed' \in 0..MaxDisturbances
      /\ UNCHANGED <<cluster, redis, secret, configMap, caches, queue, job>>
  BY DisturbType DEF GrowClaim, IInv, TypeOK
<1>3. new \in ClaimObject(Clusters) /\ ClaimSafe(new, claimcache[p]) /\ claim[p].size <= new.size
  BY <1>1, GrownClaim
<1> HIDE DEF new
<1>4. claim' \in [Claims -> ClaimObject(Clusters)] /\ ClaimsSafe'
  BY <1>2, <1>3, CachesKept, ClaimChanged
<1>5. TypeOK'
  BY <1>2, <1>4, CachesKept DEF IInv, TypeOK
<1>6. ClustersFit' /\ CopiesFit' /\ JobsFit'
  BY <1>2, CachesKept DEF IInv, ClustersFit, JobsFit
<1>7. claim'[p] = new
  BY <1>2 DEF IInv, TypeOK
<1> QED BY <1>3, <1>4, <1>5, <1>6, <1>7 DEF IInv

LEMMA CollectStep ==
  ASSUME IInv, NEW p \in Claims, CollectClaim(p)
  PROVE  /\ IInv' /\ ~claim'[p].exists /\ claim'[p].owners = {}
         /\ \A q \in Claims : q # p => claim'[q] = claim[q]
<1>1. /\ claim[p] \in ClaimObject(Clusters) /\ claimcache[p] \in ClaimObject(Clusters)
      /\ ClaimSafe(claim[p], claimcache[p])
  BY DEF IInv, TypeOK, ClaimsSafe
<1> DEFINE new == ClaimCollected(claim[p])
<1>2. claim' = [claim EXCEPT ![p] = new] /\ disturbed' \in 0..MaxDisturbances
      /\ UNCHANGED <<cluster, redis, secret, configMap, caches, queue, job>>
  BY DisturbType DEF CollectClaim, IInv, TypeOK
<1>3. /\ new \in ClaimObject(Clusters) /\ ClaimSafe(new, claimcache[p])
      /\ ~new.exists /\ new.owners = {}
  BY <1>1, CollectedClaim
<1> HIDE DEF new
<1>4. claim' \in [Claims -> ClaimObject(Clusters)] /\ ClaimsSafe'
  BY <1>2, <1>3, CachesKept, ClaimChanged
<1>5. TypeOK'
  BY <1>2, <1>4, CachesKept DEF IInv, TypeOK
<1>6. ClustersFit' /\ CopiesFit' /\ JobsFit'
  BY <1>2, CachesKept DEF IInv, ClustersFit, JobsFit
<1>7. claim'[p] = new /\ \A q \in Claims : q # p => claim'[q] = claim[q]
  BY <1>2 DEF IInv, TypeOK
<1> QED BY <1>3, <1>4, <1>5, <1>6, <1>7 DEF IInv

LEMMA InformerSteps ==
  ASSUME IInv,
         \/ \E c \in Clusters : SyncCluster(c)
         \/ SyncRedis
         \/ \E n \in Namespaces : SyncSecret(n)
         \/ \E p \in Claims : SyncClaim(p)
  PROVE  IInv' /\ UNCHANGED stores
<1>1. ASSUME NEW c \in Clusters, SyncCluster(c)
      PROVE  IInv'
  <2>1. ccache' \in [Clusters -> ClusterObject] /\ queue' \subseteq Clusters
    BY <1>1 DEF SyncCluster, IInv, TypeOK
  <2>2. TypeOK'
    BY <1>1, <2>1 DEF SyncCluster, IInv, TypeOK, stores
  <2>3. CopiesFit'
    <3>1. \A d \in Clusters : ccache'[d] = IF d = c THEN cluster[c] ELSE ccache[d]
      BY <1>1 DEF SyncCluster, IInv, TypeOK
    <3> QED BY <3>1 DEF IInv, CopiesFit, ClustersFit, Fit
  <2> QED BY <1>1, <2>2, <2>3 DEF SyncCluster, IInv, ClustersFit, JobsFit, ClaimsSafe, stores
<1>2. ASSUME NEW p \in Claims, SyncClaim(p)
      PROVE  IInv'
  <2>1. claimcache' \in [Claims -> ClaimObject(Clusters)]
    BY <1>2 DEF SyncClaim, IInv, TypeOK
  <2>2. TypeOK'
    BY <1>2, <2>1 DEF SyncClaim, IInv, TypeOK, stores
  <2>3. ClaimsSafe'
    <3>1. \A q \in Claims : claimcache'[q] = IF q = p THEN claim[p] ELSE claimcache[q]
      BY <1>2 DEF SyncClaim, IInv, TypeOK
    <3>2. claim' = claim /\ \A q \in Claims : claim[q].rv <= claim[q].rv
      BY <1>2 DEF SyncClaim, stores, IInv, TypeOK, ClaimObject
    <3> QED BY <3>1, <3>2 DEF IInv, ClaimsSafe, ClaimSafe
  <2> QED BY <1>2, <2>2, <2>3 DEF SyncClaim, IInv, ClustersFit, CopiesFit, JobsFit, stores
<1>3. CASE SyncRedis
  <2>1. TypeOK'
    BY <1>3 DEF SyncRedis, IInv, TypeOK, stores
  <2> QED BY <1>3, <2>1
          DEF SyncRedis, IInv, ClustersFit, CopiesFit, JobsFit, ClaimsSafe, stores
<1>4. ASSUME NEW n \in Namespaces, SyncSecret(n)
      PROVE  IInv'
  <2>1. seccache' \in [Namespaces -> SecretObject]
    BY <1>4 DEF SyncSecret, IInv, TypeOK
  <2>2. TypeOK'
    BY <1>4, <2>1 DEF SyncSecret, IInv, TypeOK, stores
  <2> QED BY <1>4, <2>2
          DEF SyncSecret, IInv, ClustersFit, CopiesFit, JobsFit, ClaimsSafe, stores
<1>5. UNCHANGED stores
  BY DEF SyncCluster, SyncRedis, SyncSecret, SyncClaim
<1> QED BY <1>1, <1>2, <1>3, <1>4, <1>5
-----------------------------------------------------------------------------
\* The handlers.

LEMMA WorkerStep ==
  ASSUME IInv, job' \in [Clusters -> Job], JobsFit', queue' \subseteq Clusters,
         disturbed' \in 0..MaxDisturbances, UNCHANGED <<cluster, redis, claim, caches>>,
         secret' \in [Namespaces -> SecretObject], configMap' \subseteq ConfigMaps
  PROVE  IInv'
<1>1. TypeOK'
  BY CachesKept DEF IInv, TypeOK
<1> QED BY <1>1, CachesKept DEF IInv, ClustersFit, ClaimsSafe

LEMMA SecretTypes ==
  ASSUME IInv, NEW n \in Namespaces, SyncGCSRedisSecret(n)
  PROVE  secret' \in [Namespaces -> SecretObject] /\ disturbed' \in 0..MaxDisturbances
<1>1. PICK old \in SecretObject, copy \in SecretObject : old = secret[n] /\ copy = seccache[n]
  BY DEF IInv, TypeOK
<1>2. redcache \in Nat /\ old.rv + 1 \in Nat
  BY <1>1 DEF IInv, TypeOK, SecretObject
<1> DEFINE updated == [copy EXCEPT !.data = redcache]
           created == [exists |-> TRUE, rv |-> 0, data |-> redcache]
           new == IF copy.exists THEN Stored(old, updated) ELSE Changed(old, created)
           possible == IF copy.exists THEN Accepts(old, copy) ELSE ~old.exists
<1>3. updated \in SecretObject /\ created \in SecretObject
  BY <1>2 DEF SecretObject
<1>4. \A k \in SecretObject : [k EXCEPT !.rv = old.rv + 1] \in SecretObject
  BY <1>2 DEF SecretObject
<1> HIDE DEF updated, created
<1>5. new \in SecretObject
  BY <1>1, <1>3, <1>4 DEF Stored, Changed
<1>6. \/ UNCHANGED <<secret, disturbed>>
      \/ \E ok \in BOOLEAN, kept \in {old, new} :
           /\ Call(old, new, possible, kept, ok)
           /\ secret' = [secret EXCEPT ![n] = kept]
  BY <1>1 DEF SyncGCSRedisSecret, updated, created
<1> HIDE DEF new, possible
<1>7. CASE UNCHANGED <<secret, disturbed>>
  BY <1>7 DEF IInv, TypeOK
<1>8. ASSUME NEW ok \in BOOLEAN, NEW kept \in {old, new},
             Call(old, new, possible, kept, ok), secret' = [secret EXCEPT ![n] = kept]
      PROVE  secret' \in [Namespaces -> SecretObject] /\ disturbed' \in 0..MaxDisturbances
  <2>1. kept \in SecretObject
    BY <1>5, <1>8
  <2>2. secret' \in [Namespaces -> SecretObject]
    BY <1>8, <2>1 DEF IInv, TypeOK
  <2>3. disturbed' \in 0..MaxDisturbances
    BY <1>8, CallType DEF IInv, TypeOK
  <2> QED BY <2>2, <2>3
<1> QED BY <1>6, <1>7, <1>8

LEMMA BegunTypes ==
  ASSUME NEW obj \in ClusterObject, NEW pc \in {"claims", "lifecycle"}
  PROVE  /\ [Idle EXCEPT !.pc = pc, !.obj = obj] \in Job
         /\ [Idle EXCEPT !.pc = pc, !.obj = obj].obj = obj
BY DEF Idle, Job

LEMMA OnChangedStep ==
  ASSUME IInv, NEW c \in Clusters, OnChanged(c)
  PROVE  IInv' /\ UNCHANGED claim
<1>1. PICK obj \in ClusterObject : obj = ccache[c]
  BY DEF IInv, TypeOK
<1> DEFINE begun(pc) == [Idle EXCEPT !.pc = pc, !.obj = obj]
<1>2. /\ UNCHANGED <<cluster, redis, claim, configMap, caches>> /\ queue' = queue \ {c}
      /\ \/ UNCHANGED <<secret, job, disturbed>>
         \/ /\ obj.exists /\ job' = [job EXCEPT ![c] = begun("lifecycle")]
            /\ UNCHANGED <<secret, disturbed>>
         \/ /\ obj.exists /\ job' = [job EXCEPT ![c] = begun("claims")]
            /\ SyncGCSRedisSecret(NamespaceOf[c])
  BY <1>1 DEF OnChanged
<1>3. secret' \in [Namespaces -> SecretObject] /\ disturbed' \in 0..MaxDisturbances
  <2>1. NamespaceOf[c] \in Namespaces
    BY ClusterAssumption
  <2> QED BY <1>2, <2>1, SecretTypes DEF IInv, TypeOK
<1>4. ASSUME NEW pc \in {"claims", "lifecycle"}, obj.exists,
             job' = [job EXCEPT ![c] = begun(pc)]
      PROVE  job' \in [Clusters -> Job] /\ JobsFit'
  <2>1. begun(pc) \in Job /\ begun(pc).obj = obj
    BY BegunTypes
  <2>2. obj.spec \in ClusterSpecs
    BY <1>1, <1>4 DEF IInv, CopiesFit
  <2> HIDE DEF begun
  <2> QED BY <1>4, <2>1, <2>2, JobChanged
<1>5. job' \in [Clusters -> Job] /\ JobsFit'
  <2>1. CASE UNCHANGED job
    BY <2>1 DEF IInv, TypeOK, JobsFit
  <2> HIDE DEF begun
  <2> QED BY <1>2, <1>4, <2>1
<1>6. queue' \subseteq Clusters /\ configMap' \subseteq ConfigMaps
  BY <1>2 DEF IInv, TypeOK
<1> QED BY <1>2, <1>3, <1>5, <1>6, WorkerStep

LEMMA NextClaimTypes ==
  ASSUME NEW j \in Job
  PROVE  \A n \in Nat :
           [j EXCEPT !.next = n] \in Job /\ [j EXCEPT !.next = n].obj = j.obj
BY DEF Job

LEMMA ClaimsStep ==
  ASSUME IInv, NEW c \in Clusters, CreatePVCFromAnnotation(c)
  PROVE  IInv' /\ \A p \in Claims : claim[p].size <= claim'[p].size
<1>1. PICK j \in Job : j = job[c] /\ j.obj.spec \in ClusterSpecs
  BY DEF IInv, TypeOK, JobsFit, CreatePVCFromAnnotation
<1>2. j.next + 1 \in Nat /\ j.obj.size \in Nat
  BY DEF Job, ClusterObject
<1>3. ASSUME NEW ok \in BOOLEAN, job' = [job EXCEPT ![c] = NextClaim(c, ok)]
      PROVE  job' \in [Clusters -> Job] /\ JobsFit'
  <2>1. NextClaim(c, ok) = IF ok THEN [j EXCEPT !.next = j.next + 1]
                           ELSE [j EXCEPT !.pc = "lifecycle", !.failed = TRUE]
    BY <1>1 DEF NextClaim
  <2>2. NextClaim(c, ok) \in Job /\ NextClaim(c, ok).obj = j.obj
    <3>1. "lifecycle" \in {"idle", "claims", "lifecycle", "remove"}
      OBVIOUS
    <3>2. LET k == [j EXCEPT !.pc = "lifecycle", !.failed = TRUE]
          IN k \in Job /\ k.obj = j.obj
      BY <3>1, JobMoves
    <3>3. LET k == [j EXCEPT !.next = j.next + 1] IN k \in Job /\ k.obj = j.obj
      BY <1>2, NextClaimTypes
    <3> QED BY <2>1, <3>2, <3>3
  <2> QED BY <1>1, <1>3, <2>2, JobChanged
<1>4. UNCHANGED <<cluster, redis, secret, configMap, caches, queue>>
  BY DEF CreatePVCFromAnnotation
<1>5. \A p \in Claims : claim[p] \in ClaimObject(Clusters) /\ claim[p].size <= claim[p].size
  BY DEF IInv, TypeOK, ClaimObject
<1>6. CASE UNCHANGED <<claim, disturbed>>
  <2>1. \/ job' = [job EXCEPT ![c].pc = "lifecycle"]
        \/ job' = [job EXCEPT ![c] = NextClaim(c, TRUE)]
        \/ job' = [job EXCEPT ![c] = NextClaim(c, FALSE)]
    BY DEF CreatePVCFromAnnotation
  <2>2. job[c].pc # "idle"
    BY DEF CreatePVCFromAnnotation
  <2>3. job' \in [Clusters -> Job] /\ JobsFit'
    BY <1>3, <2>1, <2>2, JobMoved
  <2> QED BY <1>4, <1>5, <1>6, <2>3, WorkerStep DEF IInv, TypeOK
<1>7. CASE ~UNCHANGED <<claim, disturbed>>
  <2> DEFINE p    == ClaimsOf[c][j.next]
             size == j.obj.size
             new  == ClaimStored(claim[p], claimcache[p], size, c)
             possible == ClaimAccepted(claim[p], claimcache[p])
  <2>1. /\ j.next \in DOMAIN ClaimsOf[c] /\ ~Satisfied(claimcache[p], size)
        /\ \E ok \in BOOLEAN, kept \in {claim[p], new} :
             /\ Call(claim[p], new, possible, kept, ok)
             /\ claim' = [claim EXCEPT ![p] = kept]
             /\ job' = [job EXCEPT ![c] = NextClaim(c, ok)]
    BY <1>1, <1>7 DEF CreatePVCFromAnnotation
  <2>2. p \in Claims
    BY <2>1, ClaimsAssumption
  <2> HIDE DEF p
  <2>3. /\ claim[p] \in ClaimObject(Clusters) /\ claimcache[p] \in ClaimObject(Clusters)
        /\ ClaimSafe(claim[p], claimcache[p])
    BY <2>2 DEF IInv, TypeOK, ClaimsSafe
  <2>4. new \in ClaimObject(Clusters)
    BY <1>2, <2>3, StoredClaim
  <2>5. possible => /\ ClaimSafe(new, claimcache[p])
                    /\ claim[p].size <= new.size
    BY <1>2, <2>1, <2>3, AcceptedClaim
  <2> HIDE DEF new, size
  <2>6. PICK ok \in BOOLEAN, kept \in {claim[p], new} :
          /\ Call(claim[p], new, possible, kept, ok)
          /\ claim' = [claim EXCEPT ![p] = kept]
          /\ job' = [job EXCEPT ![c] = NextClaim(c, ok)]
    BY <2>1
  <2>7. kept = claim[p] \/ possible
    BY <2>6 DEF Call
  <2>8. /\ kept \in ClaimObject(Clusters) /\ ClaimSafe(kept, claimcache[p])
        /\ claim[p].size <= kept.size
    BY <1>5, <2>2, <2>3, <2>4, <2>5, <2>6, <2>7
  <2>9. claim' \in [Claims -> ClaimObject(Clusters)] /\ ClaimsSafe'
    BY <1>4, <2>2, <2>6, <2>8, CachesKept, ClaimChanged
  <2>10. job' \in [Clusters -> Job] /\ JobsFit'
    BY <1>3, <2>6
  <2>11. disturbed' \in 0..MaxDisturbances
    <3> HIDE DEF possible
    <3> QED BY <2>6, CallType DEF IInv, TypeOK
  <2>12. TypeOK'
    BY <1>4, <2>9, <2>10, <2>11, CachesKept DEF IInv, TypeOK
  <2>13. IInv'
    BY <1>4, <2>9, <2>10, <2>12, CachesKept DEF IInv, ClustersFit
  <2>14. \A q \in Claims : claim'[q] = IF q = p THEN kept ELSE claim[q]
    BY <2>6 DEF IInv, TypeOK
  <2> QED BY <1>5, <2>8, <2>13, <2>14
<1> QED BY <1>6, <1>7
\* What a job stores has passed admission, whatever its copy was.
LEMMA SubmitStep ==
  ASSUME IInv, NEW c \in Clusters, NEW new \in ClusterObject, new.spec \in ClusterSpecs,
         SubmitCluster(c, new), UNCHANGED <<redis, secret, claim, configMap, caches>>
  PROVE  IInv'
<1> DEFINE made == Left(Changed(cluster[c], AsAdmitted(new)))
           possible == Accepts(cluster[c], job[c].obj) /\ Admitted(cluster[c], new)
<1>1. PICK ok \in BOOLEAN, kept \in {cluster[c], made} :
        /\ Call(cluster[c], made, possible, kept, ok)
        /\ cluster' = [cluster EXCEPT ![c] = kept]
        /\ End(c, job[c].failed \/ ~ok)
  BY DEF SubmitCluster
<1>2. kept = cluster[c] \/ possible
  BY <1>1 DEF Call
<1>3. cluster[c] \in ClusterObject /\ Fit(cluster[c])
  BY DEF IInv, TypeOK, ClustersFit
<1>4. ASSUME possible
      PROVE  made \in ClusterObject /\ Fit(made)
  <2>1. AsAdmitted(new) \in ClusterObject /\ Fit(AsAdmitted(new))
    BY <1>4, AdmittedFits DEF Admitted, UpdateAdmitted
  <2> QED BY <1>3, <2>1, FitLeft
<1> HIDE DEF made
<1>5. kept \in ClusterObject /\ Fit(kept)
  BY <1>1, <1>2, <1>3, <1>4
<1>6. cluster' \in [Clusters -> ClusterObject] /\ ClustersFit'
  BY <1>1, <1>5, ClusterChanged
<1>7. job' \in [Clusters -> Job] /\ JobsFit' /\ queue' \subseteq Clusters
  BY <1>1, Ended
<1>8. disturbed' \in 0..MaxDisturbances
  <2> HIDE DEF possible
  <2> QED BY <1>1, CallType DEF IInv, TypeOK
<1>9. TypeOK'
  BY <1>6, <1>7, <1>8, CachesKept DEF IInv, TypeOK
<1> QED BY <1>6, <1>7, <1>9, CachesKept DEF IInv, ClaimsSafe

LEMMA AddFinalizerStep ==
  ASSUME IInv, NEW c \in Clusters, AddFinalizer(c)
  PROVE  IInv'
<1>1. PICK obj \in ClusterObject : obj = job[c].obj /\ obj.spec \in ClusterSpecs
  BY DEF IInv, TypeOK, Job, JobsFit, AddFinalizer
<1> DEFINE new == [obj EXCEPT !.finalizer = TRUE]
<1>2. new \in ClusterObject /\ new.spec = obj.spec
  BY TouchedTypes
<1>3. /\ UNCHANGED <<redis, secret, claim, configMap, caches>>
      /\ \/ End(c, job[c].failed) /\ UNCHANGED <<cluster, disturbed>>
         \/ SubmitCluster(c, new)
  BY <1>1 DEF AddFinalizer
<1> HIDE DEF new
<1>4. CASE End(c, job[c].failed) /\ UNCHANGED <<cluster, disturbed>>
  <2>1. job' \in [Clusters -> Job] /\ JobsFit' /\ queue' \subseteq Clusters
    BY <1>4, Ended
  <2> QED BY <1>3, <1>4, <2>1, WorkerStep DEF IInv, TypeOK
<1>5. CASE SubmitCluster(c, new)
  BY <1>1, <1>2, <1>3, <1>5, SubmitStep
<1> QED BY <1>3, <1>4, <1>5

LEMMA RemoveFinalizerStep ==
  ASSUME IInv, NEW c \in Clusters, RemoveFinalizer(c)
  PROVE  IInv'
<1>1. PICK obj \in ClusterObject : obj = job[c].obj /\ obj.spec \in ClusterSpecs
  BY DEF IInv, TypeOK, Job, JobsFit, RemoveFinalizer
<1> DEFINE new == [obj EXCEPT !.finalizer = FALSE]
<1>2. new \in ClusterObject /\ new.spec = obj.spec
  BY TouchedTypes
<1>3. UNCHANGED <<redis, secret, claim, configMap, caches>> /\ SubmitCluster(c, new)
  BY <1>1 DEF RemoveFinalizer
<1> HIDE DEF new
<1> QED BY <1>1, <1>2, <1>3, SubmitStep

LEMMA OnDeleteStep ==
  ASSUME IInv, NEW c \in Clusters, OnDelete(c)
  PROVE  IInv'
<1> DEFINE mount == job[c].obj.mounts
           done  == job' = [job EXCEPT ![c].pc = "remove"]
<1>1. job[c].pc # "idle" /\ UNCHANGED <<cluster, redis, secret, claim, caches>>
  BY DEF OnDelete
<1>2. configMap' \subseteq ConfigMaps /\ disturbed' \in 0..MaxDisturbances
  <2>1. \/ UNCHANGED <<configMap, disturbed>>
        \/ \E ok \in BOOLEAN, kept \in {configMap, configMap \ {mount}} :
             /\ Call(configMap, configMap \ {mount}, TRUE, kept, ok)
             /\ configMap' = kept
    BY DEF OnDelete
  <2> HIDE DEF mount
  <2> QED BY <2>1, CallType DEF IInv, TypeOK
<1>3. \/ End(c, job[c].failed) \/ End(c, TRUE)
      \/ done /\ (UNCHANGED queue \/ Enqueue(c))
  BY DEF OnDelete
<1>4. job' \in [Clusters -> Job] /\ JobsFit'
  BY <1>1, <1>3, Ended, JobMoved
<1>5. queue' \subseteq Clusters
  BY <1>3, Ended DEF Enqueue, IInv, TypeOK
<1> QED BY <1>1, <1>2, <1>4, <1>5, WorkerStep DEF IInv, TypeOK

LEMMA RestartStep ==
  ASSUME IInv, Restart
  PROVE  IInv'
<1>1. job' \in [Clusters -> Job] /\ JobsFit'
  BY ClusterRecords DEF Restart, JobsFit
<1>2. disturbed' \in 0..MaxDisturbances
  BY DisturbType DEF Restart, IInv, TypeOK
<1>3. TypeOK'
  BY <1>1, <1>2 DEF Restart, IInv, TypeOK
<1>4. ClustersFit' /\ CopiesFit'
  BY DEF Restart, IInv, ClustersFit, CopiesFit, Fit
<1>5. ClaimsSafe'
  <2>1. \A p \in Claims : claim[p].rv <= claim[p].rv
    BY DEF IInv, TypeOK, ClaimObject
  <2> QED BY <2>1 DEF Restart, IInv, ClaimsSafe, ClaimSafe
<1> QED BY <1>1, <1>3, <1>4, <1>5 DEF IInv

-----------------------------------------------------------------------------
LEMMA Step == IInv /\ [Next]_vars => IInv'
<1> SUFFICES ASSUME IInv, [Next]_vars PROVE IInv'
  OBVIOUS
<1>1. ASSUME NEW c \in Clusters, NEW m \in ConfigMaps \cup {NoConfigMap},
             NEW s \in Submissions, CreateCluster(c, m, s)
      PROVE  IInv'
  BY <1>1, CreateStep
<1>2. ASSUME NEW c \in Clusters, NEW v \in Flags, SwitchGCS(c, v)
      PROVE  IInv'
  BY <1>2, SwitchStep
<1>3. ASSUME NEW c \in Clusters, EditCluster(c) \/ DeleteCluster(c) \/ FinishRedisCleanUp(c)
      PROVE  IInv'
  BY <1>3, EditStep, DeleteStep, FinishStep
<1>4. ASSUME NEW c \in Clusters, OnChanged(c) \/ ClusterStep(c)
      PROVE  IInv'
  BY <1>4, OnChangedStep, ClaimsStep, AddFinalizerStep, OnDeleteStep, RemoveFinalizerStep
     DEF ClusterStep
<1>5. ASSUME \/ \E c \in Clusters : SyncCluster(c)
             \/ SyncRedis
             \/ \E n \in Namespaces : SyncSecret(n)
             \/ \E p \in Claims : SyncClaim(p)
      PROVE  IInv'
  BY <1>5, InformerSteps
<1>6. ASSUME NEW p \in Claims, GrowClaim(p) \/ CollectClaim(p)
      PROVE  IInv'
  BY <1>6, GrowStep, CollectStep
<1>7. CASE SetRedis
  BY <1>7, RedisStep
<1>8. CASE Restart
  BY <1>8, RestartStep
<1>9. CASE UNCHANGED vars
  BY <1>9 DEF vars, stores, caches, IInv, TypeOK, ClustersFit, CopiesFit, JobsFit, ClaimsSafe
<1> QED BY <1>1, <1>2, <1>3, <1>4, <1>5, <1>6, <1>7, <1>8, <1>9 DEF Next

LEMMA Inductive == Spec => []IInv
BY Initially, Step, PTL DEF Spec

-----------------------------------------------------------------------------
\* What each kind of step leaves as it is.
UserStep(c) ==
  \/ \E m \in ConfigMaps \cup {NoConfigMap}, s \in Submissions : CreateCluster(c, m, s)
  \/ \E v \in Flags : SwitchGCS(c, v)
  \/ EditCluster(c) \/ DeleteCluster(c) \/ FinishRedisCleanUp(c)

SecretStep == (\E n \in Namespaces : SyncSecret(n)) \/ SetRedis \/ SyncRedis

LEMMA UserFrame ==
  ASSUME NEW c \in Clusters, UserStep(c)
  PROVE  UNCHANGED <<claim, configMap, ccache, claimcache, queue, job>>
<1>1. ASSUME NEW m, NEW s, CreateCluster(c, m, s)
      PROVE  UNCHANGED <<claim, configMap, ccache, claimcache, queue, job>>
  BY <1>1 DEF CreateCluster, caches
<1>2. ASSUME NEW v, SwitchGCS(c, v)
      PROVE  UNCHANGED <<claim, configMap, ccache, claimcache, queue, job>>
  BY <1>2 DEF SwitchGCS, caches
<1>3. CASE EditCluster(c)
  BY <1>3 DEF EditCluster, caches
<1>4. CASE DeleteCluster(c)
  BY <1>4 DEF DeleteCluster, caches
<1>5. CASE FinishRedisCleanUp(c)
  BY <1>5 DEF FinishRedisCleanUp, caches
<1> QED BY <1>1, <1>2, <1>3, <1>4, <1>5 DEF UserStep

LEMMA SecretFrame ==
  ASSUME SecretStep
  PROVE  UNCHANGED <<cluster, claim, configMap, ccache, claimcache, queue, job>>
<1>1. ASSUME NEW n, SyncSecret(n)
      PROVE  UNCHANGED <<cluster, claim, configMap, ccache, claimcache, queue, job>>
  BY <1>1 DEF SyncSecret, stores
<1>2. CASE SetRedis
  BY <1>2 DEF SetRedis, caches
<1>3. CASE SyncRedis
  BY <1>3 DEF SyncRedis, stores
<1> QED BY <1>1, <1>2, <1>3 DEF SecretStep

LEMMA ClaimFrame ==
  ASSUME NEW p, GrowClaim(p) \/ CollectClaim(p) \/ SyncClaim(p)
  PROVE  /\ UNCHANGED <<cluster, configMap, ccache, queue, job>>
         /\ SyncClaim(p) => UNCHANGED claim
<1>1. CASE GrowClaim(p)
  <2>1. UNCHANGED <<cluster, configMap, ccache, queue, job>>
    BY <1>1 DEF GrowClaim, caches
  <2>2. SyncClaim(p) => UNCHANGED claim
    BY DEF SyncClaim, stores
  <2> QED BY <2>1, <2>2
<1>2. CASE SyncClaim(p)
  BY <1>2 DEF SyncClaim, stores
<1>3. CASE CollectClaim(p)
  <2>1. UNCHANGED <<cluster, configMap, ccache, queue, job>>
    BY <1>3 DEF CollectClaim, caches
  <2>2. SyncClaim(p) => UNCHANGED claim
    BY DEF SyncClaim, stores
  <2> QED BY <2>1, <2>2
<1> QED BY <1>1, <1>2, <1>3

LEMMA HandlerFrame ==
  ASSUME NEW c
  PROVE  /\ SyncCluster(c) => UNCHANGED <<cluster, claim, configMap>>
         /\ OnChanged(c) => UNCHANGED <<cluster, claim, configMap>>
         /\ CreatePVCFromAnnotation(c) => UNCHANGED <<cluster, configMap>>
         /\ AddFinalizer(c) \/ RemoveFinalizer(c) => UNCHANGED <<claim, configMap>>
         /\ OnDelete(c) => UNCHANGED <<cluster, claim>>
<1>1. SyncCluster(c) => UNCHANGED <<cluster, claim, configMap>>
  BY DEF SyncCluster, stores
<1>2. OnChanged(c) => UNCHANGED <<cluster, claim, configMap>>
  BY DEF OnChanged
<1>3. CreatePVCFromAnnotation(c) => UNCHANGED <<cluster, configMap>>
  BY DEF CreatePVCFromAnnotation
<1>4. AddFinalizer(c) => UNCHANGED <<claim, configMap>>
  BY DEF AddFinalizer
<1>5. RemoveFinalizer(c) => UNCHANGED <<claim, configMap>>
  BY DEF RemoveFinalizer
<1>6. OnDelete(c) => UNCHANGED <<cluster, claim>>
  BY DEF OnDelete
<1> QED BY <1>1, <1>2, <1>3, <1>4, <1>5, <1>6

LEMMA RestartFrame ==
  ASSUME Restart
  PROVE  UNCHANGED <<cluster, claim, configMap>>
BY DEF Restart

LEMMA StepKinds ==
  ASSUME Next
  PROVE  \/ SecretStep \/ Restart
         \/ \E c \in Clusters : UserStep(c)
         \/ \E c \in Clusters : SyncCluster(c) \/ OnChanged(c) \/ ClusterStep(c)
         \/ \E p \in Claims : GrowClaim(p) \/ CollectClaim(p) \/ SyncClaim(p)
BY DEF Next, SecretStep, UserStep

-----------------------------------------------------------------------------
\* The clusters, secrets and claims of OnChanged and OnDelete, their copies and the jobs
\* hold what TypeOK says.
THEOREM ClusterTypesHold == Spec => []TypeOK
<1>1. IInv => TypeOK
  BY DEF IInv
<1> QED BY <1>1, Inductive, PTL

\* What the mutator and the validator have let through they let through again, as it is:
\* no update of a finalizer is refused, and none restarts the pods.
THEOREM AdmittedAgain == Spec => []AdmittedUnchanged
<1>1. IInv => AdmittedUnchanged
  BY FitMeans DEF IInv, TypeOK, ClustersFit, AdmittedUnchanged
<1> QED BY <1>1, Inductive, PTL

\* Neither createPVCFromAnnotation, from whatever copy, nor a user makes a claim smaller
\* while it exists.
THEOREM ClaimsOnlyGrow == Spec => ClaimsNeverShrink
<1> DEFINE Grow == \A p \in Claims : claim'[p].exists => claim[p].size <= claim'[p].size
<1>1. IInv /\ [Next]_vars => [Grow]_vars
  <2> SUFFICES ASSUME IInv, Next PROVE Grow
    OBVIOUS
  <2>1. CASE UNCHANGED claim
    BY <2>1 DEF IInv, TypeOK, ClaimObject
  <2>2. ASSUME NEW c \in Clusters, CreatePVCFromAnnotation(c)
        PROVE  Grow
    BY <2>2, ClaimsStep
  <2>3. ASSUME NEW p \in Claims, GrowClaim(p)
        PROVE  Grow
    <3>1. claim[p].size <= claim'[p].size
      BY <2>3, GrowStep
    <3>2. \A q \in Claims : q # p => claim'[q] = claim[q]
      BY <2>3 DEF GrowClaim, IInv, TypeOK
    <3>3. \A q \in Claims : claim[q].size <= claim[q].size
      BY DEF IInv, TypeOK, ClaimObject
    <3> QED BY <3>1, <3>2, <3>3
  <2>4. ASSUME NEW p \in Claims, CollectClaim(p)
        PROVE  Grow
    <3>1. \A q \in Claims : claim[q].size <= claim[q].size
      BY DEF IInv, TypeOK, ClaimObject
    <3> QED BY <2>4, <3>1, CollectStep
  <2>5. UNCHANGED claim \/ (\E c \in Clusters : CreatePVCFromAnnotation(c))
        \/ (\E p \in Claims : GrowClaim(p) \/ CollectClaim(p))
    <3>1. ASSUME NEW c \in Clusters, SyncCluster(c) \/ OnChanged(c) \/ ClusterStep(c)
          PROVE  UNCHANGED claim \/ CreatePVCFromAnnotation(c)
      BY <3>1, HandlerFrame DEF ClusterStep
    <3>2. ASSUME NEW p \in Claims, GrowClaim(p) \/ CollectClaim(p) \/ SyncClaim(p)
          PROVE  UNCHANGED claim \/ GrowClaim(p) \/ CollectClaim(p)
      BY <3>2, ClaimFrame
    <3> QED BY <3>1, <3>2, StepKinds, UserFrame, SecretFrame, RestartFrame
  <2> QED BY <2>1, <2>2, <2>3, <2>4, <2>5
<1> QED BY <1>1, Inductive, PTL DEF Spec, ClaimsNeverShrink
-----------------------------------------------------------------------------
\* Config maps.  What a copy can still be after its cluster: an earlier one, whose
\* deletion and finished clean up the cluster has not gone back on.
Trails(copy, cur) ==
  /\ copy.rv <= cur.rv /\ (copy.rv = cur.rv => copy = cur)
  /\ (copy.rv = 0 => copy = NoCluster)
  /\ (copy.rv # 0 => copy.mounts = cur.mounts)
  /\ (copy.deleting => cur.deleting /\ (cur.redisFinalizer => copy.redisFinalizer))

\* What a write does to a cluster.
Moves(cur, new) ==
  \/ new = cur
  \/ /\ cur.rv < new.rv /\ (cur.rv # 0 => new.mounts = cur.mounts)
     /\ (cur.deleting => new.deleting /\ (new.redisFinalizer => cur.redisFinalizer))

Trailing ==
  \A c \in Clusters : /\ (cluster[c].rv = 0 => cluster[c] = NoCluster)
                      /\ Trails(ccache[c], cluster[c])
                      /\ (job[c].pc # "idle" => Trails(job[c].obj, cluster[c]))

ClustersMove == \A c \in Clusters : Moves(cluster[c], cluster'[c])

\* Where the copies of a step come from.
CopiesFollow ==
  \A c \in Clusters :
    /\ ccache'[c] = ccache[c] \/ ccache'[c] = cluster'[c]
    /\ job'[c].pc # "idle" => \/ job[c].pc # "idle" /\ job'[c].obj = job[c].obj
                              \/ job'[c].obj = ccache[c]

LEMMA TrailsOn ==
  ASSUME NEW copy \in ClusterObject, NEW cur \in ClusterObject, NEW new \in ClusterObject,
         Trails(copy, cur), Moves(cur, new)
  PROVE  Trails(copy, new)
<1>1. copy.rv \in Nat /\ cur.rv \in Nat /\ new.rv \in Nat
  BY DEF ClusterObject
<1>2. CASE new = cur
  BY <1>2
<1>3. CASE new # cur
  <2>1. copy.rv < new.rv /\ (copy.rv # 0 => cur.rv # 0)
    BY <1>1, <1>3 DEF Trails, Moves
  <2> QED BY <1>1, <1>3, <2>1 DEF Trails, Moves
<1> QED BY <1>2, <1>3

LEMMA TrailsItself ==
  ASSUME NEW cur \in ClusterObject, cur.rv = 0 => cur = NoCluster
  PROVE  Trails(cur, cur)
BY DEF Trails, ClusterObject

LEMMA TrailingKept ==
  ASSUME IInv, IInv', Trailing, ClustersMove, CopiesFollow
  PROVE  Trailing'
<1> SUFFICES ASSUME NEW c \in Clusters
             PROVE  /\ (cluster'[c].rv = 0 => cluster'[c] = NoCluster)
                    /\ Trails(ccache'[c], cluster'[c])
                    /\ (job'[c].pc # "idle" => Trails(job'[c].obj, cluster'[c]))
  BY DEF Trailing
<1>1. /\ cluster[c] \in ClusterObject /\ cluster'[c] \in ClusterObject
      /\ ccache[c] \in ClusterObject /\ job[c].obj \in ClusterObject
  BY DEF IInv, TypeOK, Job
<1>2. cluster'[c].rv = 0 => cluster'[c] = NoCluster
  BY <1>1 DEF Trailing, ClustersMove, Moves, ClusterObject
<1>3. Trails(cluster'[c], cluster'[c])
  BY <1>1, <1>2, TrailsItself
<1>4. Trails(ccache[c], cluster'[c])
  BY <1>1, TrailsOn DEF Trailing, ClustersMove
<1>5. job[c].pc # "idle" => Trails(job[c].obj, cluster'[c])
  BY <1>1, TrailsOn DEF Trailing, ClustersMove
<1> QED BY <1>2, <1>3, <1>4, <1>5 DEF CopiesFollow

\* Writes.
LEMMA ChangedMoves ==
  ASSUME NEW cur \in ClusterObject, NEW new \in ClusterObject,
         cur.rv # 0 => new.mounts = cur.mounts,
         cur.deleting => new.deleting /\ (new.redisFinalizer => cur.redisFinalizer)
  PROVE  Moves(cur, Changed(cur, new)) /\ Moves(cur, Left(Changed(cur, new)))
<1>1. cur.rv \in Nat /\ cur.rv + 1 \in Nat
  BY DEF ClusterObject
<1>2. \A n \in Nat : LET k == [new EXCEPT !.rv = n]
                     IN /\ k \in ClusterObject /\ k.rv = n /\ k.mounts = new.mounts
                        /\ k.deleting = new.deleting /\ k.redisFinalizer = new.redisFinalizer
  BY DEF ClusterObject
<1> DEFINE made == Changed(cur, new)
<1>3. /\ made \in ClusterObject /\ made.rv = cur.rv + 1 /\ made.mounts = new.mounts
      /\ made.deleting = new.deleting /\ made.redisFinalizer = new.redisFinalizer
  BY <1>1, <1>2 DEF Changed
<1> HIDE DEF made
<1>4. Moves(cur, made)
  BY <1>1, <1>3 DEF Moves
<1> DEFINE gone == [made EXCEPT !.exists = FALSE, !.rv = made.rv + 1]
<1>5. /\ gone.rv = made.rv + 1 /\ gone.mounts = made.mounts /\ gone.deleting = made.deleting
      /\ gone.redisFinalizer = made.redisFinalizer
  BY <1>3 DEF ClusterObject
<1>6. Left(made) = made \/ Left(made) = gone
  BY DEF Left, Removed
<1> HIDE DEF gone
<1>7. Moves(cur, Left(made))
  BY <1>1, <1>3, <1>4, <1>5, <1>6 DEF Moves
<1> QED BY <1>4, <1>7 DEF made

LEMMA OneMoves ==
  ASSUME IInv, NEW c \in Clusters, NEW new, Moves(cluster[c], new),
         cluster' = [cluster EXCEPT ![c] = new]
  PROVE  ClustersMove
BY DEF ClustersMove, Moves, IInv, TypeOK

LEMMA AdmittedFields ==
  ASSUME NEW new \in ClusterObject, new.spec \in ClusterSpecs
  PROVE  /\ AsAdmitted(new) \in ClusterObject /\ AsAdmitted(new).mounts = new.mounts
         /\ AsAdmitted(new).deleting = new.deleting
         /\ AsAdmitted(new).redisFinalizer = new.redisFinalizer
<1>1. PICK spec \in ClusterSpecs : spec = AdmittedSpec(new.spec, IsOwnedByRayService(new))
  BY SpecAdmitted DEF IsOwnedByRayService
<1>2. AsAdmitted(new) = [new EXCEPT !.spec = spec]
  BY <1>1 DEF AsAdmitted
<1> QED BY <1>2 DEF ClusterObject

LEMMA FlagsSet ==
  ASSUME NEW obj \in ClusterObject, NEW f \in BOOLEAN
  PROVE  /\ LET new == [obj EXCEPT !.redisFinalizer = f]
            IN new \in ClusterObject /\ new.spec = obj.spec /\ new.mounts = obj.mounts
               /\ new.deleting = obj.deleting /\ new.redisFinalizer = f
         /\ LET new == [obj EXCEPT !.finalizer = f]
            IN new \in ClusterObject /\ new.spec = obj.spec /\ new.mounts = obj.mounts
               /\ new.deleting = obj.deleting /\ new.redisFinalizer = obj.redisFinalizer
         /\ LET new == [obj EXCEPT !.deleting = TRUE]
            IN new \in ClusterObject /\ new.spec = obj.spec /\ new.mounts = obj.mounts
               /\ new.deleting /\ new.redisFinalizer = obj.redisFinalizer
         /\ \A n \in Nat : LET new == [obj EXCEPT !.size = n]
            IN new \in ClusterObject /\ new.spec = obj.spec /\ new.mounts = obj.mounts
               /\ new.deleting = obj.deleting /\ new.redisFinalizer = obj.redisFinalizer
BY DEF ClusterObject

LEMMA UsersMove ==
  ASSUME IInv, Trailing, NEW c \in Clusters,
         \/ \E m \in ConfigMaps \cup {NoConfigMap}, s \in Submissions : CreateCluster(c, m, s)
         \/ \E v \in Flags : SwitchGCS(c, v)
         \/ EditCluster(c) \/ DeleteCluster(c) \/ FinishRedisCleanUp(c)
  PROVE  ClustersMove
<1>1. PICK obj \in ClusterObject : obj = cluster[c] /\ (obj.exists => obj.spec \in ClusterSpecs)
  BY DEF IInv, TypeOK, ClustersFit, Fit
<1>2. ASSUME NEW m \in ConfigMaps \cup {NoConfigMap}, NEW s \in Submissions,
             CreateCluster(c, m, s)
      PROVE  ClustersMove
  <2> DEFINE new == [NoCluster EXCEPT !.exists = TRUE, !.size = 1, !.mounts = m]
             made == AdmittedSpec(s, IsOwnedByRayService(new))
             last == [new EXCEPT !.spec = made, !.redisFinalizer = made.ft]
  <2>1. cluster' = [cluster EXCEPT ![c] = Changed(cluster[c], last)] /\ obj.rv = 0
    BY <1>1, <1>2 DEF CreateCluster
  <2>2. made \in ClusterSpecs
    BY SubmissionsAssumption, SpecAdmitted DEF IsOwnedByRayService
  <2>3. made.ft \in BOOLEAN
    BY <2>2 DEF ClusterSpecs
  <2>4. new \in ClusterObject
    BY DEF NoCluster, ClusterObject
  <2> HIDE DEF made, new
  <2>5. last \in ClusterObject
    BY <2>2, <2>3, <2>4 DEF ClusterObject
  <2> HIDE DEF last
  <2>6. ~obj.deleting
    BY <1>1, <2>1 DEF Trailing, NoCluster
  <2>7. Moves(cluster[c], Changed(cluster[c], last))
    BY <1>1, <2>1, <2>5, <2>6, ChangedMoves
  <2> QED BY <2>1, <2>7, OneMoves
<1>3. ASSUME NEW v \in Flags, SwitchGCS(c, v)
      PROVE  ClustersMove
  <2>1. PICK spec \in ClusterSpecs : spec = obj.spec
    BY <1>1, <1>3 DEF SwitchGCS
  <2> DEFINE switched == [spec EXCEPT !.gcs = v]
             new  == [obj EXCEPT !.spec = switched]
             made == AsAdmitted(new)
             last == [made EXCEPT !.redisFinalizer = made.redisFinalizer \/ made.spec.ft]
  <2>2. switched \in ClusterSpecs
    BY DEF ClusterSpecs
  <2>3. new = [cluster[c] EXCEPT !.spec.gcs = v]
    BY <1>1, <2>1
  <2>4. cluster' = [cluster EXCEPT ![c] = Changed(cluster[c], last)] /\ ~obj.deleting
    BY <1>1, <1>3, <2>3 DEF SwitchGCS
  <2> HIDE DEF switched
  <2>5. new \in ClusterObject /\ new.spec = switched /\ new.mounts = obj.mounts
    BY <2>2, SpecReplaced
  <2> HIDE DEF new
  <2>6. made \in ClusterObject /\ made.mounts = obj.mounts /\ made.spec \in ClusterSpecs
    <3>1. made \in ClusterObject /\ made.mounts = obj.mounts
      BY <2>2, <2>5, AdmittedFields
    <3>2. PICK full \in ClusterSpecs : full = AdmittedSpec(new.spec, IsOwnedByRayService(new))
      BY <2>2, <2>5, SpecAdmitted DEF IsOwnedByRayService
    <3>3. made = [new EXCEPT !.spec = full]
      BY <3>2 DEF AsAdmitted
    <3>4. made.spec = full
      BY <2>5, <3>3 DEF ClusterObject
    <3> QED BY <3>1, <3>4
  <2> HIDE DEF made
  <2>7. PICK f \in BOOLEAN : f = (made.redisFinalizer \/ made.spec.ft)
    BY <2>6 DEF ClusterSpecs, ClusterObject
  <2>8. last = [made EXCEPT !.redisFinalizer = f]
    BY <2>7
  <2> HIDE DEF last
  <2>9. last \in ClusterObject /\ last.mounts = obj.mounts
    BY <2>6, <2>8 DEF ClusterObject
  <2>10. Moves(cluster[c], Changed(cluster[c], last))
    BY <1>1, <2>4, <2>9, ChangedMoves
  <2> QED BY <2>4, <2>10, OneMoves
<1>4. CASE EditCluster(c)
  <2>1. obj.size + 1 \in Nat
    BY DEF ClusterObject
  <2> DEFINE new == [obj EXCEPT !.size = obj.size + 1]
  <2>2. /\ obj.exists
        /\ cluster' = [cluster EXCEPT ![c] = Changed(cluster[c], AsAdmitted(new))]
    BY <1>1, <1>4 DEF EditCluster
  <2>3. /\ new \in ClusterObject /\ new.spec = obj.spec /\ new.mounts = obj.mounts
        /\ new.deleting = obj.deleting /\ new.redisFinalizer = obj.redisFinalizer
    BY <2>1 DEF ClusterObject
  <2> HIDE DEF new
  <2>4. /\ AsAdmitted(new) \in ClusterObject /\ AsAdmitted(new).mounts = obj.mounts
        /\ AsAdmitted(new).deleting = obj.deleting
        /\ AsAdmitted(new).redisFinalizer = obj.redisFinalizer
    BY <1>1, <2>2, <2>3, AdmittedFields
  <2>5. Moves(cluster[c], Changed(cluster[c], AsAdmitted(new)))
    BY <1>1, <2>4, ChangedMoves
  <2> QED BY <2>2, <2>5, OneMoves
<1>5. CASE DeleteCluster(c)
  <2> DEFINE new == [obj EXCEPT !.deleting = TRUE]
  <2>1. cluster' = [cluster EXCEPT ![c] = Left(Changed(cluster[c], new))] /\ ~obj.deleting
    BY <1>1, <1>5 DEF DeleteCluster
  <2>2. /\ new \in ClusterObject /\ new.mounts = obj.mounts
    BY FlagsSet
  <2> HIDE DEF new
  <2>3. Moves(cluster[c], Left(Changed(cluster[c], new)))
    BY <1>1, <2>1, <2>2, ChangedMoves
  <2> QED BY <2>1, <2>3, OneMoves
<1>6. CASE FinishRedisCleanUp(c)
  <2> DEFINE new == [obj EXCEPT !.redisFinalizer = FALSE]
  <2>1. /\ obj.exists
        /\ cluster' = [cluster EXCEPT ![c] = Left(Changed(cluster[c], AsAdmitted(new)))]
    BY <1>1, <1>6 DEF FinishRedisCleanUp
  <2>2. /\ new \in ClusterObject /\ new.spec = obj.spec /\ new.mounts = obj.mounts
        /\ new.deleting = obj.deleting /\ ~new.redisFinalizer
    BY FlagsSet
  <2> HIDE DEF new
  <2>3. /\ AsAdmitted(new) \in ClusterObject /\ AsAdmitted(new).mounts = obj.mounts
        /\ AsAdmitted(new).deleting = obj.deleting /\ ~AsAdmitted(new).redisFinalizer
    BY <1>1, <2>1, <2>2, AdmittedFields
  <2>4. Moves(cluster[c], Left(Changed(cluster[c], AsAdmitted(new))))
    BY <1>1, <2>3, ChangedMoves
  <2> QED BY <2>1, <2>4, OneMoves
<1> QED BY <1>2, <1>3, <1>4, <1>5, <1>6

\* An accepted submission of a job has the stored cluster as its copy.
LEMMA SubmissionMoves ==
  ASSUME IInv, Trailing, NEW c \in Clusters, job[c].pc # "idle", NEW f \in BOOLEAN,
         SubmitCluster(c, [job[c].obj EXCEPT !.finalizer = f])
  PROVE  ClustersMove
<1>1. PICK obj \in ClusterObject : obj = job[c].obj /\ obj.spec \in ClusterSpecs
  BY DEF IInv, TypeOK, Job, JobsFit
<1> DEFINE new == [obj EXCEPT !.finalizer = f]
           made == Left(Changed(cluster[c], AsAdmitted(new)))
           possible == Accepts(cluster[c], obj) /\ Admitted(cluster[c], new)
<1>2. PICK ok \in BOOLEAN, kept \in {cluster[c], made} :
        /\ Call(cluster[c], made, possible, kept, ok)
        /\ cluster' = [cluster EXCEPT ![c] = kept]
  BY <1>1 DEF SubmitCluster
<1>3. kept = cluster[c] \/ (kept = made /\ obj = cluster[c])
  <2>1. Accepts(cluster[c], obj) => obj = cluster[c]
    BY <1>1 DEF Accepts, Trailing, Trails
  <2> QED BY <1>2, <2>1 DEF Call
<1>4. /\ new \in ClusterObject /\ new.spec = obj.spec /\ new.mounts = obj.mounts
      /\ new.deleting = obj.deleting /\ new.redisFinalizer = obj.redisFinalizer
  BY DEF ClusterObject
<1> HIDE DEF new
<1>5. /\ AsAdmitted(new) \in ClusterObject /\ AsAdmitted(new).mounts = obj.mounts
      /\ AsAdmitted(new).deleting = obj.deleting
      /\ AsAdmitted(new).redisFinalizer = obj.redisFinalizer
  BY <1>1, <1>4, AdmittedFields
<1>6. obj = cluster[c] => Moves(cluster[c], made)
  BY <1>1, <1>5, ChangedMoves
<1>7. Moves(cluster[c], kept)
  BY <1>3, <1>6 DEF Moves
<1> QED BY <1>2, <1>7, OneMoves

LEMMA StepMoves ==
  ASSUME IInv, Trailing, Next
  PROVE  ClustersMove
<1>1. CASE UNCHANGED cluster
  BY <1>1 DEF ClustersMove, Moves
<1>2. ASSUME NEW c \in Clusters, AddFinalizer(c) \/ RemoveFinalizer(c), ~UNCHANGED cluster
      PROVE  ClustersMove
  <2>1. /\ job[c].pc # "idle"
        /\ \/ SubmitCluster(c, [job[c].obj EXCEPT !.finalizer = TRUE])
           \/ SubmitCluster(c, [job[c].obj EXCEPT !.finalizer = FALSE])
    BY <1>2 DEF AddFinalizer, RemoveFinalizer
  <2> QED BY <2>1, SubmissionMoves
<1>3. \/ UNCHANGED cluster
      \/ \E c \in Clusters : AddFinalizer(c) \/ RemoveFinalizer(c)
      \/ \E c \in Clusters : UserStep(c)
  <2>1. ASSUME NEW c \in Clusters, SyncCluster(c) \/ OnChanged(c) \/ ClusterStep(c)
        PROVE  UNCHANGED cluster \/ AddFinalizer(c) \/ RemoveFinalizer(c)
    BY <2>1, HandlerFrame DEF ClusterStep
  <2>2. ASSUME NEW p \in Claims, GrowClaim(p) \/ CollectClaim(p) \/ SyncClaim(p)
        PROVE  UNCHANGED cluster
    BY <2>2, ClaimFrame
  <2> QED BY <2>1, <2>2, StepKinds, SecretFrame, RestartFrame
<1>4. ASSUME NEW c \in Clusters, UserStep(c)
      PROVE  ClustersMove
  BY <1>4, UsersMove DEF UserStep
<1> QED BY <1>1, <1>2, <1>3, <1>4

LEMMA StepCopies ==
  ASSUME IInv, Next
  PROVE  CopiesFollow
<1>1. CASE UNCHANGED <<ccache, job>>
  BY <1>1 DEF CopiesFollow
<1>2. ASSUME NEW c \in Clusters, SyncCluster(c)
      PROVE  CopiesFollow
  <2>1. \A d \in Clusters : ccache'[d] = IF d = c THEN cluster'[c] ELSE ccache[d]
    BY <1>2 DEF SyncCluster, stores, IInv, TypeOK
  <2> QED BY <1>2, <2>1 DEF SyncCluster, CopiesFollow
<1>3. ASSUME NEW c \in Clusters, UNCHANGED ccache, NEW new,
             job' = [job EXCEPT ![c] = new],
             new.pc # "idle" => \/ job[c].pc # "idle" /\ new.obj = job[c].obj
                                \/ new.obj = ccache[c]
      PROVE  CopiesFollow
  <2>1. \A d \in Clusters : job'[d] = IF d = c THEN new ELSE job[d]
    BY <1>3 DEF IInv, TypeOK
  <2> QED BY <1>3, <2>1 DEF CopiesFollow
<1>4. ASSUME NEW c \in Clusters, OnChanged(c)
      PROVE  CopiesFollow
  <2>1. PICK obj \in ClusterObject : obj = ccache[c]
    BY DEF IInv, TypeOK
  <2>2. /\ UNCHANGED ccache
        /\ \/ UNCHANGED job
           \/ \E pc \in {"claims", "lifecycle"} :
                job' = [job EXCEPT ![c] = [Idle EXCEPT !.pc = pc, !.obj = obj]]
    BY <1>4, <2>1 DEF OnChanged, caches
  <2> QED BY <1>1, <1>3, <2>1, <2>2, BegunTypes
<1>5. ASSUME NEW c \in Clusters, job[c].pc # "idle", NEW failed, End(c, failed),
             UNCHANGED ccache
      PROVE  CopiesFollow
  BY <1>3, <1>5, ClusterRecords DEF End
<1>6. ASSUME NEW c \in Clusters, job[c].pc # "idle", UNCHANGED ccache,
             NEW pc \in {"claims", "lifecycle", "remove"}, job' = [job EXCEPT ![c].pc = pc]
      PROVE  CopiesFollow
  <2>1. PICK j \in Job : j = job[c]
    BY DEF IInv, TypeOK
  <2>2. [j EXCEPT !.pc = pc].obj = j.obj
    BY DEF Job
  <2>3. job' = [job EXCEPT ![c] = [j EXCEPT !.pc = pc]]
    BY <1>6, <2>1
  <2> QED BY <1>3, <1>6, <2>1, <2>2, <2>3
<1>7. ASSUME NEW c \in Clusters, CreatePVCFromAnnotation(c)
      PROVE  CopiesFollow
  <2>1. /\ job[c].pc # "idle" /\ UNCHANGED ccache
        /\ \/ job' = [job EXCEPT ![c].pc = "lifecycle"]
           \/ \E ok \in BOOLEAN : job' = [job EXCEPT ![c] = NextClaim(c, ok)]
    BY <1>7 DEF CreatePVCFromAnnotation, caches
  <2>2. PICK j \in Job : j = job[c] /\ j.next + 1 \in Nat
    BY DEF IInv, TypeOK, Job
  <2>3. ASSUME NEW ok \in BOOLEAN
        PROVE  NextClaim(c, ok).obj = job[c].obj
    <3>1. LET k == [j EXCEPT !.pc = "lifecycle", !.failed = TRUE] IN k.obj = j.obj
      BY JobMoves
    <3>2. [j EXCEPT !.next = j.next + 1].obj = j.obj
      BY <2>2, NextClaimTypes
    <3> QED BY <2>2, <3>1, <3>2 DEF NextClaim
  <2> QED BY <1>3, <1>6, <2>1, <2>3
<1>8. ASSUME NEW c \in Clusters, AddFinalizer(c) \/ RemoveFinalizer(c)
      PROVE  CopiesFollow
  <2>1. /\ job[c].pc # "idle" /\ UNCHANGED ccache
        /\ \E failed \in BOOLEAN : End(c, failed) \/ End(c, job[c].failed \/ failed)
    BY <1>8 DEF AddFinalizer, RemoveFinalizer, SubmitCluster, caches, IInv, TypeOK, Job
  <2> QED BY <1>5, <2>1
<1>9. ASSUME NEW c \in Clusters, OnDelete(c)
      PROVE  CopiesFollow
  <2>1. /\ job[c].pc # "idle" /\ UNCHANGED ccache
        /\ \/ End(c, job[c].failed) \/ End(c, TRUE)
           \/ job' = [job EXCEPT ![c].pc = "remove"]
    BY <1>9 DEF OnDelete, caches
  <2> QED BY <1>5, <1>6, <2>1
<1>10. CASE Restart
  BY <1>10, ClusterRecords DEF Restart, CopiesFollow, IInv, TypeOK
<1>11. \/ UNCHANGED <<ccache, job>> \/ Restart
       \/ \E c \in Clusters : \/ SyncCluster(c) \/ OnChanged(c) \/ ClusterStep(c)
  <2>1. ASSUME NEW p \in Claims, GrowClaim(p) \/ CollectClaim(p) \/ SyncClaim(p)
        PROVE  UNCHANGED <<ccache, job>>
    BY <2>1, ClaimFrame
  <2> QED BY <2>1, StepKinds, UserFrame, SecretFrame
<1> QED BY <1>1, <1>2, <1>4, <1>7, <1>8, <1>9, <1>10, <1>11 DEF ClusterStep

LEMMA TrailingAlways == Spec => []Trailing
<1>1. Init => Trailing
  <2> SUFFICES ASSUME Init PROVE Trailing
    OBVIOUS
  <2>1. Trails(NoCluster, NoCluster)
    BY ClusterRecords, TrailsItself
  <2> QED BY <2>1, ClusterRecords DEF Init, Trailing
<1>2. IInv /\ IInv' /\ Trailing /\ [Next]_vars => Trailing'
  <2> SUFFICES ASSUME IInv, IInv', Trailing, [Next]_vars PROVE Trailing'
    OBVIOUS
  <2>1. CASE Next
    BY <2>1, StepMoves, StepCopies, TrailingKept
  <2>2. CASE UNCHANGED vars
    BY <2>2 DEF vars, stores, caches, Trailing
  <2> QED BY <2>1, <2>2
<1> QED BY <1>1, <1>2, Inductive, PTL DEF Spec

\* No two clusters, also of those that are gone, have the annotation of the same version.
NotShared ==
  \A c, d \in Clusters :
    (cluster[c].mounts # NoConfigMap /\ cluster[c].mounts = cluster[d].mounts) => c = d

\* While no two clusters serve the same version, OnDelete takes no config map from a
\* cluster whose redis clean up has not finished, from however old a copy it is called.
THEOREM ConfigMapKept == Spec /\ []NotShared => JobKeepsConfigMap
<1> DEFINE Kept == \A c \in Clusters :
                     (cluster[c].mounts \in configMap \ configMap' /\ cluster[c].exists)
                       => ~cluster[c].redisFinalizer
<1>1. IInv /\ Trailing /\ NotShared /\ [Next]_vars => [Kept]_vars
  <2> SUFFICES ASSUME IInv, Trailing, NotShared, Next PROVE Kept
    OBVIOUS
  <2>1. CASE UNCHANGED configMap
    BY <2>1
  <2>2. ASSUME NEW c \in Clusters, OnDelete(c), ~UNCHANGED configMap
        PROVE  Kept
    <3>1. PICK obj \in ClusterObject : obj = job[c].obj /\ Trails(obj, cluster[c])
      BY <2>2 DEF OnDelete, IInv, TypeOK, Job, Trailing
    <3>2. /\ obj.deleting /\ obj.mounts # NoConfigMap /\ ~obj.redisFinalizer
          /\ configMap' = configMap \ {obj.mounts}
      BY <2>2, <3>1 DEF OnDelete, Call, Waits
    <3>3. cluster[c].mounts = obj.mounts /\ ~cluster[c].redisFinalizer
      BY <3>1, <3>2 DEF Trails, NoCluster
    <3> QED BY <3>2, <3>3 DEF NotShared
  <2>3. UNCHANGED configMap \/ \E c \in Clusters : OnDelete(c)
    <3>1. ASSUME NEW c \in Clusters, SyncCluster(c) \/ OnChanged(c) \/ ClusterStep(c)
          PROVE  UNCHANGED configMap \/ OnDelete(c)
      BY <3>1, HandlerFrame DEF ClusterStep
    <3>2. ASSUME NEW p \in Claims, GrowClaim(p) \/ CollectClaim(p) \/ SyncClaim(p)
          PROVE  UNCHANGED configMap
      BY <3>2, ClaimFrame
    <3> QED BY <3>1, <3>2, StepKinds, UserFrame, SecretFrame, RestartFrame
  <2> QED BY <2>1, <2>2, <2>3
<1> QED BY <1>1, Inductive, TrailingAlways, PTL DEF Spec, JobKeepsConfigMap

-----------------------------------------------------------------------------
\* At rest.  A key that is neither queued nor held has its claims, since a job that ends
\* without an error has made those of its object, and that is the cached cluster unless
\* the key is queued again.

\* A claim is there, of that size or larger, or it may have been removed with a cluster
\* that named it, one of lost.
Kept(made, lost, p, size) == p \in lost \/ (made[p].exists /\ size <= made[p].size)

\* The first k - 1 claims of a cluster are there.
ClaimsMade(made, lost, c, k, size) ==
  \A i \in DOMAIN ClaimsOf[c] : i < k => Kept(made, lost, ClaimsOf[c][i], size)

AllMade(made, lost, c, size) == ClaimsMade(made, lost, c, Len(ClaimsOf[c]) + 1, size)

\* When nothing is queued or running and every cluster is in the cache, a cluster that is
\* not deleted has its claims, except those that a removed cluster named too.
ClaimsAtRest ==
  (queue = {} /\ ccache = cluster /\ \A c \in Clusters : job[c].pc = "idle") =>
    \A c \in Clusters : (cluster[c].exists /\ ~cluster[c].deleting) =>
      \A i \in DOMAIN ClaimsOf[c] :
        LET p == ClaimsOf[c][i]
        IN p \in NamedByGone \/ (claim[p].exists /\ cluster[c].size <= claim[p].size)

Made(c) ==
  /\ job[c].next # 0
  /\ job[c].pc # "idle" => c \in queue \/ job[c].obj = ccache[c]
  /\ job[c].pc = "claims" => /\ ~job[c].failed /\ ~job[c].obj.deleting
                             /\ ClaimsMade(claim, NamedByGone, c, job[c].next, job[c].obj.size)
  /\ (job[c].pc = "lifecycle" /\ ~job[c].obj.deleting /\ ~job[c].failed) =>
       AllMade(claim, NamedByGone, c, job[c].obj.size)
  /\ job[c].pc = "remove" => job[c].obj.deleting
  /\ (job[c].pc = "idle" /\ c \notin queue /\ ccache[c].exists /\ ~ccache[c].deleting) =>
       AllMade(claim, NamedByGone, c, ccache[c].size)

\* A cached claim is not larger than the claim.
CachedClaims == \A p \in Claims : claimcache[p].exists =>
                  Kept(claim, NamedByGone, p, claimcache[p].size)

\* Who made a claim names it.
ClaimsOwned ==
  \A p \in Claims : \A c \in claim[p].owners : \E i \in DOMAIN ClaimsOf[c] : p = ClaimsOf[c][i]

MInv == (\A c \in Clusters : Made(c)) /\ CachedClaims /\ ClaimsOwned

\* No claim that a step removes or replaces by a smaller one is anybody else's.
ClaimsGrow ==
  /\ NamedByGone \subseteq NamedByGone'
  /\ \A p \in Claims : claim[p].exists => Kept(claim', NamedByGone', p, claim[p].size)

LEMMA GoneKept ==
  ASSUME IInv, NEW c \in Clusters, NEW new, cluster' = [cluster EXCEPT ![c] = new],
         c \in Gone => new = cluster[c]
  PROVE  Gone \subseteq Gone'
BY DEF Gone, IInv, TypeOK

\* A name is used once.
LEMMA GoneStay ==
  ASSUME IInv, Next
  PROVE  NamedByGone \subseteq NamedByGone'
<1>1. Gone \subseteq Gone'
  <2>1. CASE UNCHANGED cluster
    BY <2>1 DEF Gone
  <2>2. ASSUME NEW c \in Clusters, UserStep(c)
        PROVE  Gone \subseteq Gone'
    <3>1. PICK new : cluster' = [cluster EXCEPT ![c] = new]
      BY <2>2 DEF UserStep, CreateCluster, SwitchGCS, EditCluster, DeleteCluster,
                  FinishRedisCleanUp
    <3>2. c \notin Gone
      BY <2>2 DEF UserStep, CreateCluster, SwitchGCS, EditCluster, DeleteCluster,
                  FinishRedisCleanUp, Gone
    <3> QED BY <3>1, <3>2, GoneKept
  <2>3. ASSUME NEW c \in Clusters, AddFinalizer(c) \/ RemoveFinalizer(c), ~UNCHANGED cluster
        PROVE  Gone \subseteq Gone'
    <3>1. \E f \in BOOLEAN : SubmitCluster(c, [job[c].obj EXCEPT !.finalizer = f])
      BY <2>3 DEF AddFinalizer, RemoveFinalizer
    <3>2. PICK new : /\ cluster' = [cluster EXCEPT ![c] = new]
                     /\ new = cluster[c] \/ cluster[c].exists
      BY <3>1 DEF SubmitCluster, Call, Accepts
    <3> QED BY <3>2, GoneKept DEF Gone
  <2>4. ASSUME NEW c \in Clusters, SyncCluster(c) \/ OnChanged(c) \/ ClusterStep(c)
        PROVE  UNCHANGED cluster \/ AddFinalizer(c) \/ RemoveFinalizer(c)
    BY <2>4, HandlerFrame DEF ClusterStep
  <2>5. ASSUME NEW p \in Claims, GrowClaim(p) \/ CollectClaim(p) \/ SyncClaim(p)
        PROVE  UNCHANGED cluster
    BY <2>5, ClaimFrame
  <2> QED BY <2>1, <2>2, <2>3, <2>4, <2>5, StepKinds, SecretFrame, RestartFrame
<1> QED BY <1>1 DEF NamedByGone

LEMMA ClaimNames ==
  ASSUME NEW c \in Clusters
  PROVE  /\ Len(ClaimsOf[c]) \in Nat /\ DOMAIN ClaimsOf[c] = 1..Len(ClaimsOf[c])
         /\ \A i \in DOMAIN ClaimsOf[c] : ClaimsOf[c][i] \in Claims
BY ClaimsAssumption

LEMMA ClaimsStayMade ==
  ASSUME IInv, IInv', ClaimsGrow, NEW c \in Clusters, NEW k \in Nat, NEW size \in Nat,
         ClaimsMade(claim, NamedByGone, c, k, size)
  PROVE  ClaimsMade(claim', NamedByGone', c, k, size)
<1> SUFFICES ASSUME NEW i \in DOMAIN ClaimsOf[c], i < k
             PROVE  Kept(claim', NamedByGone', ClaimsOf[c][i], size)
  BY DEF ClaimsMade
<1> DEFINE p == ClaimsOf[c][i]
<1>1. p \in Claims
  BY ClaimNames
<1>2. claim[p].size \in Nat /\ claim'[p].size \in Nat
  BY <1>1 DEF IInv, TypeOK, ClaimObject
<1>3. Kept(claim, NamedByGone, p, size)
  BY DEF ClaimsMade
<1> HIDE DEF p
<1>4. Kept(claim', NamedByGone', p, size)
  BY <1>1, <1>2, <1>3 DEF ClaimsGrow, Kept
<1> QED BY <1>4 DEF p

LEMMA UnchangedClaims ==
  ASSUME IInv, MInv, UNCHANGED claim, NamedByGone \subseteq NamedByGone'
  PROVE  ClaimsGrow /\ ClaimsOwned' /\ (UNCHANGED claimcache => CachedClaims')
<1>1. \A p \in Claims : claim[p].size \in Nat
  BY DEF IInv, TypeOK, ClaimObject
<1>2. ClaimsGrow
  BY <1>1 DEF ClaimsGrow, Kept
<1>3. ClaimsOwned'
  BY DEF MInv, ClaimsOwned
<1> QED BY <1>2, <1>3 DEF MInv, CachedClaims, Kept

LEMMA JobValues ==
  ASSUME IInv, NEW c \in Clusters
  PROVE  /\ job[c] \in Job /\ job[c].next \in Nat /\ job[c].obj \in ClusterObject
         /\ job[c].obj.size \in Nat /\ ccache[c] \in ClusterObject /\ ccache[c].size \in Nat
         /\ job[c].failed \in BOOLEAN
BY DEF IInv, TypeOK, Job, ClusterObject

\* A step that leaves the job and the copy of a cluster, and its key if it is queued.
LEMMA MadeKept ==
  ASSUME IInv, IInv', MInv, ClaimsGrow, NEW c \in Clusters,
         job'[c] = job[c], ccache'[c] = ccache[c], c \in queue => c \in queue'
  PROVE  Made(c)'
<1>1. Len(ClaimsOf[c]) + 1 \in Nat
  BY ClaimNames
<1>2. job[c].next \in Nat /\ job[c].obj.size \in Nat /\ ccache[c].size \in Nat
  BY JobValues
<1>3. Made(c)
  BY DEF MInv
<1>4. /\ ClaimsMade(claim, NamedByGone, c, job[c].next, job[c].obj.size) =>
           ClaimsMade(claim', NamedByGone', c, job'[c].next, job'[c].obj.size)
      /\ AllMade(claim, NamedByGone, c, job[c].obj.size) =>
           AllMade(claim', NamedByGone', c, job'[c].obj.size)
      /\ AllMade(claim, NamedByGone, c, ccache[c].size) =>
           AllMade(claim', NamedByGone', c, ccache'[c].size)
  BY <1>1, <1>2, ClaimsStayMade DEF AllMade
<1> QED BY <1>3, <1>4 DEF Made

\* A job that ends, without an error only when it has made the claims.
LEMMA EndMade ==
  ASSUME IInv, IInv', MInv, NEW c \in Clusters, NEW failed, End(c, failed),
         ~failed => ~job[c].failed,
         \/ job[c].pc = "lifecycle"
         \/ job[c].pc # "idle" /\ job[c].obj.deleting,
         UNCHANGED ccache, ClaimsGrow
  PROVE  Made(c)'
<1>1. job'[c] = Idle /\ (failed => c \in queue') /\ (c \in queue => c \in queue')
  BY DEF End, IInv, TypeOK
<1>2. Made(c)
  BY DEF MInv
<1>3. ASSUME c \notin queue', ~ccache[c].deleting
      PROVE  AllMade(claim', NamedByGone', c, ccache[c].size)
  <2>1. ~failed /\ job[c].obj = ccache[c] /\ job[c].pc = "lifecycle"
    BY <1>1, <1>2, <1>3 DEF Made
  <2>2. AllMade(claim, NamedByGone, c, ccache[c].size)
    BY <1>2, <1>3, <2>1 DEF Made
  <2>3. ccache[c].size \in Nat /\ Len(ClaimsOf[c]) + 1 \in Nat
    BY JobValues, ClaimNames
  <2> QED BY <2>2, <2>3, ClaimsStayMade DEF AllMade
<1>4. Idle.pc = "idle" /\ Idle.next # 0
  BY DEF Idle
<1> QED BY <1>1, <1>3, <1>4 DEF Made

\* What a step with the key of c does to the other clusters.
LEMMA OthersMade ==
  ASSUME IInv, IInv', MInv, ClaimsGrow, NEW c \in Clusters,
         Made(c)', CachedClaims', ClaimsOwned',
         \A d \in Clusters : d # c => /\ job'[d] = job[d] /\ ccache'[d] = ccache[d]
                                      /\ d \in queue => d \in queue'
  PROVE  MInv'
<1>1. \A d \in Clusters : d # c => Made(d)'
  BY MadeKept
<1> QED BY <1>1 DEF MInv

LEMMA OnChangedMade ==
  ASSUME IInv, IInv', MInv, NEW c \in Clusters, OnChanged(c), NamedByGone \subseteq NamedByGone'
  PROVE  MInv'
<1>1. PICK obj \in ClusterObject : obj = ccache[c] /\ obj.size \in Nat
  BY JobValues
<1> DEFINE begun(pc) == [Idle EXCEPT !.pc = pc, !.obj = obj]
<1>2. /\ UNCHANGED <<claim, claimcache, ccache>> /\ queue' = queue \ {c} /\ job[c].pc = "idle"
      /\ \/ ~obj.exists /\ UNCHANGED job
         \/ obj.deleting /\ job' = [job EXCEPT ![c] = begun("lifecycle")]
         \/ ~obj.deleting /\ job' = [job EXCEPT ![c] = begun("claims")]
  BY <1>1 DEF OnChanged, caches
<1>3. \A pc \in {"claims", "lifecycle"} :
        /\ begun(pc).pc = pc /\ begun(pc).obj = obj /\ begun(pc).next = 1 /\ ~begun(pc).failed
  BY DEF Idle, NoCluster, ClusterObject
<1> HIDE DEF begun
<1>4. \A d \in Clusters : d # c => job'[d] = job[d]
  BY <1>2 DEF IInv, TypeOK
<1>5. Made(c)'
  <2>1. CASE ~obj.exists /\ UNCHANGED job
    BY <1>1, <1>2, <2>1 DEF MInv, Made
  <2>2. CASE obj.deleting /\ job' = [job EXCEPT ![c] = begun("lifecycle")]
    <3>1. job'[c] = begun("lifecycle")
      BY <2>2 DEF IInv, TypeOK
    <3> QED BY <1>1, <1>2, <1>3, <2>2, <3>1 DEF Made
  <2>3. CASE ~obj.deleting /\ job' = [job EXCEPT ![c] = begun("claims")]
    <3>1. job'[c] = begun("claims")
      BY <2>3 DEF IInv, TypeOK
    <3>2. ClaimsMade(claim', NamedByGone', c, 1, obj.size)
      BY ClaimNames DEF ClaimsMade
    <3> QED BY <1>1, <1>2, <1>3, <2>3, <3>1, <3>2 DEF Made
  <2> QED BY <1>2, <2>1, <2>2, <2>3
<1> QED BY <1>2, <1>4, <1>5, UnchangedClaims, OthersMade

LEMMA NextClaimFields ==
  ASSUME IInv, NEW c \in Clusters
  PROVE  /\ NextClaim(c, TRUE).next = job[c].next + 1 /\ NextClaim(c, TRUE).pc = job[c].pc
         /\ NextClaim(c, TRUE).obj = job[c].obj /\ NextClaim(c, TRUE).failed = job[c].failed
         /\ NextClaim(c, FALSE).next = job[c].next /\ NextClaim(c, FALSE).pc = "lifecycle"
         /\ NextClaim(c, FALSE).obj = job[c].obj /\ NextClaim(c, FALSE).failed
<1>1. PICK j \in Job : j = job[c] /\ j.next + 1 \in Nat
  BY JobValues
<1>2. LET k == [j EXCEPT !.next = j.next + 1]
      IN k.next = j.next + 1 /\ k.pc = j.pc /\ k.obj = j.obj /\ k.failed = j.failed
  BY <1>1 DEF Job
<1>3. LET k == [j EXCEPT !.pc = "lifecycle", !.failed = TRUE]
      IN k.next = j.next /\ k.pc = "lifecycle" /\ k.obj = j.obj /\ k.failed
  BY <1>1 DEF Job
<1> QED BY <1>1, <1>2, <1>3 DEF NextClaim

LEMMA ClaimsStepMade ==
  ASSUME IInv, IInv', MInv, NEW c \in Clusters, CreatePVCFromAnnotation(c)
  PROVE  MInv'
<1> DEFINE k    == job[c].next
           p    == ClaimsOf[c][k]
           size == job[c].obj.size
           new  == ClaimStored(claim[p], claimcache[p], size, c)
<1>0. k \in Nat /\ k # 0 /\ size \in Nat /\ Len(ClaimsOf[c]) + 1 \in Nat
  BY JobValues, ClaimNames DEF MInv, Made
<1>1. /\ job[c].pc = "claims" /\ ~job[c].failed /\ ~job[c].obj.deleting
      /\ c \in queue \/ job[c].obj = ccache[c]
      /\ ClaimsMade(claim, NamedByGone, c, k, size)
  BY DEF CreatePVCFromAnnotation, MInv, Made
<1>2. UNCHANGED <<ccache, claimcache, queue>>
  BY DEF CreatePVCFromAnnotation, caches
<1>3. ASSUME NEW q \in Claims
      PROVE  /\ claim[q] \in ClaimObject(Clusters) /\ claimcache[q] \in ClaimObject(Clusters)
             /\ claim[q].size \in Nat /\ claimcache[q].size \in Nat
  BY DEF IInv, TypeOK, ClaimObject
<1>4. k \in DOMAIN ClaimsOf[c] => p \in Claims
  BY ClaimNames
<1> HIDE DEF p
\* the claim that is stored
<1>5. ASSUME k \in DOMAIN ClaimsOf[c], NEW ok \in BOOLEAN, NEW kept \in {claim[p], new},
             Call(claim[p], new, ClaimAccepted(claim[p], claimcache[p]), kept, ok),
             ~Satisfied(claimcache[p], size), claim' = [claim EXCEPT ![p] = kept]
      PROVE  /\ claim[p].exists => claim'[p].exists
             /\ ok => claim'[p].exists /\ size <= claim'[p].size
             /\ claim'[p].owners \subseteq claim[p].owners \cup {c}
             /\ \A q \in Claims : q # p => claim'[q] = claim[q]
  <2>1. new.exists /\ new.size = size
    BY <1>0, <1>3, <1>4, <1>5, StoredClaim
  <2>2. claim'[p] = kept /\ \A q \in Claims : q # p => claim'[q] = claim[q]
    BY <1>4, <1>5 DEF IInv, TypeOK
  <2>3. ok => kept = new
    BY <1>5 DEF Call
  <2>4. kept = claim[p] \/ ClaimAccepted(claim[p], claimcache[p])
    BY <1>5 DEF Call
  <2>5. ClaimSafe(claim[p], claimcache[p])
    BY <1>4, <1>5 DEF IInv, ClaimsSafe
  <2>6. ClaimAccepted(claim[p], claimcache[p]) => new.owners \subseteq claim[p].owners \cup {c}
    BY <1>0, <1>3, <1>4, <1>5, <2>5, AcceptedClaim
  <2>7. kept.owners \subseteq claim[p].owners \cup {c}
    BY <1>5, <2>4, <2>6
  <2> QED BY <1>0, <1>5, <2>1, <2>2, <2>3, <2>7
<1> HIDE DEF new
\* and what that does to all of them
<1>6. ClaimsGrow /\ CachedClaims' /\ ClaimsOwned'
  <2>1. \A q \in Claims : claim[q].size <= claim'[q].size
    BY ClaimsStep
  <2>2. ASSUME NEW q \in Claims
        PROVE  /\ claim[q].exists => claim'[q].exists
               /\ claim'[q].owners \subseteq
                    claim[q].owners \cup (IF k \in DOMAIN ClaimsOf[c] /\ q = p THEN {c} ELSE {})
    <3>1. CASE UNCHANGED claim
      BY <3>1
    <3>2. CASE ~UNCHANGED claim
      <4>1. /\ k \in DOMAIN ClaimsOf[c] /\ ~Satisfied(claimcache[p], size)
            /\ \E ok \in BOOLEAN, kept \in {claim[p], new} :
                 /\ Call(claim[p], new, ClaimAccepted(claim[p], claimcache[p]), kept, ok)
                 /\ claim' = [claim EXCEPT ![p] = kept]
        BY <3>2 DEF CreatePVCFromAnnotation, p, new
      <4>2. /\ claim[p].exists => claim'[p].exists
            /\ claim'[p].owners \subseteq claim[p].owners \cup {c}
            /\ \A r \in Claims : r # p => claim'[r] = claim[r]
        BY <1>5, <4>1
      <4> QED BY <4>1, <4>2
    <3> QED BY <3>1, <3>2
  <2>3. NamedByGone' = NamedByGone
    BY DEF CreatePVCFromAnnotation, NamedByGone, Gone
  <2>4. ASSUME NEW q \in Claims, claimcache[q].exists
        PROVE  Kept(claim', NamedByGone, q, claimcache[q].size)
    <3>1. Kept(claim, NamedByGone, q, claimcache[q].size)
      BY <2>4 DEF MInv, CachedClaims
    <3>2. claim'[q].size \in Nat
      BY DEF IInv, TypeOK, ClaimObject
    <3> QED BY <1>3, <2>1, <2>2, <3>1, <3>2 DEF Kept
  <2>5. ClaimsOwned'
    <3> SUFFICES ASSUME NEW q \in Claims, NEW d \in claim'[q].owners
                 PROVE  \E i \in DOMAIN ClaimsOf[d] : q = ClaimsOf[d][i]
      BY DEF ClaimsOwned
    <3>1. d \in claim[q].owners \/ (d = c /\ k \in DOMAIN ClaimsOf[c] /\ q = p)
      BY <2>2
    <3> QED BY <3>1 DEF MInv, ClaimsOwned, p
  <2>6. ClaimsGrow
    BY <2>1, <2>2, <2>3 DEF ClaimsGrow, Kept
  <2> QED BY <1>2, <2>3, <2>4, <2>5, <2>6 DEF CachedClaims
<1>7. ClaimsMade(claim', NamedByGone', c, k, size)
  BY <1>0, <1>1, <1>6, ClaimsStayMade
\* the job of c
<1>8. CASE k \notin DOMAIN ClaimsOf[c] /\ job' = [job EXCEPT ![c].pc = "lifecycle"]
  <2>1. AllMade(claim', NamedByGone', c, size)
    <3>1. \A i \in DOMAIN ClaimsOf[c] : i < k
      BY <1>0, <1>8, ClaimNames
    <3> QED BY <1>7, <3>1 DEF AllMade, ClaimsMade
  <2>2. PICK j \in Job : j = job[c]
    BY JobValues
  <2>3. LET n == [j EXCEPT !.pc = "lifecycle"]
        IN n.pc = "lifecycle" /\ n.obj = j.obj /\ n.next = j.next /\ n.failed = j.failed
    BY DEF Job
  <2>4. /\ job'[c].pc = "lifecycle" /\ job'[c].obj = job[c].obj /\ job'[c].next = k
        /\ \A d \in Clusters : d # c => job'[d] = job[d]
    BY <1>8, <2>2, <2>3 DEF IInv, TypeOK
  <2>5. Made(c)'
    BY <1>0, <1>1, <1>2, <2>1, <2>4 DEF Made
  <2> QED BY <1>2, <1>6, <2>4, <2>5, OthersMade
<1>9. ASSUME k \in DOMAIN ClaimsOf[c], job' = [job EXCEPT ![c] = NextClaim(c, TRUE)],
             Kept(claim', NamedByGone', p, size)
      PROVE  MInv'
  <2>1. ClaimsMade(claim', NamedByGone', c, k + 1, size)
    <3> SUFFICES ASSUME NEW i \in DOMAIN ClaimsOf[c], i < k + 1
                 PROVE  Kept(claim', NamedByGone', ClaimsOf[c][i], size)
      BY DEF ClaimsMade
    <3>1. i < k \/ i = k
      BY <1>0, ClaimNames
    <3>2. CASE i < k
      BY <1>7, <3>2 DEF ClaimsMade
    <3>3. CASE i = k
      BY <1>9, <3>3 DEF p
    <3> QED BY <3>1, <3>2, <3>3
  <2>2. job'[c] = NextClaim(c, TRUE) /\ \A d \in Clusters : d # c => job'[d] = job[d]
    BY <1>9 DEF IInv, TypeOK
  <2>3. k + 1 # 0
    BY <1>0
  <2>4. Made(c)'
    BY <1>1, <1>2, <2>1, <2>2, <2>3, NextClaimFields DEF Made
  <2> QED BY <1>2, <1>6, <2>2, <2>4, OthersMade
<1>10. ASSUME job' = [job EXCEPT ![c] = NextClaim(c, FALSE)]
       PROVE  MInv'
  <2>1. job'[c] = NextClaim(c, FALSE) /\ \A d \in Clusters : d # c => job'[d] = job[d]
    BY <1>10 DEF IInv, TypeOK
  <2>2. Made(c)'
    BY <1>0, <1>1, <1>2, <2>1, NextClaimFields DEF Made
  <2> QED BY <1>2, <1>6, <2>1, <2>2, OthersMade
<1>11. CASE /\ k \in DOMAIN ClaimsOf[c] /\ Satisfied(claimcache[p], size) /\ UNCHANGED claim
            /\ job' = [job EXCEPT ![c] = NextClaim(c, TRUE)]
  <2>1. Kept(claim, NamedByGone, p, claimcache[p].size)
    BY <1>4, <1>11 DEF Satisfied, MInv, CachedClaims
  <2>2. Kept(claim', NamedByGone', p, size)
    BY <1>0, <1>3, <1>4, <1>6, <1>11, <2>1 DEF Satisfied, Kept, ClaimsGrow
  <2> QED BY <1>9, <1>11, <2>2
<1>12. ASSUME k \in DOMAIN ClaimsOf[c], ~Satisfied(claimcache[p], size),
              \E ok \in BOOLEAN, kept \in {claim[p], new} :
                /\ Call(claim[p], new, ClaimAccepted(claim[p], claimcache[p]), kept, ok)
                /\ claim' = [claim EXCEPT ![p] = kept]
                /\ job' = [job EXCEPT ![c] = NextClaim(c, ok)]
       PROVE  MInv'
  <2>1. PICK ok \in BOOLEAN, kept \in {claim[p], new} :
           /\ Call(claim[p], new, ClaimAccepted(claim[p], claimcache[p]), kept, ok)
           /\ claim' = [claim EXCEPT ![p] = kept]
           /\ job' = [job EXCEPT ![c] = NextClaim(c, ok)]
    BY <1>12
  <2>2. CASE ok = TRUE
    <3>1. Kept(claim', NamedByGone', p, size)
      BY <1>5, <1>12, <2>1, <2>2 DEF Kept
    <3> QED BY <1>9, <1>12, <2>1, <2>2, <3>1
  <2>3. CASE ok = FALSE
    BY <1>10, <2>1, <2>3
  <2> QED BY <2>2, <2>3
<1> QED BY <1>8, <1>11, <1>12 DEF CreatePVCFromAnnotation, p, new

\* The life cycle.
LEMMA EndStepMade ==
  ASSUME IInv, IInv', MInv, NEW c \in Clusters, NEW failed, End(c, failed),
         ~failed => ~job[c].failed,
         \/ job[c].pc = "lifecycle"
         \/ job[c].pc # "idle" /\ job[c].obj.deleting,
         UNCHANGED <<claim, caches>>, NamedByGone \subseteq NamedByGone'
  PROVE  MInv'
<1>1. /\ Made(c)' /\ ClaimsGrow /\ CachedClaims' /\ ClaimsOwned'
  BY EndMade, UnchangedClaims DEF caches
<1>2. \A d \in Clusters : d # c => job'[d] = job[d] /\ (d \in queue => d \in queue')
  BY DEF End, IInv, TypeOK
<1> QED BY <1>1, <1>2, OthersMade DEF caches

LEMMA LifecycleMade ==
  ASSUME IInv, IInv', MInv, NEW c \in Clusters,
         AddFinalizer(c) \/ OnDelete(c) \/ RemoveFinalizer(c),
         NamedByGone \subseteq NamedByGone'
  PROVE  MInv'
<1>1. UNCHANGED <<claim, caches>>
  BY DEF AddFinalizer, OnDelete, RemoveFinalizer
<1>2. Made(c)
  BY DEF MInv
<1>3. ASSUME NEW failed, End(c, failed), ~failed => ~job[c].failed,
             AddFinalizer(c) \/ OnDelete(c) \/ RemoveFinalizer(c)
      PROVE  MInv'
  <2>1. job[c].pc = "lifecycle" \/ (job[c].pc # "idle" /\ job[c].obj.deleting)
    BY <1>2, <1>3 DEF AddFinalizer, OnDelete, RemoveFinalizer, Made
  <2> QED BY <1>1, <1>3, <2>1, EndStepMade
<1>4. CASE AddFinalizer(c) \/ RemoveFinalizer(c)
  <2>1. \/ End(c, job[c].failed)
        \/ \E ok \in BOOLEAN : End(c, job[c].failed \/ ~ok)
    BY <1>4 DEF AddFinalizer, RemoveFinalizer, SubmitCluster
  <2>2. CASE End(c, job[c].failed)
    BY <1>3, <1>4, <2>2
  <2>3. ASSUME NEW ok \in BOOLEAN, End(c, job[c].failed \/ ~ok)
        PROVE  MInv'
    <3>1. PICK failed \in BOOLEAN : failed = (job[c].failed \/ ~ok)
      OBVIOUS
    <3>2. ~failed => ~job[c].failed
      BY <3>1
    <3>3. End(c, failed)
      BY <2>3, <3>1
    <3> QED BY <1>3, <1>4, <3>2, <3>3
  <2> QED BY <2>1, <2>2, <2>3
<1>5. CASE OnDelete(c)
  <2>1. \/ End(c, job[c].failed) \/ End(c, TRUE)
        \/ job' = [job EXCEPT ![c].pc = "remove"] /\ (UNCHANGED queue \/ Enqueue(c))
    BY <1>5 DEF OnDelete
  <2>2. CASE job' = [job EXCEPT ![c].pc = "remove"] /\ (UNCHANGED queue \/ Enqueue(c))
    <3>1. PICK j \in Job : j = job[c]
      BY JobValues
    <3>2. LET n == [j EXCEPT !.pc = "remove"]
          IN n.pc = "remove" /\ n.obj = j.obj /\ n.next = j.next
      BY DEF Job
    <3>3. /\ job'[c].pc = "remove" /\ job'[c].obj = job[c].obj /\ job'[c].next = job[c].next
          /\ \A d \in Clusters : d # c => job'[d] = job[d]
      BY <2>2, <3>1, <3>2 DEF IInv, TypeOK
    <3>4. \A d \in Clusters : d \in queue => d \in queue'
      BY <2>2 DEF Enqueue
    <3>5. job[c].pc = "lifecycle" /\ job[c].obj.deleting
      BY <1>5 DEF OnDelete
    <3>6. Made(c)'
      BY <1>1, <1>2, <3>3, <3>4, <3>5 DEF Made, caches
    <3>7. ClaimsGrow /\ CachedClaims' /\ ClaimsOwned'
      BY <1>1, UnchangedClaims DEF caches
    <3> QED BY <1>1, <3>3, <3>4, <3>6, <3>7, OthersMade DEF caches
  <2>3. CASE End(c, job[c].failed)
    BY <1>3, <1>5, <2>3
  <2>4. CASE End(c, TRUE)
    BY <1>3, <1>5, <2>4
  <2> QED BY <2>1, <2>2, <2>3, <2>4
<1> QED BY <1>4, <1>5

\* Steps that touch no job.
LEMMA JobsKeptMade ==
  ASSUME IInv, IInv', MInv, UNCHANGED <<job, ccache, queue>>,
         ClaimsGrow, CachedClaims', ClaimsOwned'
  PROVE  MInv'
<1>1. \A c \in Clusters : Made(c)'
  BY MadeKept
<1> QED BY <1>1 DEF MInv

LEMMA SyncClusterMade ==
  ASSUME IInv, IInv', MInv, NEW c \in Clusters, SyncCluster(c)
  PROVE  MInv'
<1>1. /\ UNCHANGED <<claim, claimcache, job>> /\ queue' = queue \cup {c}
      /\ \A d \in Clusters : d # c => ccache'[d] = ccache[d]
  BY DEF SyncCluster, stores, IInv, TypeOK
<1>2. NamedByGone' = NamedByGone
  BY DEF SyncCluster, stores, NamedByGone, Gone
<1>3. Made(c)'
  BY <1>1, <1>2 DEF MInv, Made
<1> QED BY <1>1, <1>2, <1>3, UnchangedClaims, OthersMade

LEMMA SyncClaimMade ==
  ASSUME IInv, IInv', MInv, NEW p \in Claims, SyncClaim(p), NamedByGone \subseteq NamedByGone'
  PROVE  MInv'
<1>1. /\ UNCHANGED <<claim, job, ccache, queue>>
      /\ \A q \in Claims : claimcache'[q] = IF q = p THEN claim[p] ELSE claimcache[q]
  BY DEF SyncClaim, stores, IInv, TypeOK
<1>2. claim[p].size <= claim[p].size
  BY DEF IInv, TypeOK, ClaimObject
<1>3. CachedClaims'
  BY <1>1, <1>2 DEF MInv, CachedClaims, Kept
<1> QED BY <1>1, <1>3, UnchangedClaims, JobsKeptMade

LEMMA GrowMade ==
  ASSUME IInv, IInv', MInv, NEW p \in Claims, GrowClaim(p), NamedByGone \subseteq NamedByGone'
  PROVE  MInv'
<1> DEFINE new == Changed(claim[p], [claim[p] EXCEPT !.size = @ + 2])
<1>1. /\ UNCHANGED <<job, ccache, queue, claimcache>> /\ claim[p].exists
      /\ claim' = [claim EXCEPT ![p] = new]
  BY DEF GrowClaim, caches
<1>2. new.exists /\ new.owners = claim[p].owners
  <2>1. /\ claim[p] \in ClaimObject(Clusters) /\ claimcache[p] \in ClaimObject(Clusters)
        /\ ClaimSafe(claim[p], claimcache[p])
    BY DEF IInv, TypeOK, ClaimsSafe
  <2> QED BY <1>1, <2>1, GrownClaim
<1> HIDE DEF new
<1>3. /\ claim'[p].exists /\ claim'[p].owners = claim[p].owners
      /\ \A q \in Claims : q # p => claim'[q] = claim[q]
  BY <1>1, <1>2 DEF IInv, TypeOK
<1>4. \A q \in Claims : claim[q].size \in Nat /\ claim'[q].size \in Nat
                        /\ claimcache[q].size \in Nat
  BY DEF IInv, TypeOK, ClaimObject
<1>5. claim[p].size <= claim'[p].size
  BY GrowStep
<1>6. ClaimsGrow
  BY <1>3, <1>4, <1>5 DEF ClaimsGrow, Kept
<1>7. CachedClaims'
  BY <1>1, <1>4, <1>6 DEF MInv, CachedClaims, ClaimsGrow, Kept
<1>8. ClaimsOwned'
  BY <1>3 DEF MInv, ClaimsOwned
<1> QED BY <1>1, <1>6, <1>7, <1>8, JobsKeptMade

\* Of a claim that is removed the owner is gone.
LEMMA CollectMade ==
  ASSUME IInv, IInv', MInv, NEW p \in Claims, CollectClaim(p),
         NamedByGone \subseteq NamedByGone'
  PROVE  MInv'
<1>1. /\ UNCHANGED <<job, ccache, queue, claimcache>>
      /\ claim[p].owners # {} /\ claim[p].owners \subseteq Gone
  BY DEF CollectClaim, Collectable, caches
<1>2. claim'[p].owners = {} /\ \A q \in Claims : q # p => claim'[q] = claim[q]
  BY CollectStep
<1>3. p \in NamedByGone
  BY <1>1 DEF MInv, ClaimsOwned, NamedByGone
<1>4. \A q \in Claims : claim[q].size \in Nat /\ claimcache[q].size \in Nat
  BY DEF IInv, TypeOK, ClaimObject
<1>5. ClaimsGrow
  BY <1>2, <1>3, <1>4 DEF ClaimsGrow, Kept
<1>6. CachedClaims'
  BY <1>1, <1>2, <1>3 DEF MInv, CachedClaims, Kept
<1>7. ClaimsOwned'
  BY <1>2 DEF MInv, ClaimsOwned
<1> QED BY <1>1, <1>5, <1>6, <1>7, JobsKeptMade

LEMMA RestartMade ==
  ASSUME IInv, IInv', MInv, Restart
  PROVE  MInv'
<1>1. /\ UNCHANGED <<cluster, claim>> /\ ccache' = cluster /\ claimcache' = claim
      /\ queue' = {c \in Clusters : cluster[c].exists}
      /\ \A c \in Clusters : job'[c] = Idle
  BY DEF Restart
<1>2. \A c \in Clusters : Made(c)'
  BY <1>1 DEF Made, Idle
<1>3. \A p \in Claims : claim[p].size <= claim[p].size
  BY DEF IInv, TypeOK, ClaimObject
<1> QED BY <1>1, <1>2, <1>3 DEF MInv, CachedClaims, ClaimsOwned, Kept

LEMMA MadeStep == IInv /\ IInv' /\ MInv /\ [Next]_vars => MInv'
<1> SUFFICES ASSUME IInv, IInv', MInv, [Next]_vars PROVE MInv'
  OBVIOUS
<1>1. NamedByGone \subseteq NamedByGone'
  <2>1. CASE UNCHANGED vars
    BY <2>1 DEF vars, stores, NamedByGone, Gone
  <2> QED BY <2>1, GoneStay
<1>2. ASSUME NEW c \in Clusters,
             OnChanged(c) \/ ClusterStep(c) \/ SyncCluster(c)
      PROVE  MInv'
  BY <1>1, <1>2, OnChangedMade, ClaimsStepMade, LifecycleMade, SyncClusterMade DEF ClusterStep
<1>3. ASSUME NEW p \in Claims, GrowClaim(p) \/ CollectClaim(p) \/ SyncClaim(p)
      PROVE  MInv'
  BY <1>1, <1>3, GrowMade, CollectMade, SyncClaimMade
<1>4. CASE UNCHANGED <<claim, claimcache, job, ccache, queue>>
  BY <1>1, <1>4, UnchangedClaims, JobsKeptMade
<1>5. \/ \E c \in Clusters : OnChanged(c) \/ ClusterStep(c) \/ SyncCluster(c)
      \/ \E p \in Claims : GrowClaim(p) \/ CollectClaim(p) \/ SyncClaim(p)
      \/ Restart
      \/ UNCHANGED <<claim, claimcache, job, ccache, queue>>
  <2>1. CASE Next
    BY <2>1, StepKinds, UserFrame, SecretFrame
  <2>2. CASE UNCHANGED vars
    BY <2>2 DEF vars, stores, caches
  <2> QED BY <2>1, <2>2
<1> QED BY <1>2, <1>3, <1>4, <1>5, RestartMade

\* Whenever the controller comes to rest, every cluster that is not deleted has the claims
\* of its annotation, as large as it asks: no error of one claim, no edit while the claims
\* are made and no lag of a cache leaves one out.  Clusters may share a claim; it is the
\* first one's, and once a cluster that named it is removed nothing is said of it.
THEOREM ClaimsAreMade == Spec => []ClaimsAtRest
<1>1. Init => MInv
  <2> SUFFICES ASSUME Init PROVE MInv
    OBVIOUS
  <2>1. \A c \in Clusters : job[c] = Idle /\ ccache[c] = NoCluster
    BY DEF Init
  <2>2. \A c \in Clusters : Made(c)
    BY <2>1, ClusterRecords DEF Made, Idle
  <2>3. CachedClaims
    BY NoClaimType DEF Init, CachedClaims
  <2>4. ClaimsOwned
    BY NoClaimType DEF Init, ClaimsOwned
  <2> QED BY <2>2, <2>3, <2>4 DEF MInv
<1>2. MInv => ClaimsAtRest
  <2> SUFFICES ASSUME MInv, queue = {}, ccache = cluster,
                      \A d \in Clusters : job[d].pc = "idle",
                      NEW c \in Clusters, cluster[c].exists, ~cluster[c].deleting,
                      NEW i \in DOMAIN ClaimsOf[c]
               PROVE  Kept(claim, NamedByGone, ClaimsOf[c][i], cluster[c].size)
    BY DEF ClaimsAtRest, Kept
  <2>1. AllMade(claim, NamedByGone, c, cluster[c].size)
    BY DEF MInv, Made
  <2>2. i < Len(ClaimsOf[c]) + 1
    BY ClaimNames
  <2> QED BY <2>1, <2>2 DEF AllMade, ClaimsMade
<1> QED BY <1>1, <1>2, MadeStep, Inductive, PTL DEF Spec
==============================================================================
