----------------------------- MODULE RayCluster -----------------------------
(***************************************************************************)
(* The Ray cluster controller, pkg/controller/raycluster.                  *)
(*                                                                         *)
(* The key of a RayCluster goes through OnChanged, which copies the redis  *)
(* secret into the cluster's namespace, createPVCFromAnnotation, and the   *)
(* life cycle that calls OnDelete.  kuberay has a finalizer of its own on  *)
(* a cluster, as long as its redis clean up job runs, which mounts the     *)
(* claims and the model's config map.                                      *)
(*                                                                         *)
(* The life cycle is that of OnRemove: it adds a finalizer, and once the   *)
(* object is deleted it calls OnDelete and removes the finalizer unless    *)
(* that returned an error.                                                 *)
(*                                                                         *)
(* Every write of a RayCluster, by whomever, passes the admission of       *)
(* RayClusterWebhook.                                                      *)
(***************************************************************************)
EXTENDS VolumeClaims, RayClusterWebhook, FiniteSets

CONSTANTS
  Clusters,        \* the names of RayClusters
  Namespaces, NamespaceOf,
  ConfigMaps,      \* the config maps of model template versions
  NoConfigMap,     \* none of them
  Claims,          \* the names of volume claims
  ClaimsOf,        \* those in the annotation of a cluster: a sequence
  Submissions,     \* the cluster specs that users and kuberay submit
  Workers,         \* how many workers serve the queue
  Disturbances,    \* which of AllDisturbances may happen
  MaxDisturbances  \* bound on how many of them do

AllDisturbances == {"restart",      \* the leader dies and another takes over
                    "lostCall",     \* a call fails, stored or not
                    "collectClaim",  \* the garbage collector removes a claim
                    "rotateRedis", "editCluster", "switchGCS", "growClaim"}   \* by users

ASSUME ClusterAssumption == /\ NamespaceOf \in [Clusters -> Namespaces]
                            /\ NoConfigMap \notin ConfigMaps
ASSUME SubmissionsAssumption == Submissions \subseteq ClusterSpecs
ASSUME ClaimsAssumption == ClaimsOf \in [Clusters -> Seq(Claims)]
ASSUME ClusterBounds == /\ Workers \in Nat /\ MaxDisturbances \in Nat
                        /\ Disturbances \subseteq AllDisturbances

VARIABLES
  cluster, ccache,      \* the RayClusters: API server, informer cache
  redis, redcache,      \* the redis secret of the release, as how often its data has
                        \* changed; 0 before it exists
  secret, seccache,     \* per namespace: the copy of its password
  claim, claimcache,    \* the volume claims
  configMap,            \* which config maps there are
  queue,                \* the work queue
  job,                  \* per cluster: the job of the worker that holds its key
  disturbed             \* how many disturbances there were

caches == <<ccache, redcache, seccache, claimcache>>
stores == <<cluster, redis, secret, claim, configMap>>
vars == <<stores, caches, queue, job, disturbed>>

NoSpec == [gcs |-> "none"]

ClusterObject == [exists : BOOLEAN, deleting : BOOLEAN, rv : Nat,
                  finalizer : BOOLEAN,        \* of the life cycle
                  redisFinalizer : BOOLEAN,   \* of kuberay
                  size : Nat,                 \* of the claims in the annotation
                  mounts : ConfigMaps \cup {NoConfigMap},   \* annotation of its version
                  spec : ClusterSpecs \cup {NoSpec}]
SecretObject == [exists : BOOLEAN, rv : Nat, data : Nat]

NoCluster == [exists |-> FALSE, deleting |-> FALSE, rv |-> 0, finalizer |-> FALSE,
              redisFinalizer |-> FALSE, size |-> 0, mounts |-> NoConfigMap,
              spec |-> NoSpec]
NoSecret == [exists |-> FALSE, rv |-> 0, data |-> 0]

\* A job: where it is, its object, the next claim, and whether a handler has failed.
Job == [pc : {"idle", "claims", "lifecycle", "remove"}, obj : ClusterObject, next : Nat,
        failed : BOOLEAN]
Idle == [pc |-> "idle", obj |-> NoCluster, next |-> 1, failed |-> FALSE]

Init ==
  /\ cluster = [c \in Clusters |-> NoCluster] /\ ccache = cluster
  /\ redis = 0 /\ redcache = redis
  /\ secret = [n \in Namespaces |-> NoSecret] /\ seccache = secret
  /\ claim = [p \in Claims |-> NoClaim] /\ claimcache = claim
  /\ configMap = ConfigMaps
  /\ queue = {} /\ job = [c \in Clusters |-> Idle]
  /\ disturbed = 0

Disturb(kind) ==
  /\ kind \in Disturbances /\ disturbed < MaxDisturbances
  /\ disturbed' = disturbed + 1

\* A call that stores new in place of old when possible holds: it is answered, it
\* is refused, or it fails although it was possible, stored or not.
Call(old, new, possible, stored, ok) ==
  \/ /\ ok /\ possible /\ stored = new
     /\ UNCHANGED disturbed
  \/ /\ ~ok /\ ~possible /\ stored = old
     /\ UNCHANGED disturbed
  \/ /\ ~ok /\ possible /\ stored \in {old, new}
     /\ Disturb("lostCall")

\* A deleted object goes with its last finalizer.
Left(obj) == IF obj.finalizer \/ obj.redisFinalizer THEN obj ELSE Removed(obj)

-----------------------------------------------------------------------------
\* Users, kuberay, and the release's redis.

\* kuberay makes a cluster for a RayService, and copies the annotations of that: the
\* version whose config map the cluster mounts.
IsOwnedByRayService(obj) == obj.mounts # NoConfigMap

\* A name is used once; kuberay adds its finalizer in time to a cluster with fault
\* tolerance.  The claims that users write are valid.
CreateCluster(c, mount, spec) ==
  LET new   == [NoCluster EXCEPT !.exists = TRUE, !.size = 1, !.mounts = mount]
      owned == IsOwnedByRayService(new)
      made  == AdmittedSpec(spec, owned)
  IN /\ cluster[c].rv = 0
     /\ owned => spec.ft
     /\ CreateAdmitted(spec, owned)
     /\ cluster' = [cluster EXCEPT ![c] =
          Changed(cluster[c], [new EXCEPT !.spec = made, !.redisFinalizer = made.ft])]
     /\ UNCHANGED <<redis, secret, claim, configMap, caches, queue, job, disturbed>>

\* What is stored of an update, and whether it is admitted.
Admitted(old, new) ==
  UpdateAdmitted(old.spec, new.spec, IsOwnedByRayService(new))
AsAdmitted(new) == [new EXCEPT !.spec = AdmittedSpec(new.spec, IsOwnedByRayService(new))]

\* A user writes the annotation for GCS fault tolerance, or removes it.
SwitchGCS(c, value) ==
  LET new == [cluster[c] EXCEPT !.spec.gcs = value]
      made == AsAdmitted(new)
  IN /\ cluster[c].exists /\ ~cluster[c].deleting
     /\ cluster[c].spec.gcs # value
     /\ Admitted(cluster[c], new) /\ Disturb("switchGCS")
     /\ cluster' = [cluster EXCEPT ![c] =
          Changed(cluster[c], [made EXCEPT !.redisFinalizer = @ \/ made.spec.ft])]
     /\ UNCHANGED <<redis, secret, claim, configMap, caches, queue, job>>

\* Claims in the annotation are made larger.
EditCluster(c) ==
  /\ cluster[c].exists /\ Disturb("editCluster")
  /\ Admitted(cluster[c], cluster[c])
  /\ cluster' = [cluster EXCEPT ![c] =
       Changed(cluster[c], AsAdmitted([cluster[c] EXCEPT !.size = @ + 1]))]
  /\ UNCHANGED <<redis, secret, claim, configMap, caches, queue, job>>

DeleteCluster(c) ==
  /\ cluster[c].exists /\ ~cluster[c].deleting
  /\ cluster' = [cluster EXCEPT ![c] =
       Left(Changed(cluster[c], [cluster[c] EXCEPT !.deleting = TRUE]))]
  /\ UNCHANGED <<redis, secret, claim, configMap, caches, queue, job, disturbed>>

\* The redis clean up job of a deleted cluster is done.
FinishRedisCleanUp(c) ==
  /\ cluster[c].exists /\ cluster[c].deleting /\ cluster[c].redisFinalizer
  /\ Admitted(cluster[c], cluster[c])
  /\ cluster' = [cluster EXCEPT ![c] =
       Left(Changed(cluster[c], AsAdmitted([cluster[c] EXCEPT !.redisFinalizer = FALSE])))]
  /\ UNCHANGED <<redis, secret, claim, configMap, caches, queue, job, disturbed>>

SetRedis ==
  /\ IF redis = 0 THEN UNCHANGED disturbed ELSE Disturb("rotateRedis")
  /\ redis' = redis + 1
  /\ UNCHANGED <<cluster, secret, claim, configMap, caches, queue, job>>

GrowClaim(p) ==
  /\ claim[p].exists /\ Disturb("growClaim")
  /\ claim' = [claim EXCEPT ![p] = Changed(claim[p], [claim[p] EXCEPT !.size = @ + 2])]
  /\ UNCHANGED <<cluster, redis, secret, configMap, caches, queue, job>>

\* Clusters that were removed, and the claims that one of them named.
Gone == {c \in Clusters : cluster[c].rv # 0 /\ ~cluster[c].exists}
NamedByGone == {p \in Claims : \E c \in Gone : \E i \in DOMAIN ClaimsOf[c] : p = ClaimsOf[c][i]}

\* A claim goes with the cluster that made it, also when others use it.
CollectClaim(p) ==
  /\ Collectable(claim[p], Gone) /\ Disturb("collectClaim")
  /\ claim' = [claim EXCEPT ![p] = ClaimCollected(claim[p])]
  /\ UNCHANGED <<cluster, redis, secret, configMap, caches, queue, job>>

-----------------------------------------------------------------------------
\* The informers; only the one of clusters has handlers here.

SyncCluster(c) ==
  /\ ccache[c] # cluster[c]
  /\ ccache' = [ccache EXCEPT ![c] = cluster[c]] /\ queue' = queue \cup {c}
  /\ UNCHANGED <<stores, redcache, seccache, claimcache, job, disturbed>>

SyncRedis ==
  /\ redcache # redis /\ redcache' = redis
  /\ UNCHANGED <<stores, ccache, seccache, claimcache, queue, job, disturbed>>

SyncSecret(n) ==
  /\ seccache[n] # secret[n] /\ seccache' = [seccache EXCEPT ![n] = secret[n]]
  /\ UNCHANGED <<stores, ccache, redcache, claimcache, queue, job, disturbed>>

SyncClaim(p) ==
  /\ claimcache[p] # claim[p] /\ claimcache' = [claimcache EXCEPT ![p] = claim[p]]
  /\ UNCHANGED <<stores, ccache, redcache, seccache, queue, job, disturbed>>

-----------------------------------------------------------------------------
\* The handlers.

\* syncGCSRedisSecretToNamespace: creates the copy, or updates one that differs.  Its
\* errors, and the NotFound it returns after a Create, are dropped by OnChanged.
SyncGCSRedisSecret(n) ==
  LET old == secret[n]
      new == IF seccache[n].exists
             THEN Stored(old, [seccache[n] EXCEPT !.data = redcache])
             ELSE Changed(old, [exists |-> TRUE, rv |-> 0, data |-> redcache])
      possible == IF seccache[n].exists THEN Accepts(old, seccache[n]) ELSE ~old.exists
  IN \/ /\ redcache = 0 \/ (seccache[n].exists /\ seccache[n].data = redcache)
        /\ UNCHANGED <<secret, disturbed>>
     \/ /\ redcache # 0 /\ ~(seccache[n].exists /\ seccache[n].data = redcache)
        /\ \E ok \in BOOLEAN, kept \in {old, new} :
             /\ Call(old, new, possible, kept, ok)
             /\ secret' = [secret EXCEPT ![n] = kept]

\* Takes the key; a deleted cluster gets no secret and no claims.
OnChanged(c) ==
  LET begin(pc) == job' = [job EXCEPT ![c] = [Idle EXCEPT !.pc = pc, !.obj = ccache[c]]]
  IN /\ c \in queue /\ job[c].pc = "idle"
     /\ Cardinality({d \in Clusters : job[d].pc # "idle"}) < Workers
     /\ queue' = queue \ {c}
     /\ \/ /\ ~ccache[c].exists
           /\ UNCHANGED <<secret, job, disturbed>>
        \/ /\ ccache[c].exists /\ ccache[c].deleting
           /\ begin("lifecycle")
           /\ UNCHANGED <<secret, disturbed>>
        \/ /\ ccache[c].exists /\ ~ccache[c].deleting
           /\ begin("claims")
           /\ SyncGCSRedisSecret(NamespaceOf[c])
     /\ UNCHANGED <<cluster, redis, claim, configMap, caches>>

\* Mutant of NextClaim: the error of a claim is passed over.
NextClaimAnyway(c, ok) == [job[c] EXCEPT !.next = @ + 1]

\* The first claim that fails ends the loop with an error.
NextClaim(c, ok) == IF ok THEN [job[c] EXCEPT !.next = @ + 1]
                          ELSE [job[c] EXCEPT !.pc = "lifecycle", !.failed = TRUE]

\* createPVCFromAnnotation, one claim after another.
CreatePVCFromAnnotation(c) ==
  LET p    == ClaimsOf[c][job[c].next]
      size == job[c].obj.size
      new  == ClaimStored(claim[p], claimcache[p], size, c)
  IN /\ job[c].pc = "claims"
     /\ \/ /\ job[c].next \notin DOMAIN ClaimsOf[c]
           /\ job' = [job EXCEPT ![c].pc = "lifecycle"]
           /\ UNCHANGED <<claim, disturbed>>
        \/ /\ job[c].next \in DOMAIN ClaimsOf[c] /\ Satisfied(claimcache[p], size)
           /\ job' = [job EXCEPT ![c] = NextClaim(c, TRUE)]
           /\ UNCHANGED <<claim, disturbed>>
        \/ /\ job[c].next \in DOMAIN ClaimsOf[c] /\ ~Satisfied(claimcache[p], size)
           /\ \E ok \in BOOLEAN, kept \in {claim[p], new} :
                /\ Call(claim[p], new, ClaimAccepted(claim[p], claimcache[p]), kept, ok)
                /\ claim' = [claim EXCEPT ![p] = kept]
                /\ job' = [job EXCEPT ![c] = NextClaim(c, ok)]
     /\ UNCHANGED <<cluster, redis, secret, configMap, caches, queue>>

\* The job ends; a failed one is queued again.
End(c, failed) ==
  /\ job' = [job EXCEPT ![c] = Idle]
  /\ queue' = IF failed THEN queue \cup {c} ELSE queue

\* The life cycle's Update of its object's finalizers, the last call of a job.
SubmitCluster(c, new) ==
  LET made     == Left(Changed(cluster[c], AsAdmitted(new)))
      possible == Accepts(cluster[c], job[c].obj) /\ Admitted(cluster[c], new)
  IN \E ok \in BOOLEAN, kept \in {cluster[c], made} :
       /\ Call(cluster[c], made, possible, kept, ok)
       /\ cluster' = [cluster EXCEPT ![c] = kept]
       /\ End(c, job[c].failed \/ ~ok)

\* The life cycle of a cluster that is not deleted.
AddFinalizer(c) ==
  /\ job[c].pc = "lifecycle" /\ ~job[c].obj.deleting
  /\ \/ /\ job[c].obj.finalizer
        /\ End(c, job[c].failed)
        /\ UNCHANGED <<cluster, disturbed>>
     \/ /\ ~job[c].obj.finalizer
        /\ SubmitCluster(c, [job[c].obj EXCEPT !.finalizer = TRUE])
  /\ UNCHANGED <<redis, secret, claim, configMap, caches>>

\* Mutant of Waits: the finalizer of kuberay is not looked for.
WaitsNot(obj) == FALSE

Waits(obj) == obj.redisFinalizer

\* Mutant of Enqueue: the key lacks its name.
EnqueueNamespace(c) == queue' = queue \cup {NamespaceOf[c]}

Enqueue(c) == queue' = queue \cup {c}

\* The life cycle of a deleted cluster calls OnDelete, which deletes the config map the
\* cluster mounted.  While kuberay's finalizer is there OnDelete only queues the key
\* again, and returns no error.
OnDelete(c) ==
  LET obj   == job[c].obj
      mount == job[c].obj.mounts
      done  == job' = [job EXCEPT ![c].pc = "remove"]
  IN /\ job[c].pc = "lifecycle" /\ obj.deleting
     /\ \/ /\ ~obj.finalizer
           /\ End(c, job[c].failed)
           /\ UNCHANGED <<configMap, disturbed>>
        \/ /\ obj.finalizer /\ mount = NoConfigMap
           /\ done
           /\ UNCHANGED <<configMap, queue, disturbed>>
        \/ /\ obj.finalizer /\ mount # NoConfigMap /\ Waits(obj)
           /\ Enqueue(c)
           /\ done
           /\ UNCHANGED <<configMap, disturbed>>
        \/ /\ obj.finalizer /\ mount # NoConfigMap /\ ~Waits(obj)
           /\ \E ok \in BOOLEAN, kept \in {configMap, configMap \ {mount}} :
                /\ Call(configMap, configMap \ {mount}, TRUE, kept, ok)
                /\ configMap' = kept
                /\ IF ok THEN done /\ UNCHANGED queue ELSE End(c, TRUE)
     /\ UNCHANGED <<cluster, redis, secret, claim, caches>>

\* After OnDelete without an error, also one that waits, the finalizer is removed, and
\* OnDelete is not called again.
RemoveFinalizer(c) ==
  /\ job[c].pc = "remove"
  /\ SubmitCluster(c, [job[c].obj EXCEPT !.finalizer = FALSE])
  /\ UNCHANGED <<redis, secret, claim, configMap, caches>>

-----------------------------------------------------------------------------
\* A new leader lists everything and has nothing in its hands.
Restart ==
  /\ Disturb("restart")
  /\ ccache' = cluster /\ redcache' = redis /\ seccache' = secret /\ claimcache' = claim
  /\ queue' = {c \in Clusters : cluster[c].exists}
  /\ job' = [c \in Clusters |-> Idle]
  /\ UNCHANGED <<cluster, redis, secret, claim, configMap>>

-----------------------------------------------------------------------------
ClusterStep(c) == \/ CreatePVCFromAnnotation(c) \/ AddFinalizer(c)
                  \/ OnDelete(c) \/ RemoveFinalizer(c)

Next ==
  \/ \E c \in Clusters : \/ \E m \in ConfigMaps \cup {NoConfigMap}, s \in Submissions :
                             CreateCluster(c, m, s)
                        \/ \E v \in Flags : SwitchGCS(c, v)
                        \/ EditCluster(c) \/ DeleteCluster(c)
                        \/ FinishRedisCleanUp(c) \/ SyncCluster(c)
                        \/ OnChanged(c) \/ ClusterStep(c)
  \/ \E n \in Namespaces : SyncSecret(n)
  \/ \E p \in Claims : GrowClaim(p) \/ CollectClaim(p) \/ SyncClaim(p)
  \/ SetRedis \/ SyncRedis
  \/ Restart

Spec == Init /\ [][Next]_vars

\* The informers deliver, a job that was started goes on, and a worker gets to every key
\* that keeps coming back.
Fairness ==
  /\ \A c \in Clusters : /\ WF_vars(SyncCluster(c)) /\ SF_vars(OnChanged(c))
                         /\ WF_vars(ClusterStep(c))
  /\ \A p \in Claims : WF_vars(SyncClaim(p))

FairSpec == Spec /\ Fairness

-----------------------------------------------------------------------------
(***************************************************************************)
(* Properties.                                                             *)
(***************************************************************************)

\* What the objects the three handlers of a cluster read and write, their cached copies
\* and the jobs can hold.
TypeOK ==
  /\ cluster \in [Clusters -> ClusterObject] /\ ccache \in [Clusters -> ClusterObject]
  /\ redis \in Nat /\ redcache \in 0..redis
  /\ secret \in [Namespaces -> SecretObject] /\ seccache \in [Namespaces -> SecretObject]
  /\ claim \in [Claims -> ClaimObject(Clusters)]
  /\ claimcache \in [Claims -> ClaimObject(Clusters)]
  /\ configMap \subseteq ConfigMaps /\ queue \subseteq Clusters
  /\ job \in [Clusters -> Job] /\ disturbed \in 0..MaxDisturbances

\* "users may also resize the volumes outside the annotation": whatever copy of a claim
\* createPVCFromAnnotation compares with, no claim is made smaller as long as it exists.
ClaimsNeverShrink ==
  [][\A p \in Claims : claim'[p].exists => claim[p].size <= claim'[p].size]_vars

\* Every claim in the annotation gets its size, and one that grows in the annotation
\* grows, although the first error ends the loop of createPVCFromAnnotation.  A claim that
\* a removed cluster named too may have gone with it, which queues nobody.
ClaimsFollow ==
  \A c \in Clusters : <>[]((cluster[c].exists /\ ~cluster[c].deleting) =>
    \A i \in DOMAIN ClaimsOf[c] :
      LET p == ClaimsOf[c][i]
      IN p \in NamedByGone \/ (claim[p].exists /\ cluster[c].size <= claim[p].size))

\* Whatever was admitted is admitted again, as it is: the updates that only touch a
\* finalizer or an annotation, of kuberay and of the life cycle, are never refused by the
\* validator, which would keep a deleted cluster for ever, and the mutator, which every
\* one of them passes, adds nothing a second time and never restarts the pods.
AdmittedUnchanged ==
  \A c \in Clusters : cluster[c].exists =>
    /\ Admitted(cluster[c], cluster[c])
    /\ AsAdmitted(cluster[c]) = cluster[c]

\* "wait for the redis clean up job finished first since it will mount all volumes and
\* configmaps to it": OnDelete takes no config map from a cluster whose job has not
\* finished, although it looks at a cached copy.
JobKeepsConfigMap ==
  [][\A c \in Clusters : (cluster[c].mounts \in configMap \ configMap' /\ cluster[c].exists)
        => ~cluster[c].redisFinalizer]_vars
==============================================================================
