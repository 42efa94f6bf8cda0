------------------------------ MODULE MLService ------------------------------
(***************************************************************************)
(* The MLService controller, pkg/controller/mlservice.                     *)
(*                                                                         *)
(* The key of an MLService goes through OnChange and createMLServicePVCs,  *)
(* the key of a RayService through syncRayServiceStatus, in another queue. *)
(* OnChange copies the model config and the HF secret into the service's   *)
(* namespace, creates or updates the RayService and records the outcome in *)
(* the condition created, one API call after another.                      *)
(*                                                                         *)
(* Two habits of OnChange shape everything here.  An error is overwritten  *)
(* by that of updateMLServiceCondition, so that the key is not queued      *)
(* again.  And the condition is set on the object the informer cache       *)
(* holds, before it is sent to the API server.                             *)
(***************************************************************************)
EXTENDS ApiServer, RayServiceSpec

CONSTANTS
  Services,          \* the names of MLServices; all refer to one template version
  Namespaces,
  NamespaceOf,       \* the namespace of each service
  VersionNamespace,  \* the namespace of the template version
  Specs,             \* the specs users give a service, see RayServiceSpec
  Edits,             \* what users make of which spec, of NoSpec when they create one
  HFSecrets,         \* the HF secrets they name, all in another namespace
  Workers,           \* how many workers serve the queue of MLServices
  MaxStatus,         \* bound on how often the status of a RayService changes
  Reports,           \* the ServiceStatus and ObservedGeneration in each status, counted
  MaxCollected,      \* bound on the resource version of a RayService that is collected
  Running,           \* which of them have the ServiceStatus Running
  Disturbances,      \* which of AllDisturbances may happen
  MaxDisturbances    \* bound on how many of them do

AllDisturbances == {"restart",          \* the leader dies and another takes over
                    "lostCall",         \* a call fails, stored or not
                    "claimsFail",       \* a volume claim cannot be created
                    "reportAgain",       \* a RayService has another status
                    "rotateSecret", "editService", "deleteService"}   \* by users

NoSpec == [image |-> "", hf |-> "none", groups |-> <<>>]

ASSUME NamespaceAssumption == /\ NamespaceOf \in [Services -> Namespaces]
                              /\ VersionNamespace \in Namespaces
ASSUME SpecAssumption ==
  /\ Edits \subseteq (Specs \cup {NoSpec}) \X Specs
  /\ \A spec \in Specs : /\ IsServiceSpec(spec)
                       /\ spec.hf \in HFSecrets \cup {"none"}
                       /\ spec.groups # <<>>   \* SetRayClusterImage panics without
                       /\ \A i, k \in DOMAIN spec.groups :
                            spec.groups[i].name = spec.groups[k].name => i = k
ASSUME ServiceBounds == /\ Workers \in Nat /\ MaxStatus \in Nat /\ MaxCollected \in Nat
                        /\ DOMAIN Reports = 0..MaxStatus
                        /\ MaxDisturbances \in Nat /\ Disturbances \subseteq AllDisturbances

VARIABLES
  svc, scache,          \* the MLServices: API server, informer cache
  version, vcache,      \* the template version
  configMap, cmcache,   \* per namespace: whether the model's config map is there
  hfSecret, hfcache,    \* the HF secrets, as how often their data has changed
  secret, seccache,     \* per namespace: their local copies
  ray, raycache,        \* the RayServices, named as their services
  queue, rayqueue,      \* the two work queues
  job,                  \* per service: the job of the worker that holds its key
  disturbed             \* how many disturbances there were

stores == <<svc, version, configMap, hfSecret, secret, ray>>
caches == <<scache, vcache, cmcache, hfcache, seccache, raycache>>
vars == <<stores, caches, queue, rayqueue, job, disturbed>>

-----------------------------------------------------------------------------
\* The condition created: "unset", "true", or false with the message of one of
\* these failures.
Failures == {"noVersion", "notConfigured", "configMap", "secret", "rayService"}
Created == {"unset", "true"} \cup Failures

ServiceObject == [exists : BOOLEAN, rv : Nat,
                  spec : Specs \cup {NoSpec},
                  created : Created,
                  ready : {"unset", "true", "false"}, pending : BOOLEAN,
                  status : Nat]            \* status.rayServiceStatuses: which report
SecretObject == [exists : BOOLEAN, rv : Nat, data : Nat]
RayObject == [exists : BOOLEAN, rv : Nat, spec : RaySpecs, status : Nat]
VersionState == {"absent", "created", "configured"}

NoService == [exists |-> FALSE, rv |-> 0, spec |-> NoSpec, created |-> "unset",
              ready |-> "unset", pending |-> FALSE, status |-> 0]
NoSecret == [exists |-> FALSE, rv |-> 0, data |-> 0]
NoRay == [exists |-> FALSE, rv |-> 0, spec |-> [image |-> "", groups |-> <<>>], status |-> 0]

\* A job: where it is, the object it was given, whether that is still the object
\* in the cache, the condition to be recorded, and whether a handler has failed.
Job == [pc : {"idle", "configMap", "secret", "rayService", "condition", "claims"},
        obj : ServiceObject, shared : BOOLEAN, cond : Created, failed : BOOLEAN]
Idle == [pc |-> "idle", obj |-> NoService, shared |-> FALSE, cond |-> "unset",
         failed |-> FALSE]

Init ==
  /\ svc = [s \in Services |-> NoService] /\ scache = svc
  /\ version = "absent" /\ vcache = version
  /\ configMap = [n \in Namespaces |-> FALSE] /\ cmcache = configMap
  /\ hfSecret = [h \in HFSecrets |-> 1] /\ hfcache = hfSecret
  /\ secret = [n \in Namespaces |-> [h \in HFSecrets |-> NoSecret]] /\ seccache = secret
  /\ ray = [s \in Services |-> NoRay] /\ raycache = ray
  /\ queue = {} /\ rayqueue = {}
  /\ job = [s \in Services |-> Idle]
  /\ disturbed = 0

Disturb(kind) ==
  /\ kind \in Disturbances /\ disturbed < MaxDisturbances
  /\ disturbed' = disturbed + 1

\* A call that stores new in place of old when possible holds: it is answered, it
\* is refused, or it fails although it was possible, stored or not.
Call(old, new, possible, stored, ok) ==
  \/ /\ ok /\ possible /\ stored = new
     /\ UNCHANGED disturbed
  \/ /\ ~ok /\ ~possible /\ stored = old
     /\ UNCHANGED disturbed
  \/ /\ ~ok /\ possible /\ stored \in {old, new}
     /\ Disturb("lostCall")

-----------------------------------------------------------------------------
\* Users, and the controllers of model templates.

\* A name is used once.
CreateService(s) ==
  /\ svc[s].rv = 0
  /\ \E spec \in {sp \in Specs : <<NoSpec, sp>> \in Edits} :
       svc' = [svc EXCEPT ![s] = Changed(svc[s], [NoService EXCEPT !.exists = TRUE,
                                                                 !.spec = spec])]
  /\ UNCHANGED <<version, configMap, hfSecret, secret, ray, caches, queue, rayqueue, job,
                 disturbed>>

EditService(s) ==
  /\ svc[s].exists /\ Disturb("editService")
  /\ \E spec \in {sp \in Specs : <<svc[s].spec, sp>> \in Edits} :
       svc' = [svc EXCEPT ![s] = Changed(svc[s], [svc[s] EXCEPT !.spec = spec])]
  /\ UNCHANGED <<version, configMap, hfSecret, secret, ray, caches, queue, rayqueue, job>>

DeleteService(s) ==
  /\ svc[s].exists /\ Disturb("deleteService")
  /\ svc' = [svc EXCEPT ![s] = Removed(svc[s])]
  /\ UNCHANGED <<version, configMap, hfSecret, secret, ray, caches, queue, rayqueue, job>>

RotateSecret(h) ==
  /\ Disturb("rotateSecret")
  /\ hfSecret' = [hfSecret EXCEPT ![h] = @ + 1]
  /\ UNCHANGED <<svc, version, configMap, secret, ray, caches, queue, rayqueue, job>>

\* What the controllers of module ModelTemplate do to the version.
Readiness == INSTANCE VersionReadiness

AdvanceVersion ==
  /\ Readiness!Advance
  /\ UNCHANGED <<svc, configMap, hfSecret, secret, ray, caches, queue, rayqueue, job, disturbed>>

-----------------------------------------------------------------------------
\* kuberay, which reports a new status, a first one or with the fields in Reports another,
\* and the garbage collector, which removes the RayService of a service that is gone.

ReportStatus(s) ==
  /\ ray[s].exists /\ ray[s].status < MaxStatus
  /\ ray' = [ray EXCEPT ![s] = Changed(ray[s], [ray[s] EXCEPT !.status = @ + 1])]
  /\ IF ray[s].status = 0 THEN UNCHANGED disturbed ELSE Disturb("reportAgain")
  /\ UNCHANGED <<svc, version, configMap, hfSecret, secret, caches, queue, rayqueue, job>>

CollectRayService(s) ==
  /\ ray[s].exists /\ ~svc[s].exists /\ ray[s].rv <= MaxCollected
  /\ ray' = [ray EXCEPT ![s] = Removed(ray[s])]
  /\ UNCHANGED <<svc, version, configMap, hfSecret, secret, caches, queue, rayqueue, job,
                 disturbed>>

-----------------------------------------------------------------------------
\* The informers.  Only those of services and RayServices have handlers here.

\* The new object replaces the one in the cache, which a job may still hold.
SyncService(s) ==
  /\ scache[s].rv # svc[s].rv
  /\ scache' = [scache EXCEPT ![s] = svc[s]]
  /\ queue' = queue \cup {s}
  /\ job' = [job EXCEPT ![s].shared = FALSE]
  /\ UNCHANGED <<stores, vcache, cmcache, hfcache, seccache, raycache, rayqueue, disturbed>>

SyncRayService(s) ==
  /\ raycache[s] # ray[s]
  /\ raycache' = [raycache EXCEPT ![s] = ray[s]]
  /\ rayqueue' = rayqueue \cup {s}
  /\ UNCHANGED <<stores, scache, vcache, cmcache, hfcache, seccache, queue, job, disturbed>>

SyncVersion ==
  /\ vcache # version /\ vcache' = version
  /\ UNCHANGED <<stores, scache, cmcache, hfcache, seccache, raycache, queue, rayqueue, job,
                 disturbed>>

SyncConfigMap(n) ==
  /\ cmcache[n] # configMap[n] /\ cmcache' = [cmcache EXCEPT ![n] = configMap[n]]
  /\ UNCHANGED <<stores, scache, vcache, hfcache, seccache, raycache, queue, rayqueue, job,
                 disturbed>>

SyncHFSecret(h) ==
  /\ hfcache[h] # hfSecret[h] /\ hfcache' = [hfcache EXCEPT ![h] = hfSecret[h]]
  /\ UNCHANGED <<stores, scache, vcache, cmcache, seccache, raycache, queue, rayqueue, job,
                 disturbed>>

SyncSecret(n, h) ==
  /\ seccache[n][h] # secret[n][h]
  /\ seccache' = [seccache EXCEPT ![n][h] = secret[n][h]]
  /\ UNCHANGED <<stores, scache, vcache, cmcache, hfcache, raycache, queue, rayqueue, job,
                 disturbed>>

-----------------------------------------------------------------------------
\* OnChange.

Goto(s, pc) == job' = [job EXCEPT ![s].pc = pc]

\* Mutant of Report: the message is left out.
ReportFalse(s, cond) == job' = [job EXCEPT ![s].pc = "condition", ![s].cond = "false"]

\* The outcome is recorded next, and the error forgotten.
Report(s, cond) == job' = [job EXCEPT ![s].pc = "condition", ![s].cond = cond]

\* Takes the key of a service; its version has to be there and configured.
OnChange(s) ==
  /\ s \in queue /\ job[s].pc = "idle"
  /\ Cardinality({r \in Services : job[r].pc # "idle"}) < Workers
  /\ queue' = queue \ {s}
  /\ LET next(pc, cond) == job' = [job EXCEPT ![s] = [pc |-> pc, obj |-> scache[s],
                                      shared |-> TRUE, cond |-> cond, failed |-> FALSE]]
     IN \/ /\ ~scache[s].exists
           /\ UNCHANGED job
        \/ /\ scache[s].exists /\ vcache = "absent"
           /\ next("condition", "noVersion")
        \/ /\ scache[s].exists /\ vcache = "created"
           /\ next("condition", "notConfigured")
        \/ /\ scache[s].exists /\ vcache = "configured"
           /\ next("configMap", "unset")
  /\ UNCHANGED <<stores, caches, rayqueue, disturbed>>

\* Mutant of AfterConfigMap: the secret is not needed yet.
AfterConfigMapServe(s) == "rayService"

AfterConfigMap(s) == IF job[s].obj.spec.hf # "none" THEN "secret" ELSE "rayService"

\* createModelConfigMap: looked up in the cache, in the version's namespace, and
\* created in the service's.
CreateModelConfigMap(s) ==
  LET n == NamespaceOf[s]
  IN /\ job[s].pc = "configMap"
     /\ \/ /\ cmcache[VersionNamespace]
           /\ Goto(s, AfterConfigMap(s))
           /\ UNCHANGED <<configMap, disturbed>>
        \/ /\ ~cmcache[VersionNamespace]
           /\ \E ok, there \in BOOLEAN :
                /\ Call(configMap[n], TRUE, ~configMap[n], there, ok)
                /\ configMap' = [configMap EXCEPT ![n] = there]
                /\ IF ok THEN Goto(s, AfterConfigMap(s)) ELSE Report(s, "configMap")
     /\ UNCHANGED <<svc, version, hfSecret, secret, ray, caches, queue, rayqueue>>

\* The local copy of the HF secret is created, or updated when the data differ.
SyncClusterSecretsToLocalNS(s) ==
  LET n    == NamespaceOf[s]
      h    == job[s].obj.spec.hf
      old  == secret[n][h]
      copy == seccache[n][h]
      data == hfcache[h]
      new  == IF copy.exists THEN Stored(old, [copy EXCEPT !.data = data])
              ELSE Changed(old, [exists |-> TRUE, rv |-> 0, data |-> data])
      possible == IF copy.exists THEN Accepts(old, copy) ELSE ~old.exists
  IN /\ job[s].pc = "secret"
     /\ \/ /\ copy.exists /\ copy.data = data
           /\ Goto(s, "rayService")
           /\ UNCHANGED <<secret, disturbed>>
        \/ /\ ~(copy.exists /\ copy.data = data)
           /\ \E ok \in BOOLEAN, kept \in {old, new} :
                /\ Call(old, new, possible, kept, ok)
                /\ secret' = [secret EXCEPT ![n][h] = kept]
                /\ IF ok THEN Goto(s, "rayService") ELSE Report(s, "secret")
     /\ UNCHANGED <<svc, version, configMap, hfSecret, ray, caches, queue, rayqueue>>

\* Mutant of CreateOutcome: the error is passed over.
CreateOutcomeAnyway(ok) == "true"

CreateOutcome(ok) == IF ok THEN "true" ELSE "rayService"

\* A RayService that is not in the cache is created with the spec of the service.
CreateRayService(s) ==
  /\ job[s].pc = "rayService" /\ ~raycache[s].exists
  /\ \E order \in Orders :
       LET spec == GetRayClusterSpecConfig(job[s].obj.spec, order)
           new  == Changed(ray[s], [NoRay EXCEPT !.exists = TRUE, !.spec = spec])
       IN \E ok \in BOOLEAN, kept \in {ray[s], new} :
            /\ Call(ray[s], new, ~ray[s].exists, kept, ok)
            /\ ray' = [ray EXCEPT ![s] = kept]
            /\ Report(s, CreateOutcome(ok))
  /\ UNCHANGED <<svc, version, configMap, hfSecret, secret, caches, queue, rayqueue>>

\* Mutant of UpdateError: this one is forgotten as well.
UpdateErrorSwallowed(ok) == FALSE

UpdateError(ok) == ~ok

\* One that is there gets what SetRayClusterImage and SetRayClusterWorkerGroupConfig
\* take from the service; this error alone is returned, and the condition is left.
UpdateRayService(s) ==
  /\ job[s].pc = "rayService" /\ raycache[s].exists
  /\ \E order \in Orders :
       LET copy == [raycache[s] EXCEPT !.spec = UpdatedSpec(job[s].obj.spec, @, order)]
           new  == Stored(ray[s], copy)
       IN \/ /\ copy = raycache[s]
             /\ Goto(s, "claims")
             /\ UNCHANGED <<ray, disturbed>>
          \/ /\ copy # raycache[s]
             /\ \E ok \in BOOLEAN, kept \in {ray[s], new} :
                  /\ Call(ray[s], new, Accepts(ray[s], copy), kept, ok)
                  /\ ray' = [ray EXCEPT ![s] = kept]
                  /\ job' = [job EXCEPT ![s].pc = "claims", ![s].failed = UpdateError(ok)]
  /\ UNCHANGED <<svc, version, configMap, hfSecret, secret, caches, queue, rayqueue>>

\* Mutant of StatusCopy: the newest resource version is taken.
StatusCopyForced(s) == [job[s].obj EXCEPT !.created = job[s].cond, !.rv = svc[s].rv]

StatusCopy(s) == [job[s].obj EXCEPT !.created = job[s].cond]

\* updateMLServiceCondition: a condition that is not yet as it should be is set on the
\* object, which may be the one in the cache, and a copy is sent as its status.
UpdateMLServiceCondition(s) ==
  LET copy == StatusCopy(s)
      new  == Stored(svc[s], copy)
  IN /\ job[s].pc = "condition"
     /\ \/ /\ job[s].obj.created = job[s].cond
           /\ Goto(s, "claims")
           /\ UNCHANGED <<svc, scache, disturbed>>
        \/ /\ job[s].obj.created # job[s].cond
           /\ scache' = IF job[s].shared THEN [scache EXCEPT ![s] = copy] ELSE scache
           /\ \E ok \in BOOLEAN, kept \in {svc[s], new} :
                /\ Call(svc[s], new, Accepts(svc[s], copy), kept, ok)
                /\ svc' = [svc EXCEPT ![s] = kept]
                /\ job' = [job EXCEPT ![s].pc = "claims", ![s].failed = ~ok]
     /\ UNCHANGED <<version, configMap, hfSecret, secret, ray, vcache, cmcache, hfcache,
                    seccache, raycache, queue, rayqueue>>

\* The claims follow; the key is queued again when they or OnChange returned an error.
CreateMLServicePVCs(s) ==
  /\ job[s].pc = "claims"
  /\ \E failed \in BOOLEAN :
       /\ IF failed THEN Disturb("claimsFail") ELSE UNCHANGED disturbed
       /\ queue' = IF failed \/ job[s].failed THEN queue \cup {s} ELSE queue
  /\ job' = [job EXCEPT ![s] = Idle]
  /\ UNCHANGED <<stores, caches, rayqueue>>

-----------------------------------------------------------------------------
\* Mutant of Return: the error is forgotten.
ReturnNothing(s, ok) == rayqueue' = rayqueue \ {s}

\* The handler of a RayService returns; after an error its key is queued again.
Return(s, ok) == rayqueue' = IF ok THEN rayqueue \ {s} ELSE rayqueue

\* syncRayServiceStatus: takes the key of a RayService, and copies its status into
\* the cached service when that shows another ServiceStatus or ObservedGeneration; the
\* fields may be those of an earlier report.
SyncRayServiceStatus(s) ==
  LET st   == raycache[s].status
      same == Reports[scache[s].status] = Reports[st]
      run  == Reports[st] \in Running
      copy == [scache[s] EXCEPT !.status = st,
                                !.ready = IF run THEN "true" ELSE "false",
                                !.pending = @ \/ ~run]
      new  == Stored(svc[s], copy)
  IN /\ s \in rayqueue
     /\ \/ /\ \/ ~raycache[s].exists
              \/ scache[s].exists /\ same
           /\ Return(s, TRUE)
           /\ UNCHANGED <<svc, disturbed>>
        \/ /\ raycache[s].exists /\ ~scache[s].exists
           /\ Return(s, FALSE)
           /\ UNCHANGED <<svc, disturbed>>
        \/ /\ raycache[s].exists /\ scache[s].exists /\ ~same
           /\ \E ok \in BOOLEAN, kept \in {svc[s], new} :
                /\ Call(svc[s], new, Accepts(svc[s], copy), kept, ok)
                /\ svc' = [svc EXCEPT ![s] = kept]
                /\ Return(s, ok)
     /\ UNCHANGED <<version, configMap, hfSecret, secret, ray, caches, queue, job>>

\* A new leader lists everything and has nothing in its hands.
Restart ==
  /\ Disturb("restart")
  /\ scache' = svc /\ vcache' = version /\ cmcache' = configMap
  /\ hfcache' = hfSecret /\ seccache' = secret /\ raycache' = ray
  /\ queue' = {s \in Services : svc[s].exists}
  /\ rayqueue' = {s \in Services : ray[s].exists}
  /\ job' = [s \in Services |-> Idle]
  /\ UNCHANGED stores

-----------------------------------------------------------------------------
ServiceStep(s) == \/ CreateModelConfigMap(s) \/ SyncClusterSecretsToLocalNS(s)
                  \/ CreateRayService(s) \/ UpdateRayService(s)
                  \/ UpdateMLServiceCondition(s) \/ CreateMLServicePVCs(s)

Next ==
  \/ \E s \in Services :
       \/ CreateService(s) \/ EditService(s) \/ DeleteService(s)
       \/ ReportStatus(s) \/ CollectRayService(s)
       \/ SyncService(s) \/ SyncRayService(s)
       \/ OnChange(s) \/ ServiceStep(s) \/ SyncRayServiceStatus(s)
  \/ \E n \in Namespaces : SyncConfigMap(n) \/ \E h \in HFSecrets : SyncSecret(n, h)
  \/ \E h \in HFSecrets : RotateSecret(h) \/ SyncHFSecret(h)
  \/ AdvanceVersion \/ SyncVersion
  \/ Restart

Spec == Init /\ [][Next]_vars

\* The informers of services and RayServices deliver, and a worker gets to the keys in
\* the queue of RayServices.  Nothing is assumed of the queue of services.
Fairness == \A s \in Services : /\ WF_vars(SyncService(s)) /\ WF_vars(SyncRayService(s))
                                /\ WF_vars(SyncRayServiceStatus(s))

FairSpec == Spec /\ Fairness

-----------------------------------------------------------------------------
(***************************************************************************)
(* Properties.                                                             *)
(***************************************************************************)

\* What the objects of OnChange and syncRayServiceStatus, their cached copies and the
\* jobs can hold.
TypeOK ==
  /\ svc \in [Services -> ServiceObject] /\ scache \in [Services -> ServiceObject]
  /\ version \in VersionState /\ vcache \in VersionState
  /\ configMap \in [Namespaces -> BOOLEAN] /\ cmcache \in [Namespaces -> BOOLEAN]
  /\ hfSecret \in [HFSecrets -> Nat] /\ hfcache \in [HFSecrets -> Nat]
  /\ secret \in [Namespaces -> [HFSecrets -> SecretObject]]
  /\ seccache \in [Namespaces -> [HFSecrets -> SecretObject]]
  /\ ray \in [Services -> RayObject] /\ raycache \in [Services -> RayObject]
  /\ queue \subseteq Services /\ rayqueue \subseteq Services
  /\ job \in [Services -> Job]
  /\ disturbed \in 0..MaxDisturbances

\* "sync required resources like model config and secrets to the local NS": the pods
\* of a RayService find the config map and the secret they mount, whatever call of
\* OnChange failed before it was created.
MountsExist ==
  \A s \in Services : ray[s].exists =>
    /\ configMap[NamespaceOf[s]]
    /\ \A i \in DOMAIN ray[s].spec.groups : LET tokens == ray[s].spec.groups[i].tokens
         IN \A t \in DOMAIN tokens : secret[NamespaceOf[s]][tokens[t]].exists

\* The condition created is True only while the RayService exists, although it is set
\* on the cached object and may be sent by either handler (updateMLServiceCondition,
\* syncRayServiceStatus).
CreatedMeansRayService ==
  \A s \in Services : (svc[s].exists /\ svc[s].created = "true") => ray[s].exists

\* Nothing is queued, running or unseen, and no cached service has a condition that
\* the API server does not have.
AtRest == /\ queue = {} /\ rayqueue = {} /\ \A s \in Services : job[s].pc = "idle"
          /\ scache = svc /\ vcache = version /\ cmcache = configMap
          /\ hfcache = hfSecret /\ seccache = secret /\ raycache = ray

\* "serve and reconcile the serving parameters using the RayService": when OnChange is
\* done, a service that is reported created runs with its last spec, as far as the code
\* carries it over (InEffect), through edits, conflicts with kuberay, swallowed errors and
\* restarts, as long as no edit restores an earlier spec.
CreatedRunsLastSpec ==
  AtRest => \A s \in Services :
    (svc[s].exists /\ svc[s].created = "true") => InEffect(svc[s].spec, ray[s].spec)

\* A second reconciliation with the same spec leaves the RayService alone, whichever specs
\* it went through before, but for the order of the accelerators of a group that has two
\* types or more: Go ranges over the map in another order each time, and kuberay starts a
\* new cluster for every change (SetRayClusterImage, SetRayClusterWorkerGroupConfig).
ReconcilesOnce ==
  [][\A s \in Services : ray'[s].spec # ray[s].spec =>
       \A spec \in Specs : UpdatesOnce(spec, ray'[s].spec)]_vars

\* The recorded status of the RayService never goes back to an older one, although
\* OnChange writes the status of the same object from a copy of its own.
StatusNeverRegresses ==
  [][\A s \in Services : (svc[s].exists /\ svc'[s].exists)
        => svc[s].status <= svc'[s].status]_vars

\* Whether a service shows what its RayService reports, and whether the RayService went
\* back to what it had reported before the status shown.
Shown(s) == Reports[svc[s].status] = Reports[ray[s].status]
WentBack(s) == \E i \in 0..(svc[s].status - 1) : Reports[i] = Reports[ray[s].status]

\* syncRayServiceStatus catches up: once kuberay is quiet, the service shows the status
\* of its RayService, whatever conflicts and failures were on the way; unless the
\* RayService went back to an earlier status, which the handler takes for the one shown
\* when its cached service is as old.
StatusFollows ==
  \A s \in Services : <>[]((svc[s].exists /\ ray[s].exists) => Shown(s) \/ WentBack(s))
==============================================================================
