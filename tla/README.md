# Oneblock: TLA+ models, checks and proofs

Oneblock is a Kubernetes operator and API server for LLM work: model templates,
inference services, Ray clusters, notebooks, queues. Its own logic is a set of
controllers that the elected leader runs (`pkg/controller/register.go`), a few HTTP
actions, data it creates when it starts, and admission webhooks. The controllers react to
changes: an informer cache that lags behind the Kubernetes API server puts keys in a
work queue, workers take them, and handlers write back with the resource version of the
copy they were given. What makes this hard is what happens between those steps, and that
is what the modules here are about.

## 1. The parts of the system

| part | state | operations | what makes it correct |
|---|---|---|---|
| model templates (`pkg/controller/modeltemplate`) | the ModelTemplate and ModelTemplateVersion objects, two caches, two queues, `latestVersionMap` in memory | `OnChange`, `ConfigModelDeployment`, `AssignVersion`; `SetDefaultVersion`, `SyncLatestVersion`, `DeleteLatestVersion`; `initLatestVersionMap` | every version gets one permanent number, above those that were counted before; the default is a numbered version of the template; `status.latestVersion` follows the counter |
| model config (`model_config.go`) | none, a function of a version's spec | `generateRayLLMModelConfig` | replica and request targets stay in range; the defaults the types document |
| MLService (`pkg/controller/mlservice`) | MLService, a config map, a copied secret, a RayService, volume claims | `OnChange`, `createMLServicePVCs`, `syncRayServiceStatus` | a configured template is served; spec changes reach the RayService; the conditions tell the truth |
| Ray clusters (`pkg/controller/raycluster`) | RayCluster, a copied redis secret, volume claims, a config map | `OnChanged`, `createPVCFromAnnotation`, `OnDelete` | the secret arrives in every namespace that has a cluster; nothing is removed that is still mounted |
| notebooks (`pkg/controller/notebook`) | Notebook, StatefulSet, Service, claims, pod | `OnChanged`, `createNoteBookPVC`, `ReconcileNotebookPodOwners` | the stateful set follows the notebook; the status follows the pod |
| volume claims (`pkg/utils/pvc_util.go`) | claims | `CreatePVCFromAnnotation`, `CreatePVCByVolume` | claims are created once and only grow |
| queue API (`pkg/api/queue`) and default queue (`pkg/data/volcano_queue.go`) | Volcano queues and the annotation `isDefaultQueue` | `setDefaultQueue`, `unsetAllDefaultQueues`, `addDefaultQueue` | one default queue |
| built-in data (`pkg/data`) | a namespace with an "initialized" annotation, a RayCluster | `Init` in every replica | created once, whoever starts and dies |
| administrator and users (`pkg/controller/auth`, `user`) | the default admin, role bindings, a namespace annotation | `BootstrapAdminUser`, `userHandler.OnChanged` | one admin; every user is bound to a role |
| settings (`pkg/controller/setting`, `pkg/settings`) | Setting objects, environment, fallback map | `Get`, `Set`, `SetIfUnset`, `SetAll` | the default is that of the running code; a user's value is kept |
| GPU policy, dataset | annotation on a ClusterPolicy; nothing | `OnChanged` | the environment is appended once |
| webhooks (`pkg/webhook`) | a cache of users | mutators and validators of single objects; every write of a RayCluster passes the mutator again | what was admitted is admitted again, unchanged |
| authentication, router, commands, generated clients | tokens (external), wiring | I/O | not modelled |

They interact through objects of the API server only, with one exception: the two model
template queues share `latestVersionMap`. An MLService waits for its template version to
be configured; the RayService it creates owns a RayCluster, whose removal deletes the
config map MLService made; notebooks, services and clusters share the claim handler; the
settings and the administrator come before any controller runs.
Handlers of one key run in the order they were registered, each getting what the one
before returned; an error is collected, does not stop the next handler, and puts the key
back in the queue.

The hard behaviours, line by line, are the `hazards` of `PROJECT.json`. The recurring ones:
reading a cache and writing with its resource version; the same job repeated after a
conflict, an error or a lost reply; several API calls of which one fails; a leader that
dies between two of them; errors dropped by the handler, after which nothing calls it again.

## 2. Modules

| module | what it is |
|---|---|
| `ApiServer` | external: when the API server accepts an update, what it then stores |
| `VersionNumbering` | abstract: several versions are numbered at once, each above all whose numbering had finished, and keep their numbers |
| `VersionReadiness` | abstract: a version is created and then configured, for good |
| `ModelTemplate` | both controllers of model templates, users, informers, leader change |
| `DefaultQueue` | the `setDefault` requests and the start of the server |
| `RayServiceSpec` | the spec of a RayService as MLService makes it and changes it, pure |
| `MLService` | the MLService controller: services, what it makes for them, the way of a status back |
| `VolumeClaims` | the loop body of the functions that make volume claims |
| `RayClusterWebhook` | admission of a RayCluster: mutator and validator, pure |
| `RayCluster` | the Ray cluster controller: redis secret, claims, removal, every write through admission |
| `Notebook` | the notebook controller: stateful set, pod spec both ways, service, status, claims |
| `Bootstrap` | what the leader does before its controllers, and the user controller |
| `BuiltInData` | `data.Init` in every server |
| `MCModelTemplate`, `MCDefaultQueue`, `MCMLService`, `MCRayCluster`, `MCNotebook`, `MCBootstrap`, `MCBuiltInData` | instances for TLC |
| `ModelTemplateProofs`, `DefaultQueueProofs`, `MLServiceProofs`, `RayClusterProofs`, `NotebookProofs`, `BootstrapProofs`, `BuiltInDataProofs` | the theorems about the module of that name |
| `VolumeClaimsProofs` | lemmas about `VolumeClaims`, for two of these |

`RayCluster` composes `VolumeClaims` and `RayClusterWebhook`, `Notebook` composes
`VolumeClaims`, `MLService` composes `RayServiceSpec`, and takes the template version it serves
from `VersionReadiness`, which `ModelTemplate` implements (`VersionsBecomeReady`). In a module a definition whose comment
begins with "Mutant of" is a plausible mistake in the definition that follows it; no run uses
it, and with it in place of that definition TLC finds a property violated (`mutants` of
`PROJECT.json`).

### ApiServer

An object is a record with `exists` and `rv`, the resource version. `Accepts` is optimistic
concurrency; `Stored` keeps the resource version of an update that changes nothing, as the
server does, which matters because `AssignVersion` sends one before its `UpdateStatus`.
Deleted objects keep their `rv`, so that a copy from before a deletion never matches a
successor of the same name.

### VersionNumbering

What the numbering promises is less than that numbers are unique, which the code does not
keep. A numbering begins with a number above those of all versions of the template whose
numbering had finished (`Begin`), is stored (`StoreNumber`), and then finishes (`Finish`); it may be given
up, and a crash loses what is under way. In `ModelTemplate` a version is `pending` between the
reading of `latestVersionMap` and the UpdateStatus, and `unfinished` until the map is incremented,
so `ImplementsNumbering` says of any number of workers that a number is above all that were
counted when the map was read, and permanent. Two numberings that overlap may get the same
number; with one worker none overlap.

### ModelTemplate

| variable | code |
|---|---|
| `tmpl`, `ver` | the stored objects, reduced to the fields the handlers read or write |
| `tcache`, `vcache` | `templateCache`, `templateVersionCache` |
| `tqueue`, `vqueue` | the work queues; a set, as a key is in one at most once |
| `tjob`, `vjob` | per key, the worker that holds it: the next handler, the object it will get, the number `AssignVersion` computed, whether a handler failed |
| `counter` | `latestVersionMap`; a missing key is 0 |
| `now` | for creation timestamps, which have a resolution of a second |
| `disturbed` | how many of the rare events have happened; bounded by `MaxDisturbances` |

One step is one API call with what precedes it in the handler: `OnChange` takes a key and
makes its Update; `ConfigModelDeployment` makes its UpdateStatus; `AssignVersion` makes
its Update and reads the map; `StoreVersionNumber` is its UpdateStatus, `CountVersion` the
increment and the Enqueue. `SetDefaultVersion` takes the key of a template and is one of
`PickDefault`, `DefaultNotFound`, `RecordDefault`; then come `SyncLatestVersion` and the
life cycle registered by OnRemove (`AddFinalizer`, `DeleteLatestVersion`). `Submit` gives
every call its outcomes: accepted, refused, or accepted with the reply lost.
`Restart` is a new leader: jobs and queues gone, caches listed anew, `initLatestVersionMap`.

Three details follow the code and are easy to get wrong. A handler that returns an error
with an empty object hands the *old* object to the next handler. The Update in
`AssignVersion` bumps the resource version when it adds the label, so the UpdateStatus
after it conflicts, and the number is stored in a later round. And `AssignVersion` adds an
owner reference only when there is none, but `OnChange` has then added one that names the
version itself, so versions are never owned by their template (and outlive it).

Left out: the text of conditions and of the generated config (only whether it can be
generated), periodic resyncs, retry limits and back-off, missed intermediate states of an
informer (it jumps to the newest), two leaders at once. A name of a version is used once.

### DefaultQueue

`GetQueue`, `ListQueues`, `UnsetQueue` (one Update each) and `SetQueue` are the calls of
`setDefaultQueue`, run by any number of concurrent requests; `Restart` includes
`addDefaultQueue`. A request for the queue that is the default already always fails, after
it has removed the mark: it unmarks the queue and then updates it with the copy from before.
`req[r].alone` and `excused` are history variables and restrict nothing; they say which
requests ran alone with a current cache.

### MLService and RayServiceSpec

| variable | code |
|---|---|
| `svc`, `scache` | the MLServices and their informer cache: spec, the condition created with the kind of its message, ready, pending, `rayServiceStatuses` |
| `version`, `vcache` | the one template version all services name: absent, created, configured |
| `configMap`, `cmcache` | the model's config map, per namespace |
| `hfSecret`, `hfcache` | per name, the HF secrets that services refer to, as how often their data changed |
| `secret`, `seccache` | per namespace and name, the copies of them |
| `ray`, `raycache` | the RayService of each service: its spec, and its status, which counts kuberay's reports; `Reports` has the ServiceStatus and ObservedGeneration of each |
| `queue`, `job` | the queue of MLServices; per service, where its worker is and what it holds |
| `rayqueue` | the queue of RayServices, whose handler makes one call and needs no job |

`OnChange` takes the key and looks at the version; then come, one API call each,
`CreateModelConfigMap`, `SyncClusterSecretsToLocalNS`, `CreateRayService` or
`UpdateRayService`, `UpdateMLServiceCondition`, and `CreateMLServicePVCs`, which ends the
job. `SyncRayServiceStatus` is the whole handler of the other queue. `ReportStatus` is
kuberay, `CollectRayService` the garbage collector. The handler compares the fields of a
report (`rayservice_handler.go:30-31`), not which report it is: different reports may have
the same fields, so that a RayService which ran and waits again looks, to a cache from
before it ran, like one that is shown already.

Two habits of `OnChange` are kept. Every error except that of updating a RayService is
replaced by the result of `updateMLServiceCondition`, and so lost unless that fails too
(`Report`). And `updateMLServiceCondition` sets the condition on the object the handler was
given, which is the one in the cache (`job[s].shared`, until the informer replaces it):
the copy it sends may be refused while the cache already shows the condition, and a retry
then finds nothing to do. `SyncService` repairs that because a refusal means a newer
object is on its way.

`RayServiceSpec` has the functions of `cluster_util.go` and `serve_util.go`. A new spec is
`GetRayClusterSpecConfig`; one that is there is changed by `SetRayClusterImage` and
`SetRayClusterWorkerGroupConfig` (`UpdatedSpec`), which carry over less: groups are matched by
name and never added or removed, start params and tokens are only added, resources are
replaced unless nil, volumes stay. `InEffect` is what nevertheless has to arrive. A Go map
that is ranged over (the accelerators of a group) takes an order from `Orders`, which has
every order of every set of keys. `Text` is the set of names, images and accelerator types
that are told apart; `TextAssumption` is that it has the literals of the code.

Abstracted: what is the same for every service (ports, head volumes, autoscaler options,
labels, serve config) is left out of the spec; the claims are one step that may fail, and
their owners and collection are in `RayCluster` and `Notebook`, which make them step by step. The
edits of users are pairs of specs in `Edits`. A name of a service is used once, so
what a successor finds of its predecessor's objects is left out, except that the
RayService may still be there, or be gone, at any time after its service. A service has
worker groups (`SpecAssumption`), as `SetRayClusterImage` ends the process otherwise.

### RayCluster, RayClusterWebhook and VolumeClaims

| variable | code |
|---|---|
| `cluster`, `ccache` | the RayClusters: deletion, the two finalizers, the size of the claims in the annotation, the version whose config map they mount, the spec as admission sees it |
| `redis`, `redcache` | the redis secret of the release, as how often it changed; 0 before it exists |
| `secret`, `seccache` | its copy per namespace |
| `claim`, `claimcache` | volume claims: size and owners |
| `configMap` | which config maps exist |
| `queue`, `job` | the queue; per cluster, the handler it is at, its object, the next claim, whether a handler failed |

`OnChanged` includes the one call of `syncGCSRedisSecretToNamespace`
(`SyncGCSRedisSecret`), whose error it drops. `CreatePVCFromAnnotation` makes one claim per
step with the operators of `VolumeClaims`; the first error ends the loop, and the next
handlers run all the same. A claim that is created is owned by the cluster whose handler creates
it (`pvc_util.go:40-47`), and keeps that owner when another cluster uses it; `CollectClaim`
is the garbage collector, which takes a claim when its owners are gone. `AddFinalizer`, `OnDelete`, `RemoveFinalizer` are the life cycle
of OnRemove. `FinishRedisCleanUp` is kuberay.

Every write of a cluster, by users, kuberay or the controller's own life cycle, goes through
`CreateAdmitted` or `UpdateAdmitted` and is stored as `AdmittedSpec`. A cluster that belongs
to a RayService (it has the annotation of a version) is validated only. `SwitchGCS` is a user
who sets or removes the annotation of GCS fault tolerance. A spec is what the mutator
looks at or writes: start params, names in environments, ports, life cycle, requests and
limits in thousandths, of which `Value` rounds up to whole units as `Quantity.Value` does.

One consequence of the code is visible in `OnDelete`: while kuberay's finalizer is there it
queues the key again and returns *no* error, whereupon the life cycle removes its own
finalizer, and `OnDelete` is never called again. The config map is kept long enough, and is
then usually left behind. That two clusters mount one config map, of which
the removal of one takes it from the other, is not excluded by any line of the code or the
documents: `JobKeepsConfigMap` is checked for one cluster, and proved while no two clusters
have the same version.

The secret has no property of its own: `syncGCSRedisSecretToNamespace` may come to rest
without having made it, see below.

### Notebook

| variable | code |
|---|---|
| `nb`, `nbcache` | the Notebooks: pod spec, service type, the size of the volumes, the state and readiness in the status |
| `sset`, `sscache` | their StatefulSets: pod spec and whether the pod is ready |
| `service`, `svccache`, `claim`, `claimcache` | the services' types, the claims with size and owners |
| `pod`, `podcache` | their pods: how far the container is in `PodStates`, and the pod spec it was started with |
| `queue`, `job` | the queue; per notebook, the call that is next, its object, what the stateful set's call answered, the next volume, whether a handler failed |

A pod spec is how often the user edited it (`edit`) and which defaults were filled in (`form`):
none, those of the API server, or also the container name, working directory, port and
group that `getNoteBookStatefulSet` adds when it *creates* a stateful set, and only then.
The status is that of the container whose name contains the notebook's (`ContainerState`): a
pod spec has one if it has the controller's defaults, or if the user gave it the name in
an edit (`Named`, `NamedEdits`). When a spec without it replaced the first one, the state
is overwritten with an empty one.

`OnChanged` takes the key and includes the one call of `ensureStatefulSet`; `SyncTemplateSpec`
(the Update at `:97`), `GenerateService`, `UpdateNewService`, `UpdateNotebookStatus` are one
call each, `CreateNoteBookPVC` one per volume. An error of any of them ends `OnChanged` but
not the job: the claims are made all the same, and the key is queued again. Only the
informers of notebooks and pods queue anything.

Three details. What `SyncTemplateSpec` stores is not kept, so that the status is sent with
the older resource version and conflicts; it is stored in the round that the conflict
brings. A notebook without a service type gets a ClusterIP service, which differs from ""
in every later comparison and is updated each time, the first time with the object that was
just sent and has no resource version. And a state that is the stored one is no reason to
skip a container, as the code compares pointers (`:329`) of two objects.

Left out: the pod's conditions, ports, the number of replicas (read at creation only), labels
and annotations of the pod, containers other than the first. A name of a notebook is used
once. `Collect` removes what only the notebook owns; `CollectClaim` removes the claims
it made, also when another notebook uses them. That the API server keeps a claim in
deletion until no pod mounts it is left out: the claim is gone then all the same.

### Bootstrap

| variable | code |
|---|---|
| `releaseNs` | the namespace of the release, with the annotation that the administrator was created |
| `setting` | one setting, for all of them: value and default |
| `user`, `ucache`, `wcache` | the users, the leader's cache of them, the cache of the webhook, a process of its own |
| `binding`, `bcache` | the cluster role bindings, as pairs of a user and a role |
| `queue` | the queue of the user controller |
| `lead` | per server, where its leading thread is, and the copies of setting and namespace it holds |

`Lead` is the lease. Then follow `GetSetting` and `StoreSetting` (`SetAll`, whose error ends the
process: `Exit`), the calls of `BootstrapAdminUser`, `GetReleaseNamespace`, `ListAdmins`,
`CreateAdmin`, `BindAdmin`, `MarkCreated` (whose errors are dropped), and
`StartControllers`, which lists everything. `SyncUser`, `SyncBindings` and `OnChanged` are the
user controller; a binding has a generated name, so that creating it again succeeds. Creating
a user asks the validator, which looks for the display name in a cache that may lag
(`DisplayFree`). `Servers` may differ in the default their code has and in their
environment: an upgrade.

### BuiltInData

`publicNs` is the public namespace with the annotation "default cluster initialized",
`default` the default RayCluster, `main` where each server's start is and its copy of the
namespace. `AddPublicNamespace`, `GetPublicNamespace`, `CreateDefaultCluster`,
`MarkInitialized` are the calls of `data.Init`; an error of any ends the process, and `Start`
begins again. All servers do this, not the leader alone. `addDefaultQueue`, which comes
between, is in `DefaultQueue`; the spec of the default cluster is `Default` in `MCRayCluster`,
where `AdmittedUnchanged` and the run's submissions show that admission accepts it.

## 3. Runs

| run | instance | shows |
|---|---|---|
| `templates_two_workers` | 2 versions, 2 workers for versions, 1 for templates; 1 of restart, lost reply, deletion of template or version, edit, choice of a default | `NumberNeverChanges` with concurrent and stale jobs; `PickedDefaultIsNumbered`; `NothingOwed`, that at rest no version lacks a number and no template shows an old one |
| `templates_progress` | 2 versions created in the same second, with specs no config can be generated from, 2 workers for versions, 1 for templates, 1 restart; fair | `CounterCovers`, that the controllers implement `VersionNumbering` (`ImplementsNumbering`), `LatestNeverFalls`, `EventuallyNumbered`, `LatestCatchesUp` |
| `duplicate_numbers` | 2 versions, 2 workers, no disturbance | **violation** of `UniqueNumbers` |
| `default_never_set` | 1 version, 1 worker each, no disturbance | **violation** of `DefaultIsSetAtRest` |
| `one_default_queue` | 2 queues, 3 requests, symmetric; 2 of lost reply, edit, deletion, restart | `OneDefault`, `NoBlindUnmark`, `SuccessLeavesOneDefault` |
| `service_in_one_namespace` | 1 service beside its version, whose one edit changes its image, groups, accelerators, placement and token, a RayService that waits, runs and waits again; 2 of restart, lost call, failed claim, changed secret, second and later report, edit, deletion; fair | `MountsExist`, `CreatedMeansRayService`, `CreatedRunsLastSpec`, `ReconcilesOnce`, `StatusNeverRegresses`, `StatusFollows` |
| `config_map_elsewhere` | 2 services of one version, one in another namespace, no disturbance | **violation** of `MountsExist` |
| `ray_cluster` | 1 cluster, 2 claims, 1 config map, 3 specs (the built-in one, a plain one, a head alone); 2 of restart, lost call, edit, switch of GCS, claim grown by a user, claim collected; fair | `AdmittedUnchanged`, `ClaimsNeverShrink`, `JobKeepsConfigMap`, `ClaimsFollow` |
| `notebook` | 1 notebook, 1 volume, 2 service types, a container that gets to run; 1 of restart, lost call, edit of spec, type or volumes, deletion; fair | `NotebookServed`, `StateShown`, `EditsSurvive`, `Settles` |
| `notebook_spec_outdated` | the same, no disturbance | **violation** of `SpecsAgree` |
| `bootstrap` | 2 servers of two releases, 2 names for administrators, 1 other user; 2 of crash, lost call, changed role, deleted user, edited setting, edited namespace; fair | `OneDefaultAdmin`, `DefaultStored`, `AdminNotCreatedAgain`, `SettingKept`, `EventuallyBound` |
| `built_in_data` | 3 servers; 3 of crash, lost call, edited namespace, deleted cluster; fair | `ServingMeansInitialized`, `RecordedMeansMade`, `EventuallyServing` |

The passing runs but `templates_two_workers`, whose model `templates_progress` covers, also
check `TypeOK`.

Why the bounds are enough. A number depends on the other versions of the same template
only, so one template suffices, and two versions are the least for a predecessor and
a concurrent sibling; the theorems lift the bound, and that of the disturbances with it. Two
workers are the least that overlap, which is how a number repeats (`duplicate_numbers`); all
else that is said of numbers is checked with two as well, and proved for any number of them,
five being what the server starts. For the queue API two queues give a switch back and forth, and
three requests two that overlap and one that repairs; requests are alike, hence the symmetry.
Services share only the config map and the secret of their namespace: one service has all
the interleavings of its two queues with users, kuberay and the informers, and the second
one is in `config_map_elsewhere`. Two disturbances are a failure in the middle of what another
one started (an edit whose update is lost, a restart after a half finished job). The status
of a RayService changes three times in the passing run, the last time back to the first report:
the least for a stale copy to take it back, and for a report that looks like an earlier one; the
second and third report count as disturbances. A RayService whose resource version
is above `MaxCollected` is not collected, which is a collector that has not come by yet; a job
that creates the RayService of a deleted service anew cannot then go on with it for ever.
The edit of the service goes from a spec without to one with a token, from one group to two
and from one image to another; `ReconcilesOnce` tries both specs and every pair of orders on
every result, so that the branches of `UpdatedSpec` are taken, that of a group without a match included.
Two claims are the least for which an error of one delays another; the three specs of
`ray_cluster` have limits that are missing, given and fractional, GCS on and off, and no worker
group. Two servers give `bootstrap` a leader that dies and a successor of another release, at
any step of the first; two names are enough for a second default administrator. In
`built_in_data` a third server can meet what two others left behind. In `notebook`
even the creation alone has conflicts and retries in it, as its own calls outdate its copies;
one disturbance puts a failure, an edit or a deletion at any point of that; no edit of the
run has the container's name, so a replaced pod shows no state. The container has one state
once it runs: what matters is that it is stored, taken away by a replaced spec, or
missed by a stale copy. What is beyond `MaxCollected` is not collected, for the same reason as a
RayService. With one cluster and one notebook a claim that is collected is never missed by
another; that claims are shared is in the theorems, which have any number of both.

All runs have `CHECK_DEADLOCK FALSE`: controllers with empty queues and current caches
rightly do nothing until a user does.

### What the code does not satisfy

* **Duplicate numbers** (`template_controller.go:221`). The server serves each queue with five
  workers (the default of lasso; the flag `--threadiness` of `cmd/apiserver.go:58` is never
  passed on). The map is read without the lock and incremented after the number is stored.
  Two versions created together both become version 1. A lost reply to the UpdateStatus and
  a template that is deleted and created again have the same effect; `CounterIsAhead` and
  `NumberingImplemented` exclude both by name, and hold for any number of workers, as they
  promise less than uniqueness.
* **A default that is never set** (`template_controller.go:96`). The template is enqueued right
  after the number is stored, usually before the version cache shows it; `SetDefaultVersion`
  finds no numbered version and succeeds.
* **A config map in the wrong namespace** (`ml_service_controller.go:163`). It is looked up in the
  namespace of the version and created in that of the service, so that only the first of two
  services in two namespaces gets it, once one has been made beside the version.
* **A notebook that shows an outdated pod spec** (`notebook_controller.go:94`). A job with the
  notebook's first copy sets the stateful set, which was created with defaults of the
  controller's, back to the spec without them; its Update of the notebook conflicts, and the
  retry compares with the cached stateful set of before and finds nothing to do. No
  later change of the stateful set calls the controller, and a pod that is ready stays quiet.

Not claimed by any document, and so kept in the models without a run:

* *Model templates.* `Less` sorts the newest version first, so the "first" version picked as a
  default is the latest one; a default that has no number yet is recorded as version 0 with
  the condition set to True; numbers of deleted versions are used again after a restart.
  `status.latestVersion` can go down when the map is made again: after a restart when the newest
  version was deleted, or when two workers had stored one number and counted it twice;
  `LatestNeverFalls` says that it is then still no lower than any number that was counted.
* *Queues.* Two requests that overlap, or one that begins before the cache shows the mark of
  the one before, may leave two default queues; a request for the queue that is the default
  already fails and leaves none; a deleted default queue comes back, marked, with the next
  start beside the one chosen meanwhile. `OneDefault` and `SuccessLeavesOneDefault` excuse the
  first, by name.
* *MLService.* A spec that is edited and edited back within the lag of the RayService cache is
  taken for the one that runs: with an edit that restores the spec before it
  `CreatedRunsLastSpec` is false. A RayService whose ServiceStatus and ObservedGeneration return to
  those of a cached service that is behind is not shown (`rayservice_handler.go:30-31`), and the
  service shows what was between for good; without its exception `WentBack`, TLC finds
  `StatusFollows` violated in `service_in_one_namespace`. Worker groups are never added or removed, params never
  removed, the volume not changed; a new image reaches the head and the first group only; a
  token stays when the service names another, so that the last one named does not win
  (`InEffect` asks that it is there). Two accelerator types may be written in either order of a Go
  map, again and again, and each change makes kuberay start a new cluster: `ReconcilesOnce` allows
  a second update that order and nothing else, and to groups of one type nothing. A new RayService shares the map of start params with the cached service and adds
  the accelerators to it (`cluster_util.go:163-171`). Three
  accelerator names are never found, being listed behind ones they contain (`A100-40G`,
  `A100-80G`, `AMD-Instinct-MI250X-MI250`).
* *Ray clusters.* The error of `syncGCSRedisSecretToNamespace` is dropped
  (`cluster_handler.go:66`), so that a cluster that comes before the redis secret, contrary to
  the comment "if the secret is not ready, reconcile it", waits for an unrelated event. The
  GCS annotation cannot be set to false but can be removed (`mutator.go:77-79`). A GPU limit
  given without cpu and memory limits is replaced by the request (`mutator.go:98` on).
* *Claims.* A claim that two clusters or two notebooks name is owned by the one that made it
  and collected with it; nothing queues the other, which stays without the claim until something
  else does (`notebook/pvc_handler.go:19`, `raycluster/pvc_util.go:40`). `ClaimsFollow` and
  `NotebookServed` except the claims that a removed object named (`NamedByGone`).
* *Notebooks.* Of a pod without a container of the notebook's name the comment at
  `notebook_controller.go:319-321` says "the state of the CR is not updated"; the code stores an
  empty state (`:313-317`, `:359-364`), and reaches it whenever a user's spec without that name
  replaced the one the controller had completed. `StateShown` says what the code does. The ready replicas a notebook shows may be old for good
  (`notebook_controller.go:310`); conditions are compared with themselves (`:355`), so that a
  change of theirs alone is not stored.
* *Start.* The default administrator is created again after it was deleted, if the annotation
  could not be stored; the binding of an earlier role stays after a change of role; display
  names are unique as far as the webhook's cache knows; a default cluster whose
  annotation was not stored keeps every server from serving until it is removed by hand
  (`Orphaned`, the exception of `EventuallyServing`); servers that do not lead never get a settings
  provider; the watch on the token secret is not made again once closed (`auth_secret.go:41`).

## 4. Fairness

`FairSpec` of `ModelTemplate` assumes that informers deliver (weak fairness of `Sync…`),
that a job goes on once started (weak fairness of the steps of a job), and that a key that
keeps being queued is taken (strong fairness of taking it): a failing key goes back behind
the others, so that a worker may be busy whenever a given key is looked at, but gets to it
in turn. Nothing is assumed of users, failures and restarts.

`FairSpec` of `MLService` assumes weak fairness of the informers of services and RayServices
and of `SyncRayServiceStatus`, whose key stays in the queue until it succeeds; nothing of
`OnChange`, as `StatusFollows` has to hold whether that queue is served or not. `FairSpec` of
`RayCluster` assumes the informers of clusters and claims, the steps of a job (weak) and
the taking of keys (strong), for the same reasons as above; that of `Notebook` all its informers,
steps and keys in the same way, and that the stateful set controller replaces a pod whose
spec is outdated (weak), which is what `AtRest` waits for.

`FairSpec` of `Bootstrap` assumes that some server takes the lease when nobody has it, that a
leader goes on with its calls, that the informers of users and bindings deliver, and that a
worker gets to every key (all weak: a failed key stays in the queue, one user's key does not
disable that of another). `FairSpec` of `BuiltInData` assumes that processes are started again,
by the deployment they belong to, and go on with their calls (weak).

## 5. Proofs

All theorems hold for every value of the constants that the named assumptions of the modules
allow: any number of objects, servers, workers, requests and disturbances. Nothing else is
assumed except what the column says.

| module | theorem | assumes | says of `Spec` |
|---|---|---|---|
| `ModelTemplateProofs` | `TypeCorrect` | | `[]TypeOK` |
| | `NumbersAreKept` | | `NumberNeverChanges` |
| | `CounterIsAhead` | `NoReset` | `[]CounterCovers` |
| | `NumberingImplemented` | `NoReset` | `ImplementsNumbering` |
| | `PickedIsNumbered` | | `PickedDefaultIsNumbered` |
| | `LatestOnlyRises` | `NoReset`, or no `"restart"` | `LatestNeverFalls` |
| | `NothingIsOwed` | | `[]NothingOwed` |
| | `VersionsBecomeReady` | `NoVersionDeleted` | every version implements `VersionReadiness` |
| `DefaultQueueProofs` | `QueueTypes` | | `[]TypeOK` |
| | `CopiesAreOld` | | every copy is the stored queue or an older version |
| | `AtMostOneDefault` | | `[]OneDefault` |
| | `MarksAreSeen` | | `NoBlindUnmark` |
| | `SuccessIsSole` | | `SuccessLeavesOneDefault` |
| `MLServiceProofs` | `TypeCorrect` | | `[]TypeOK` |
| | `CreatedIsTrue` | | `[]CreatedMeansRayService` |
| | `StatusOnlyAdvances` | | `StatusNeverRegresses` |
| | `MountsArePresent` | `OneNamespace` | `[]MountsExist` |
| | `WritesSettle` | | `ReconcilesOnce` |
| | `CreatedRuns` | `NotRestored` | `[]CreatedRunsLastSpec` |
| | `StatusIsShown` | | `[]StatusAtRest`, of `StatusFollows` |
| `RayClusterProofs` | `MutatedOnce` | | (of the mutator) it is idempotent, and keeps the annotation |
| | `ClusterTypesHold` | | `[]TypeOK` |
| | `AdmittedAgain` | | `[]AdmittedUnchanged` |
| | `ClaimsOnlyGrow` | | `ClaimsNeverShrink` |
| | `ConfigMapKept` | `[]NotShared` | `JobKeepsConfigMap` |
| | `ClaimsAreMade` | | `[]ClaimsAtRest`, of `ClaimsFollow` |
| `NotebookProofs` | `NotebookTypesHold` | | `[]TypeOK` |
| | `NoEditIsLost` | | `EditsSurvive` |
| | `NotebooksAreServed` | | `[]NotebookServed` |
| | `StatesAreShown` | | `[]StateShown` |
| `BootstrapProofs` | `BootstrapTypes` | | `[]TypeOK` |
| | `AtMostOneAdmin` | | `[]OneDefaultAdmin` |
| | `RunsWithItsDefault` | | `[]DefaultStored` |
| | `AnnotationLasts` | | `AdminNotCreatedAgain` |
| | `EditsAreKept` | | `SettingKept` |
| | `EveryoneIsBound` | | `[]BoundAtRest`, of `EventuallyBound` |
| `BuiltInDataProofs` | `StartTypes` | | `[]TypeOK` |
| | `ServingIsInitialized` | | `[]ServingMeansInitialized` |
| | `RecordedIsMade` | | `[]RecordedMeansMade` |

Five assumptions are needed because the property is false without them.

* `NoReset`: neither `"lostReply"` nor `"deleteTemplate"` is among the disturbances. After a lost
  reply a number is stored that the map does not count; a deletion of the template makes the
  map forget those it had counted. None is needed for `LatestOnlyRises` under one leader.
* `NoVersionDeleted`: `"deleteVersion"` is not among the disturbances; `MLService` has a version
  that stays.
* `OneNamespace`: every service is in the namespace of its template version
  (`config_map_elsewhere`).
* `NotRestored`: the edits have an order in which no edit restores what an earlier spec had in
  effect and one between took back. The lemma `OneEdit` shows it of a
  service that is edited once, as in `service_in_one_namespace`.
* `NotShared`, a state predicate that is assumed to hold always: no two clusters have the
  annotation of one version.

One idea runs through all of them: a copy, in a cache or in a job, is *older* than the stored
object or *equal* to it. A call that the API server accepts therefore acts on the stored
object itself, and what a handler has checked on its copy holds of the object. No property
says this, which is why none of them is inductive alone.

* *Model templates.* `CopiesOK` is that idea, and gives `NumbersAreKept`. From what each step
  may do to numbers (`KeepsNumber`, `GivesNone`, `Survives`) follows
  `CounterOK`: a pending number is at most one ahead of the counter (`PendingCovered`), and no
  template is being deleted, so that the counter never falls. `CounterCovers` alone does
  not bound a number that is not stored yet. The refinement holds for any number of workers:
  when `AssignVersion` reads the map, `CounterCovers` has it at or above every stored number but
  those of jobs that are about to count (`AssignBegins`), which is what `Begin` asks;
  `StoreVersionNumber` is `StoreNumber` by `CopiesOK`, `CountVersion` is `Finish`, a refused call is
  `GiveUp`, `DeleteVersion` is `Delete`, a new leader is `Crash`, and all else stutters.
  `PickedIsNumbered` needs that a number seen in a cache is still there, or its version gone
  (`NumbersSeen`), and that copies of templates are old too (`TemplateCopiesOK`).
  `LatestOnlyRises` rests on `LatestOK`: what a template shows is covered by the map
  (`LatestCovered`), and a deletion that the cache shows late, which resets the map of
  a template made anew, comes before that template shows anything (`LateDeletion`,
  `NoneOutlives`). Over a restart `CounterCovers` is enough: what a new leader finds covers every
  number that was counted (`Found`).
  `NothingIsOwed` generalises rest to one key: a version without a number is queued, held,
  or not yet seen (`VersionsOwed`), a job that will not give a number has no need to
  (`JobsSeen`), and a template whose key is in order is held with what is stored or shows the map
  (`TemplatesOwed`).
  `VersionsBecomeReady` is what `MLService` assumes of the version it serves, as a refinement:
  each step of a version's readiness (`ReadyAs`) is one of `VersionReadiness` or a stutter
  (`StepReadies`). A handler writes a copy without the condition only over a version that had
  none, by `CopiesOK`, so nothing takes a configured version back (`CallReadies`).
* *Queues.* `CopiesOld`, and `Alone`: what a request that runs alone can rely on, namely that
  every default queue is marked in the cache when it lists, and in what it has left to unmark
  after that.
* *MLService.* `Safe` relates a service, its cached copy, its RayService with the cached copy
  of that, and the job: whoever says that the RayService was created is right until the service
  is deleted, and the recorded status is one the cached RayService has gone past. `Mounts`
  follows a job: when it has come to the RayService, config map and secret are there; neither
  is ever deleted; and every token in a spec, those of earlier specs included, is of a secret that
  is there. `Whole`, that a spec has all its fields, makes `UpdateTwice` applicable: a second
  update sets every field to the value it has, but for the order of accelerators. `TypeCorrect` types every function of
  `RayServiceSpec`, the visit of an unordered Go map included.
  `CreatedRuns` puts the specs of a service in their order: copy, job and object are ever later
  in it (`Line`); a job whose object is not the cached one will come again (`Held`); the
  RayService runs some spec that is not later than the controller's, and its cached copy runs the
  same or an earlier one (`Tracks`); so a comparison with that copy which finds nothing to do
  means that the spec is in effect, and the condition that says so carries it (`Carried`).
  `StatusIsShown` needs that no copy of a service, in the cache or in a job, has a newer status
  than the service (`Shows`): a handler that finds nothing to do in an old copy has then found
  a report the service has shown, or one equal to an earlier report (`Covers`). `UpdateTwice`
  visits accelerators in any two orders: it needs that every order has the same keys (`VisitsAll`).
* *Ray clusters.* The mutator is idempotent field by field (`Value`, `AddEnv`, limits), so
  what is stored has been admitted (`ClustersFit`) and stays so through every write. For
  `ConfigMapKept`, `Trailing`: a copy of a cluster is an earlier state of it, whose deletion and
  finished clean-up are never undone. `ClaimsAreMade` follows a job through its claims: those it
  has passed are there in the size it asks (`Made`), and those of the cache are never larger than
  those of the API server (`CachedClaims`), as claims only grow; a claim that is collected was
  named by a cluster that is gone, as its owner is one that names it (`ClaimsOwned`), and what is
  gone stays gone (`GoneStay`).
* *Notebooks.* `NotebookSafe`: a job that is about to write a spec back holds the edit its
  notebook had, so that an accepted write changes defaults only. For what holds at rest, `SInv`
  has the whole progress of a job: what it has passed exists while its notebook does
  (`Lasting`), it works on the cached notebook or comes again (`Working`), a key that is
  neither queued nor held was served (`Rested`), with the state of the pod unless the cached
  notebook is old (`Shown`); a cached claim is never larger than the claim (`Claimed`), or was
  named by a notebook that is gone (`ClaimKept`).
* *Start.* In `Bootstrap` there is one leader (`OneLeader`); its copy of the setting is old at
  most (`CopySafe`), what it has stored has its default (`StoredSafe`), and until it has created
  the administrator there is none and none is recorded (`AdminSafe`). For `EveryoneIsBound`, a
  binding in the cache is there while its user is, and a cached user that is current and not
  queued is bound (`Seen`). In `BuiltInData` a server
  past `AddPublicNamespace` has found the namespace, its copy is of a namespace that exists, and
  the mark is never removed, as the one copy that is written back gets the mark first; it
  comes to `MarkInitialized` only after the cluster was stored (`Started`).

Only model-checked: the liveness properties (`EventuallyNumbered`, `LatestCatchesUp`,
`StatusFollows`, `ClaimsFollow`, `Settles`, `EventuallyBound`, `EventuallyServing`), as liveness
under fairness is beyond the prover. `NothingIsOwed`, `StatusIsShown`, `ClaimsAreMade` and
`EveryoneIsBound` are what can be proved of `EventuallyNumbered` and `LatestCatchesUp`,
`StatusFollows`, `ClaimsFollow` and `EventuallyBound`: at rest, when no key is queued or held
and the caches are current, the work is done, for any number of workers and failures. That the
controllers do come to rest is TLC's. `StatusAtRest`, `ClaimsAtRest` and `BoundAtRest` are stated
in the proof modules, and no run repeats them, as the liveness property of each is checked on its
instance; nor does one repeat `VersionsBecomeReady`, of which TLC agrees in the instance of
`templates_two_workers` without `"deleteVersion"`. Every other property of a passing run is a theorem.

## 6. What is not modelled, and what is left

* *Model config* (`model_config.go`): a function of one template version to text. Nothing is
  kept, shared or retried, and a table of inputs reaches its edges: the `HFModelID` of the spec
  is not used (`model_template_types.go:91`, `model_config.go:203-214`); the product of
  concurrency and 40 has 32 bits and overflows above 53,687,091 (`:184`); the target is 0 for one
  or two queries; `SystemInUser` cannot be false (`:159`). `ModelTemplate` has whether it fails.
* *GPU policy, datasets*: one guarded Update of an object of another operator, with the
  optimistic write that is modelled elsewhere; handlers that write nothing but their owned claims.
* *Settings*: one setting through `SetAll` is in `Bootstrap`. The precedence of `Get` and single
  `Set`s, which no two callers of the repository do at once, are not.
* *Webhooks*: the mutator and validator of Ray clusters are operators of `RayClusterWebhook`, the
  uniqueness of display names is in `Bootstrap`. The notebook mutator (defaults of one object), the
  validators of the JSON in annotations and of single fields, and the registration are not.
* *Authentication and tokens* (external libraries), *router, UI, commands* (I/O and wiring).
* *Generated code*: clients, controllers, deep copies and CRDs. Together with type definitions,
  schema registration and wiring it is most of the lines of the implementation (the first three
  alone are 10,500 of 17,440), which is why the share of lines that the map names stays small although every controller is modelled.

Left for later, in this order: the deletion of a template version that services run, which
`VersionReadiness` does not have; two Ray clusters that share a version, once the
code says who owns the config map; `CreatedRuns` without
`NotRestored`, should the code compare with the stored RayService.
