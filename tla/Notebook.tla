------------------------------- MODULE Notebook -------------------------------
(***************************************************************************)
(* The notebook controller, pkg/controller/notebook.                       *)
(*                                                                         *)
(* The key of a notebook goes through OnChanged, which makes calls for its *)
(* stateful set, the notebook's own spec, its service and its status, and  *)
(* then through createNoteBookPVC.  It is queued by changes of notebooks   *)
(* and of pods (ReconcileNotebookPodOwners), of nothing else.              *)
(*                                                                         *)
(* The pod template is synchronised both ways: a stateful set that differs *)
(* is given the notebook's spec, and what the API server makes of it is    *)
(* written back to the notebook.                                           *)
(***************************************************************************)
EXTENDS VolumeClaims, FiniteSets, Sequences

CONSTANTS
  Notebooks,       \* the names of notebooks
  Types,           \* the service types users choose from; "" for none
  Claims,          \* the names of volume claims
  VolumesOf,       \* those in the spec of a notebook: a sequence
  Workers,         \* how many workers serve the queue
  PodStates,       \* the states of the container of a pod, one after another
  Ready,           \* in which of them the pod is ready
  NamedEdits,      \* the edits whose container users gave the name of the notebook
  MaxCollected,    \* bound on the resource version of what is collected
  Disturbances,    \* which of AllDisturbances may happen
  MaxDisturbances  \* bound on how many of them do

AllDisturbances == {"restart",      \* the leader dies and another takes over
                    "lostCall",     \* a call fails, stored or not
                    "editSpec", "editType", "editVolumes", "deleteNotebook"}   \* by users

ASSUME VolumesAssumption == VolumesOf \in [Notebooks -> Seq(Claims)]
ServiceTypes == {"", "ClusterIP", "NodePort"}

ASSUME TypesAssumption == Types \subseteq ServiceTypes
ASSUME PodAssumption == /\ PodStates \in Seq(STRING) /\ Ready \subseteq STRING
                        /\ NamedEdits \subseteq Nat
ASSUME NotebookBounds == /\ Workers \in Nat /\ MaxCollected \in Nat
                         /\ MaxDisturbances \in Nat /\ Disturbances \subseteq AllDisturbances

VARIABLES
  nb, nbcache,          \* the notebooks: API server, informer cache
  sset, sscache,        \* their stateful sets
  service, svccache,    \* their services
  claim, claimcache,    \* the volume claims
  pod, podcache,        \* their pods
  queue, job,           \* the work queue; per notebook, the job that holds its key
  disturbed             \* how many disturbances there were

stores == <<nb, sset, service, claim, pod>>
caches == <<nbcache, sscache, svccache, claimcache, podcache>>
vars == <<stores, caches, queue, job, disturbed>>

\* A pod spec: the user's edits, and whether defaults were filled in, by the API server
\* or also by getNoteBookStatefulSet (container name, working directory, port, group).
PodSpec == [edit : Nat, form : {"raw", "server", "full"}]
NoSpec == [edit |-> 0, form |-> "raw"]

\* What a status can say of the container.
States == {""} \cup {PodStates[i] : i \in DOMAIN PodStates}

NotebookObject == [exists : BOOLEAN, rv : Nat, spec : PodSpec, type : ServiceTypes,
                   size : Nat,                       \* of the volumes
                   state : States, ready : BOOLEAN]  \* status
StatefulSetObject == [exists : BOOLEAN, rv : Nat, spec : PodSpec, ready : BOOLEAN]
ServiceObject == [exists : BOOLEAN, rv : Nat, type : ServiceTypes]

NoNotebook == [exists |-> FALSE, rv |-> 0, spec |-> NoSpec, type |-> "", size |-> 0,
               state |-> "", ready |-> FALSE]
NoStatefulSet == [exists |-> FALSE, rv |-> 0, spec |-> NoSpec, ready |-> FALSE]
NoService == [exists |-> FALSE, rv |-> 0, type |-> ""]

\* A pod: an index into PodStates, 0 while there is none or its status is empty, and the
\* spec it was started with.
Pod == [at : 0..Len(PodStates), spec : PodSpec]
NoPod == [at |-> 0, spec |-> NoSpec]

\* A job: where it is, its notebook, the stateful set it was answered, the next volume,
\* and whether a handler has failed.
Answer == [spec : PodSpec, ready : BOOLEAN]
NoAnswer == [spec |-> NoSpec, ready |-> FALSE]
Job == [pc : {"idle", "spec", "service", "type", "status", "claims"},
        obj : NotebookObject, ss : Answer, next : Nat, failed : BOOLEAN]
Idle == [pc |-> "idle", obj |-> NoNotebook, ss |-> NoAnswer, next |-> 1, failed |-> FALSE]

Init ==
  /\ nb = [n \in Notebooks |-> NoNotebook] /\ nbcache = nb
  /\ sset = [n \in Notebooks |-> NoStatefulSet] /\ sscache = sset
  /\ service = [n \in Notebooks |-> NoService] /\ svccache = service
  /\ claim = [c \in Claims |-> NoClaim] /\ claimcache = claim
  /\ pod = [n \in Notebooks |-> NoPod] /\ podcache = pod
  /\ queue = {} /\ job = [n \in Notebooks |-> Idle]
  /\ disturbed = 0

Disturb(kind) ==
  /\ kind \in Disturbances /\ disturbed < MaxDisturbances
  /\ disturbed' = disturbed + 1

\* A call that stores new in place of old when possible holds: it is answered, it
\* is refused, or it fails although it was possible, stored or not.
Call(old, new, possible, stored, ok) ==
  \/ /\ ok /\ possible /\ stored = new
     /\ UNCHANGED disturbed
  \/ /\ ~ok /\ ~possible /\ stored = old
     /\ UNCHANGED disturbed
  \/ /\ ~ok /\ possible /\ stored \in {old, new}
     /\ Disturb("lostCall")

\* What the API server makes of a pod spec, and of a service's type.
Defaulted(spec) == IF spec.form = "raw" THEN [spec EXCEPT !.form = "server"] ELSE spec
DefaultType(type) == IF type = "" THEN "ClusterIP" ELSE type

-----------------------------------------------------------------------------
\* Users.

\* A name is used once.
CreateNotebook(n, type) ==
  /\ nb[n].rv = 0
  /\ nb' = [nb EXCEPT ![n] = Changed(nb[n], [NoNotebook EXCEPT
       !.exists = TRUE, !.spec.edit = 1, !.type = type, !.size = 1])]
  /\ UNCHANGED <<sset, service, claim, pod, caches, queue, job, disturbed>>

Edit(n, kind, new) ==
  /\ nb[n].exists /\ new # nb[n] /\ Disturb(kind)
  /\ nb' = [nb EXCEPT ![n] = Changed(nb[n], new)]
  /\ UNCHANGED <<sset, service, claim, pod, caches, queue, job>>

\* An edit of the stored spec keeps its defaults, a replacement has none.
EditNotebook(n) ==
  \/ \E form \in {"raw", nb[n].spec.form} :
       Edit(n, "editSpec", [nb[n] EXCEPT !.spec = [edit |-> @.edit + 1, form |-> form]])
  \/ \E type \in Types : Edit(n, "editType", [nb[n] EXCEPT !.type = type])
  \/ Edit(n, "editVolumes", [nb[n] EXCEPT !.size = @ + 1])

DeleteNotebook(n) ==
  /\ nb[n].exists /\ Disturb("deleteNotebook")
  /\ nb' = [nb EXCEPT ![n] = Removed(nb[n])]
  /\ UNCHANGED <<sset, service, claim, pod, caches, queue, job>>

-----------------------------------------------------------------------------
\* The stateful set controller, kubelet, and the garbage collector.

\* A pod is started, or its status changes.
ReportPod(n) ==
  /\ sset[n].exists /\ pod[n].at < Len(PodStates)
  /\ pod' = [pod EXCEPT ![n] = [at |-> @.at + 1,
                                  spec |-> IF @.at = 0 THEN sset[n].spec ELSE @.spec]]
  /\ UNCHANGED <<nb, sset, service, claim, caches, queue, job, disturbed>>

\* A pod that does not have the spec of the stateful set is replaced.
Replaceable(n) == sset[n].exists /\ pod[n].at # 0 /\ pod[n].spec # sset[n].spec

ReplacePod(n) ==
  /\ Replaceable(n)
  /\ pod' = [pod EXCEPT ![n] = [at |-> 1, spec |-> sset[n].spec]]
  /\ UNCHANGED <<nb, sset, service, claim, caches, queue, job, disturbed>>

\* The stateful set counts its ready pods.
ReportReady(n) ==
  /\ sset[n].exists /\ sset[n].ready # (pod[n].at # 0 /\ PodStates[pod[n].at] \in Ready)
  /\ sset' = [sset EXCEPT ![n] = Changed(sset[n], [sset[n] EXCEPT !.ready = ~@])]
  /\ UNCHANGED <<nb, service, claim, pod, caches, queue, job, disturbed>>

\* The stateful set, its pod and the service of a notebook are removed after it.
Collect(n) ==
  /\ ~nb[n].exists /\ sset[n].exists /\ sset[n].rv <= MaxCollected
  /\ sset' = [sset EXCEPT ![n] = Removed(sset[n])]
  /\ service' = [service EXCEPT ![n] = IF @.exists THEN Removed(@) ELSE @]
  /\ pod' = [pod EXCEPT ![n] = NoPod]
  /\ UNCHANGED <<nb, claim, caches, queue, job, disturbed>>

\* Notebooks that were removed, and the claims that one of them named.
Gone == {n \in Notebooks : nb[n].rv # 0 /\ ~nb[n].exists}
NamedByGone == {c \in Claims : \E n \in Gone : \E i \in DOMAIN VolumesOf[n] : c = VolumesOf[n][i]}

\* A claim goes with the notebook that made it, also when others use it.
CollectClaim(c) ==
  /\ Collectable(claim[c], Gone) /\ claim[c].rv <= MaxCollected
  /\ claim' = [claim EXCEPT ![c] = ClaimCollected(claim[c])]
  /\ UNCHANGED <<nb, sset, service, pod, caches, queue, job, disturbed>>

-----------------------------------------------------------------------------
\* The informers; those of notebooks and pods have handlers here.

SyncNotebook(n) ==
  /\ nbcache[n] # nb[n]
  /\ nbcache' = [nbcache EXCEPT ![n] = nb[n]] /\ queue' = queue \cup {n}
  /\ UNCHANGED <<stores, sscache, svccache, claimcache, podcache, job, disturbed>>

\* Mutant of PodOwner: the pod's own name.
PodOwnerSelf(n) == <<n, 0>>

\* ReconcileNotebookPodOwners: the notebook a pod is labelled with.
PodOwner(n) == n

SyncPod(n) ==
  /\ podcache[n] # pod[n]
  /\ podcache' = [podcache EXCEPT ![n] = pod[n]] /\ queue' = queue \cup {PodOwner(n)}
  /\ UNCHANGED <<stores, nbcache, sscache, svccache, claimcache, job, disturbed>>

SyncStatefulSet(n) ==
  /\ sscache[n] # sset[n] /\ sscache' = [sscache EXCEPT ![n] = sset[n]]
  /\ UNCHANGED <<stores, nbcache, svccache, claimcache, podcache, queue, job, disturbed>>

SyncService(n) ==
  /\ svccache[n] # service[n] /\ svccache' = [svccache EXCEPT ![n] = service[n]]
  /\ UNCHANGED <<stores, nbcache, sscache, claimcache, podcache, queue, job, disturbed>>

SyncClaim(c) ==
  /\ claimcache[c] # claim[c] /\ claimcache' = [claimcache EXCEPT ![c] = claim[c]]
  /\ UNCHANGED <<stores, nbcache, sscache, svccache, podcache, queue, job, disturbed>>

-----------------------------------------------------------------------------
\* OnChanged.

Goto(n, pc) == job' = [job EXCEPT ![n].pc = pc]

\* OnChanged returns, with or without an error; createNoteBookPVC follows.
Return(n, ok) ==
  job' = [job EXCEPT ![n].pc = "claims", ![n].ss = NoAnswer, ![n].failed = ~ok]

\* After the stateful set, whose spec is compared with that of the notebook.
Answered(n, ss) ==
  job' = [job EXCEPT ![n].pc = IF ss.spec = nbcache[n].spec THEN "service" ELSE "spec",
                     ![n].obj = nbcache[n], ![n].ss = [spec |-> ss.spec, ready |-> ss.ready]]

\* Mutant of Failed: the error is logged only.
FailedSilently(n) ==
  job' = [job EXCEPT ![n].pc = "claims", ![n].obj = nbcache[n]]

\* The error of ensureStatefulSet is returned.
Failed(n) == job' = [job EXCEPT ![n].pc = "claims", ![n].obj = nbcache[n], ![n].failed = TRUE]

\* ensureStatefulSet: creates it, with the defaults of getNoteBookStatefulSet, or updates
\* the cached one, which gets the spec of the notebook as it is.
EnsureStatefulSet(n) ==
  LET old     == sset[n]
      exists  == sscache[n].exists
      created == Changed(old, [NoStatefulSet EXCEPT !.exists = TRUE,
                   !.spec = [edit |-> nbcache[n].spec.edit, form |-> "full"]])
      copy    == [sscache[n] EXCEPT !.spec = Defaulted(nbcache[n].spec)]
      new     == IF exists THEN Stored(old, copy) ELSE created
      possible == IF exists THEN Accepts(old, copy) ELSE ~old.exists
  IN \/ /\ exists /\ sscache[n].spec = nbcache[n].spec
        /\ Answered(n, sscache[n])
        /\ UNCHANGED <<sset, disturbed>>
     \/ /\ ~(exists /\ sscache[n].spec = nbcache[n].spec)
        /\ \E ok \in BOOLEAN, kept \in {old, new} :
             /\ Call(old, new, possible, kept, ok)
             /\ sset' = [sset EXCEPT ![n] = kept]
             /\ IF ok THEN Answered(n, kept) ELSE Failed(n)

\* Takes the key.
OnChanged(n) ==
  /\ n \in queue /\ job[n].pc = "idle"
  /\ Cardinality({m \in Notebooks : job[m].pc # "idle"}) < Workers
  /\ queue' = queue \ {n}
  /\ IF nbcache[n].exists THEN EnsureStatefulSet(n) ELSE UNCHANGED <<sset, job, disturbed>>
  /\ UNCHANGED <<nb, service, claim, pod, caches>>

\* Mutant of SpecCopy: the newest resource version is taken.
SpecCopyForced(n) == [job[n].obj EXCEPT !.spec = job[n].ss.spec, !.rv = nb[n].rv]

SpecCopy(n) == [job[n].obj EXCEPT !.spec = job[n].ss.spec]

\* "sync pod template spec from ss to notebook after update"; what is stored is not kept.
SyncTemplateSpec(n) ==
  LET copy == SpecCopy(n)
      new  == Stored(nb[n], copy)
  IN /\ job[n].pc = "spec"
     /\ \E ok \in BOOLEAN, kept \in {nb[n], new} :
          /\ Call(nb[n], new, Accepts(nb[n], copy), kept, ok)
          /\ nb' = [nb EXCEPT ![n] = kept]
          /\ IF ok THEN Goto(n, "service") ELSE Return(n, FALSE)
     /\ UNCHANGED <<sset, service, claim, pod, caches, queue>>

\* generateService: creates the service, or updates the type of the one in the cache when
\* it is not that of the notebook, as "" never is.
GenerateService(n) ==
  LET old     == service[n]
      type    == DefaultType(job[n].obj.type)
      exists  == svccache[n].exists
      new     == IF exists THEN Stored(old, [svccache[n] EXCEPT !.type = type])
                 ELSE Changed(old, [NoService EXCEPT !.exists = TRUE, !.type = type])
      possible == IF exists THEN Accepts(old, svccache[n]) ELSE ~old.exists
      after   == IF exists \/ type = job[n].obj.type THEN "status" ELSE "type"
  IN /\ job[n].pc = "service"
     /\ \/ /\ exists /\ svccache[n].type = job[n].obj.type
           /\ Goto(n, "status")
           /\ UNCHANGED <<service, disturbed>>
        \/ /\ ~exists \/ svccache[n].type # job[n].obj.type
           /\ \E ok \in BOOLEAN, kept \in {old, new} :
                /\ Call(old, new, possible, kept, ok)
                /\ service' = [service EXCEPT ![n] = kept]
                /\ IF ok THEN Goto(n, after) ELSE Return(n, FALSE)
     /\ UNCHANGED <<nb, sset, claim, pod, caches, queue>>

\* A service that was just created for no type in particular is updated at once, with an
\* object that has no resource version.
UpdateNewService(n) ==
  LET old == service[n]
      new == Stored(old, [old EXCEPT !.type = DefaultType(job[n].obj.type)])
  IN /\ job[n].pc = "type"
     /\ \E ok \in BOOLEAN, kept \in {old, new} :
          /\ Call(old, new, old.exists, kept, ok)
          /\ service' = [service EXCEPT ![n] = kept]
          /\ IF ok THEN Goto(n, "status") ELSE Return(n, FALSE)
     /\ UNCHANGED <<nb, sset, claim, pod, caches, queue>>

\* Mutants of StatusOutcome: a pod that is not there is an error; the error is dropped.
StatusOutcomeNoPod(n, ok) == ok /\ podcache[n].at # 0
StatusOutcomeDropped(n, ok) == TRUE

\* Whether OnChanged returns no error; a missing pod, or one without a status, is none.
StatusOutcome(n, ok) == ok

\* The container of a pod is found by its name, which getNoteBookStatefulSet gives it when
\* it creates the stateful set, or users in an edit.
Named(spec) == spec.form = "full" \/ spec.edit \in NamedEdits

\* The state of the container that has the notebook's name; none when there is none.
ContainerState(p) == IF Named(p.spec) THEN PodStates[p.at] ELSE ""

\* updateNotebookStatus: the state of the container and the ready replicas, when one of
\* them differs, with the resource version the job began with.
UpdateNotebookStatus(n) ==
  LET state == IF podcache[n].at = 0 THEN job[n].obj.state
               ELSE ContainerState(podcache[n])
      copy == [job[n].obj EXCEPT !.state = state, !.ready = job[n].ss.ready]
      new  == Stored(nb[n], copy)
  IN /\ job[n].pc = "status"
     /\ \/ /\ podcache[n].at = 0 \/ copy = job[n].obj
           /\ Return(n, StatusOutcome(n, TRUE))
           /\ UNCHANGED <<nb, disturbed>>
        \/ /\ podcache[n].at # 0 /\ copy # job[n].obj
           /\ \E ok \in BOOLEAN, kept \in {nb[n], new} :
                /\ Call(nb[n], new, Accepts(nb[n], copy), kept, ok)
                /\ nb' = [nb EXCEPT ![n] = kept]
                /\ Return(n, StatusOutcome(n, ok))
     /\ UNCHANGED <<sset, service, claim, pod, caches, queue>>

-----------------------------------------------------------------------------
\* createNoteBookPVC, one volume after another; the first error ends it, and the job.  The
\* key is queued again when it or OnChanged returned an error.
CreateNoteBookPVC(n) ==
  LET c    == VolumesOf[n][job[n].next]
      size == job[n].obj.size
      new  == ClaimStored(claim[c], claimcache[c], size, n)
      next == job' = [job EXCEPT ![n].next = @ + 1] /\ UNCHANGED queue
      end(failed) == /\ job' = [job EXCEPT ![n] = Idle]
                     /\ queue' = IF failed THEN queue \cup {n} ELSE queue
  IN /\ job[n].pc = "claims"
     /\ \/ /\ job[n].next \notin DOMAIN VolumesOf[n]
           /\ end(job[n].failed)
           /\ UNCHANGED <<claim, disturbed>>
        \/ /\ job[n].next \in DOMAIN VolumesOf[n] /\ Satisfied(claimcache[c], size)
           /\ next
           /\ UNCHANGED <<claim, disturbed>>
        \/ /\ job[n].next \in DOMAIN VolumesOf[n] /\ ~Satisfied(claimcache[c], size)
           /\ \E ok \in BOOLEAN, kept \in {claim[c], new} :
                /\ Call(claim[c], new, ClaimAccepted(claim[c], claimcache[c]), kept, ok)
                /\ claim' = [claim EXCEPT ![c] = kept]
                /\ IF ok THEN next ELSE end(TRUE)
     /\ UNCHANGED <<nb, sset, service, pod, caches>>

-----------------------------------------------------------------------------
\* A new leader lists everything and has nothing in its hands.
Restart ==
  /\ Disturb("restart")
  /\ nbcache' = nb /\ sscache' = sset /\ svccache' = service
  /\ claimcache' = claim /\ podcache' = pod
  /\ queue' = {n \in Notebooks : nb[n].exists \/ pod[n].at # 0}
  /\ job' = [n \in Notebooks |-> Idle]
  /\ UNCHANGED stores

-----------------------------------------------------------------------------
NotebookStep(n) == \/ SyncTemplateSpec(n) \/ GenerateService(n) \/ UpdateNewService(n)
                   \/ UpdateNotebookStatus(n) \/ CreateNoteBookPVC(n)

Informer(n) == SyncNotebook(n) \/ SyncPod(n) \/ SyncStatefulSet(n) \/ SyncService(n)

Next ==
  \/ \E n \in Notebooks : \/ \E type \in Types : CreateNotebook(n, type)
                          \/ EditNotebook(n) \/ DeleteNotebook(n)
                          \/ ReportPod(n) \/ ReplacePod(n) \/ ReportReady(n) \/ Collect(n)
                          \/ Informer(n) \/ OnChanged(n) \/ NotebookStep(n)
  \/ \E c \in Claims : CollectClaim(c) \/ SyncClaim(c)
  \/ Restart

Spec == Init /\ [][Next]_vars

\* The informers deliver, a job that was started goes on, and a worker gets to every key
\* that keeps coming back.  Outdated pods are replaced.
Fairness ==
  /\ \A n \in Notebooks : /\ WF_vars(SyncNotebook(n)) /\ WF_vars(SyncPod(n))
                          /\ WF_vars(SyncStatefulSet(n)) /\ WF_vars(SyncService(n))
                          /\ SF_vars(OnChanged(n)) /\ WF_vars(NotebookStep(n))
                          /\ WF_vars(ReplacePod(n))
  /\ \A c \in Claims : WF_vars(SyncClaim(c))

FairSpec == Spec /\ Fairness

-----------------------------------------------------------------------------
(***************************************************************************)
(* Properties.                                                             *)
(***************************************************************************)

\* What the objects OnChanged and createNoteBookPVC read and write, their cached copies
\* and the jobs can hold.
TypeOK ==
  /\ nb \in [Notebooks -> NotebookObject] /\ nbcache \in [Notebooks -> NotebookObject]
  /\ sset \in [Notebooks -> StatefulSetObject] /\ sscache \in [Notebooks -> StatefulSetObject]
  /\ service \in [Notebooks -> ServiceObject] /\ svccache \in [Notebooks -> ServiceObject]
  /\ claim \in [Claims -> ClaimObject(Notebooks)]
  /\ claimcache \in [Claims -> ClaimObject(Notebooks)]
  /\ pod \in [Notebooks -> Pod] /\ podcache \in [Notebooks -> Pod]
  /\ queue \subseteq Notebooks /\ job \in [Notebooks -> Job]
  /\ disturbed \in 0..MaxDisturbances

\* OnChanged writes the pod spec both ways, each time from copies: what a user wrote into
\* a notebook is never replaced by an older edit out of the stateful set.
EditsSurvive ==
  [][\A n \in Notebooks : (nb[n].exists /\ nb'[n].exists) =>
       nb[n].spec.edit <= nb'[n].spec.edit]_vars

\* Nothing is queued, running or unseen, and no pod is outdated.
AtRest == /\ \A n \in Notebooks : ~Replaceable(n)
          /\ queue = {} /\ \A n \in Notebooks : job[n].pc = "idle"
          /\ nbcache = nb /\ sscache = sset /\ svccache = service
          /\ claimcache = claim /\ podcache = pod

\* "create notebook statefulSet if not exist", "create notebook service if not exist",
\* "helps to create PVCs": when the handlers are done, a notebook has all of them, and its
\* volumes their sizes, whichever call of OnChanged or createNoteBookPVC failed.  A claim
\* that a removed notebook named too may have gone with it, which queues nobody.
NotebookServed ==
  AtRest => \A n \in Notebooks : nb[n].exists =>
    /\ sset[n].exists /\ service[n].exists
    /\ \A i \in DOMAIN VolumesOf[n] :
         LET c == VolumesOf[n][i]
         IN c \in NamedByGone \/ (claim[c].exists /\ nb[n].size <= claim[c].size)

\* "Update status of the CR using the ContainerState": when the handlers are done, the
\* notebook shows the state of the container with its name, although its status is often
\* sent with a resource version the job itself has outdated (updateNotebookStatus).  It
\* shows none when its pod has no such container; "the state of the CR is not updated" is
\* what the comment says of that case.
StateShown ==
  AtRest => \A n \in Notebooks : (nb[n].exists /\ pod[n].at # 0) =>
    nb[n].state = ContainerState(pod[n])

\* "sync pod template spec from ss to notebook after update": when the handlers are done
\* and the pod is ready, a notebook shows the spec of its stateful set.  OnChanged compares
\* with a cached stateful set, whose changes queue nothing.
SpecsAgree ==
  AtRest => \A n \in Notebooks :
    (nb[n].exists /\ sset[n].ready /\ pod[n].at = Len(PodStates)) => sset[n].spec = nb[n].spec

\* The two directions of OnChanged do not undo each other for ever, and every failure is
\* got over: once users, failures and pods are quiet, the controller comes to rest.
Settles == <>[]AtRest
==============================================================================
