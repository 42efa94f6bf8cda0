---------------------------- MODULE ModelTemplate ----------------------------
(***************************************************************************)
(* The model template controllers, pkg/controller/modeltemplate.           *)
(*                                                                         *)
(* Two work queues are served by the leader process.  The key of a         *)
(* ModelTemplateVersion goes through OnChange, ConfigModelDeployment and   *)
(* AssignVersion, the key of a ModelTemplate through SetDefaultVersion,    *)
(* SyncLatestVersion and the life cycle that calls DeleteLatestVersion.    *)
(* Both kinds of worker share latestVersionMap, in memory.  Every handler  *)
(* reads the argument the queue took from an informer cache, which lags    *)
(* behind the API server, and writes with that copy's resource version.    *)
(*                                                                         *)
(* A job moves through its handlers one API call at a time.  A handler     *)
(* that reads a cache and then makes one call is one step, as is taking a  *)
(* key and running its first handler: the caches lag anyway.  A handler's  *)
(* error is collected and does not stop the next one; the key goes back to *)
(* the queue when the job ends.                                            *)
(***************************************************************************)
EXTENDS ApiServer, FiniteSets

CONSTANTS
  Templates,        \* the names of model templates
  Versions,         \* the names of model template versions, as numbers: names
                    \* are only compared, for equality and in sorting
  TemplateOf,       \* spec.templateName of each version
  VersionWorkers,   \* how many workers serve the queue of versions
  TemplateWorkers,  \* how many workers serve the queue of templates
  SpecValidity,     \* whether the specs users write give a model config
  Ticks,            \* how many seconds may pass before a version is created
  InService,        \* the templates this leader finds when it starts
  Disturbances,     \* which of AllDisturbances may happen
  MaxDisturbances   \* bound on how many of them do

AllDisturbances == {"restart",         \* the leader dies and another takes over
                    "lostReply",       \* a write is stored, its reply is lost
                    "deleteVersion", "editVersion",   \* by users
                    "deleteTemplate", "chooseDefault" \* by users
                   }

None == 0   \* no version name

ASSUME NamesAssumption == Versions \subseteq Nat \ {None} /\ IsFiniteSet(Versions)
ASSUME TemplateOfAssumption == TemplateOf \in [Versions -> Templates]
ASSUME BoundsAssumption == /\ VersionWorkers \in Nat /\ TemplateWorkers \in Nat
                           /\ SpecValidity \subseteq BOOLEAN /\ Ticks \subseteq Nat
                           /\ InService \subseteq Templates
                           /\ MaxDisturbances \in Nat
                           /\ Disturbances \subseteq AllDisturbances

VARIABLES
  tmpl,       \* API server: the model templates
  ver,        \* API server: the model template versions
  tcache,     \* informer cache of templates
  vcache,     \* informer cache of versions
  tqueue,     \* keys waiting in the template controller's queue
  vqueue,     \* keys waiting in the version controller's queue
  tjob,       \* per template: the job of the worker that holds its key
  vjob,       \* per version: the job of the worker that holds its key
  counter,    \* latestVersionMap; a missing key reads as 0, as in Go
  now,        \* seconds, for creation timestamps
  disturbed   \* how many disturbances there were

vars == <<tmpl, ver, tcache, vcache, tqueue, vqueue, tjob, vjob, counter, now, disturbed>>

-----------------------------------------------------------------------------
\* The objects.

Condition == {"unset", "true", "false"}
Owner == {"none", "self", "template"}

TemplateObject ==
  [exists : BOOLEAN, deleting : BOOLEAN, finalizer : BOOLEAN, rv : Nat,
   defaultID : Versions \cup {None},         \* spec.defaultVersionId
   defaultVersion : Nat, latest : Nat,       \* status
   assigned : Condition,                     \* condition defaultVersionAssigned
   missing : Versions \cup {None}]           \* the version its message names

VersionObject ==
  [exists : BOOLEAN, rv : Nat, created : Nat,
   valid : BOOLEAN,                          \* a config can be generated from spec
   label : BOOLEAN, owner : Owner,
   configured : Condition,                   \* condition configured
   assigned : BOOLEAN, version : Nat]        \* condition assigned, status.version

NoTemplate == [exists |-> FALSE, deleting |-> FALSE, finalizer |-> FALSE, rv |-> 0,
               defaultID |-> None, defaultVersion |-> 0, latest |-> 0,
               assigned |-> "unset", missing |-> None]

NoVersion == [exists |-> FALSE, rv |-> 0, created |-> 0, valid |-> FALSE,
              label |-> FALSE, owner |-> "none", configured |-> "unset",
              assigned |-> FALSE, version |-> 0]

\* A job: where it is, the object it carries from handler to handler, the number
\* AssignVersion computed, and whether a handler has failed.
TemplateJob == [pc : {"idle", "sync", "lifecycle"},
                obj : TemplateObject, failed : BOOLEAN]
VersionJob == [pc : {"idle", "config", "update", "status", "count"},
               obj : VersionObject, n : Nat, failed : BOOLEAN]

IdleT == [pc |-> "idle", obj |-> NoTemplate, failed |-> FALSE]
IdleV == [pc |-> "idle", obj |-> NoVersion, n |-> 0, failed |-> FALSE]

Init ==
  /\ tmpl = [t \in Templates |->
               IF t \in InService
               THEN [NoTemplate EXCEPT !.exists = TRUE, !.finalizer = TRUE, !.rv = 1]
               ELSE NoTemplate]
  /\ tcache = tmpl
  /\ ver = [v \in Versions |-> NoVersion] /\ vcache = ver
  /\ tqueue = InService /\ vqueue = {}
  /\ tjob = [t \in Templates |-> IdleT]
  /\ vjob = [v \in Versions |-> IdleV]
  /\ counter = [t \in Templates |-> 0]
  /\ now = 0 /\ disturbed = 0

\* One more disturbance of the given kind.
Disturb(kind) ==
  /\ kind \in Disturbances /\ disturbed < MaxDisturbances
  /\ disturbed' = disturbed + 1

-----------------------------------------------------------------------------
\* Users.

CreateTemplate(t) ==
  /\ ~tmpl[t].exists
  /\ tmpl' = [tmpl EXCEPT ![t] = Changed(tmpl[t], [NoTemplate EXCEPT !.exists = TRUE])]
  /\ UNCHANGED <<ver, tcache, vcache, tqueue, vqueue, tjob, vjob, counter, now, disturbed>>

\* An object with a finalizer is only marked, until the finalizer is removed.
DeleteTemplate(t) ==
  /\ tmpl[t].exists /\ ~tmpl[t].deleting
  /\ Disturb("deleteTemplate")
  /\ tmpl' = [tmpl EXCEPT ![t] =
                IF tmpl[t].finalizer THEN Changed(tmpl[t], [tmpl[t] EXCEPT !.deleting = TRUE])
                                     ELSE Removed(tmpl[t])]
  /\ UNCHANGED <<ver, tcache, vcache, tqueue, vqueue, tjob, vjob, counter, now>>

ChooseDefault(t, v) ==
  /\ tmpl[t].exists /\ tmpl[t].defaultID # v
  /\ Disturb("chooseDefault")
  /\ tmpl' = [tmpl EXCEPT ![t] = Changed(tmpl[t], [tmpl[t] EXCEPT !.defaultID = v])]
  /\ UNCHANGED <<ver, tcache, vcache, tqueue, vqueue, tjob, vjob, counter, now>>

\* A name is used once.  Creation timestamps have a resolution of a second.
CreateVersion(v, valid, tick) ==
  /\ ver[v].rv = 0
  /\ now' = now + tick
  /\ ver' = [ver EXCEPT ![v] = Changed(ver[v], [NoVersion EXCEPT !.exists = TRUE,
                                                  !.valid = valid, !.created = now + tick])]
  /\ UNCHANGED <<tmpl, tcache, vcache, tqueue, vqueue, tjob, vjob, counter, disturbed>>

DeleteVersion(v) ==
  /\ ver[v].exists
  /\ Disturb("deleteVersion")
  /\ ver' = [ver EXCEPT ![v] = Removed(ver[v])]
  /\ UNCHANGED <<tmpl, tcache, vcache, tqueue, vqueue, tjob, vjob, counter, now>>

EditVersion(v) ==
  /\ ver[v].exists
  /\ Disturb("editVersion")
  /\ ver' = [ver EXCEPT ![v] = Changed(ver[v], [ver[v] EXCEPT !.valid = ~ver[v].valid])]
  /\ UNCHANGED <<tmpl, tcache, vcache, tqueue, vqueue, tjob, vjob, counter, now>>

-----------------------------------------------------------------------------
\* The informers: the cache catches up and the key is enqueued.

SyncTemplate(t) ==
  /\ tcache[t] # tmpl[t]
  /\ tcache' = [tcache EXCEPT ![t] = tmpl[t]]
  /\ tqueue' = tqueue \cup {t}
  /\ UNCHANGED <<tmpl, ver, vcache, vqueue, tjob, vjob, counter, now, disturbed>>

SyncVersion(v) ==
  /\ vcache[v] # ver[v]
  /\ vcache' = [vcache EXCEPT ![v] = ver[v]]
  /\ vqueue' = vqueue \cup {v}
  /\ UNCHANGED <<tmpl, ver, tcache, tqueue, tjob, vjob, counter, now, disturbed>>

-----------------------------------------------------------------------------
\* The workers of the version queue.

BusyVersions == {v \in Versions : vjob[v].pc # "idle"}

\* A worker takes a key that no other worker holds.
TakeVersion(v) ==
  /\ v \in vqueue /\ vjob[v].pc = "idle"
  /\ Cardinality(BusyVersions) < VersionWorkers
  /\ vqueue' = vqueue \ {v}

\* The job ends; a failed one is queued again.
EndVersion(v, failed) ==
  /\ vjob' = [vjob EXCEPT ![v] = IdleV]
  /\ vqueue' = IF failed THEN vqueue \cup {v} ELSE vqueue

\* Submit writes the copy new of v.  Either it is refused, or stored and
\* answered, or stored and the answer lost: the caller sees ok or an error.
Submit(v, new, ok) ==
  \/ /\ ok /\ Accepts(ver[v], new)
     /\ ver' = [ver EXCEPT ![v] = Stored(ver[v], new)]
     /\ UNCHANGED disturbed
  \/ /\ ~ok /\ ~Accepts(ver[v], new)
     /\ UNCHANGED <<ver, disturbed>>
  \/ /\ ~ok /\ Accepts(ver[v], new)
     /\ ver' = [ver EXCEPT ![v] = Stored(ver[v], new)]
     /\ Disturb("lostReply")

\* The job goes on to the handler at pc, with the object the last one returned.
Hand(v, pc, obj, failed) ==
  vjob' = [vjob EXCEPT ![v] = [pc |-> pc, obj |-> obj, n |-> vjob[v].n,
                               failed |-> vjob[v].failed \/ failed]]

\* Takes the key; adds the label and an owner reference, which names the version
\* itself.  For a key that is not in the cache every handler gets nil and returns.
OnChange(v) ==
  LET obj == vcache[v]
      new == [obj EXCEPT !.label = TRUE,
                         !.owner = IF obj.owner = "none" THEN "self" ELSE obj.owner]
  IN /\ TakeVersion(v)
     /\ \/ /\ ~obj.exists
           /\ UNCHANGED <<ver, vjob, disturbed>>
        \/ /\ obj.exists /\ new = obj
           /\ Hand(v, "config", obj, FALSE)
           /\ UNCHANGED <<ver, disturbed>>
        \/ /\ obj.exists /\ new # obj
           /\ \E ok \in BOOLEAN :
                /\ Submit(v, new, ok)
                /\ Hand(v, "config", IF ok THEN ver'[v] ELSE obj, ~ok)
     /\ UNCHANGED <<tmpl, tcache, vcache, tqueue, tjob, counter, now>>

\* Generates the Ray LLM config once; a spec it cannot be generated from is
\* recorded in the condition.
ConfigModelDeployment(v) ==
  LET obj == vjob[v].obj
      new == [obj EXCEPT !.configured =
                IF obj.configured = "true" \/ obj.valid THEN "true" ELSE "false"]
  IN /\ vjob[v].pc = "config"
     /\ \/ /\ new = obj
           /\ Hand(v, "update", obj, FALSE)
           /\ UNCHANGED <<ver, disturbed>>
        \/ /\ new # obj
           /\ \E ok \in BOOLEAN :
                /\ Submit(v, new, ok)
                /\ Hand(v, "update", IF ok THEN ver'[v] ELSE obj, ~ok)
     /\ UNCHANGED <<tmpl, tcache, vcache, tqueue, vqueue, tjob, counter, now>>

\* Mutants of NeedsNumber: the condition is not looked at; the version has to be
\* configured first.
NeedsNumberAlways(obj) == TRUE

NeedsNumberConfigured(obj) == ~obj.assigned /\ obj.configured = "true"

NeedsNumber(obj) == ~obj.assigned

\* AssignVersion, up to the number: nothing to do when the copy is assigned, an
\* error while the template is not in the cache; else Update with the label and
\* owner, whose result is dropped, and then latestVersionMap is read, unlocked.
AssignVersion(v) ==
  LET obj == vjob[v].obj
      t   == TemplateOf[v]
      new == [obj EXCEPT !.label = TRUE,
                         !.owner = IF obj.owner = "none" THEN "template" ELSE obj.owner]
  IN /\ vjob[v].pc = "update"
     /\ \/ /\ ~NeedsNumber(obj)
           /\ EndVersion(v, vjob[v].failed)
           /\ UNCHANGED <<ver, disturbed>>
        \/ /\ NeedsNumber(obj) /\ ~tcache[t].exists
           /\ EndVersion(v, TRUE)
           /\ UNCHANGED <<ver, disturbed>>
        \/ /\ NeedsNumber(obj) /\ tcache[t].exists
           /\ Submit(v, new, FALSE)
           /\ EndVersion(v, TRUE)
        \/ /\ NeedsNumber(obj) /\ tcache[t].exists
           /\ Submit(v, new, TRUE)
           /\ vjob' = [vjob EXCEPT ![v] = [pc |-> "status", obj |-> new, n |-> counter[t] + 1,
                                           failed |-> vjob[v].failed]]
           /\ UNCHANGED vqueue
     /\ UNCHANGED <<tmpl, tcache, vcache, tqueue, tjob, counter, now>>

\* AssignVersion, the UpdateStatus of the number, with the version the copy had
\* before the Update above.
StoreVersionNumber(v) ==
  LET new == [vjob[v].obj EXCEPT !.assigned = TRUE, !.version = vjob[v].n]
  IN /\ vjob[v].pc = "status"
     /\ \/ /\ Submit(v, new, TRUE)
           /\ Hand(v, "count", NoVersion, FALSE)
           /\ UNCHANGED vqueue
        \/ /\ Submit(v, new, FALSE)
           /\ EndVersion(v, TRUE)
     /\ UNCHANGED <<tmpl, tcache, vcache, tqueue, tjob, counter, now>>

\* Mutants of CountVersion: the version is enqueued in place of its template; the
\* template is not enqueued.
CountVersionWrongKey(v) ==
  /\ vjob[v].pc = "count"
  /\ counter' = [counter EXCEPT ![TemplateOf[v]] = @ + 1]
  /\ tqueue' = tqueue \cup {v}
  /\ EndVersion(v, vjob[v].failed)
  /\ UNCHANGED <<tmpl, ver, tcache, vcache, tjob, now, disturbed>>

CountVersionSilent(v) ==
  /\ vjob[v].pc = "count"
  /\ counter' = [counter EXCEPT ![TemplateOf[v]] = @ + 1]
  /\ EndVersion(v, vjob[v].failed)
  /\ UNCHANGED <<tmpl, ver, tcache, vcache, tqueue, tjob, now, disturbed>>

\* AssignVersion, the end: latestVersionMap[t]++ and the template is enqueued.
CountVersion(v) ==
  LET t == TemplateOf[v]
  IN /\ vjob[v].pc = "count"
     /\ counter' = [counter EXCEPT ![t] = @ + 1]
     /\ tqueue' = tqueue \cup {t}
     /\ EndVersion(v, vjob[v].failed)
     /\ UNCHANGED <<tmpl, ver, tcache, vcache, tjob, now, disturbed>>

-----------------------------------------------------------------------------
\* The workers of the template queue.

BusyTemplates == {t \in Templates : tjob[t].pc # "idle"}

TakeTemplate(t) ==
  /\ t \in tqueue /\ tjob[t].pc = "idle"
  /\ Cardinality(BusyTemplates) < TemplateWorkers
  /\ tqueue' = tqueue \ {t}

EndTemplate(t, failed) ==
  /\ tjob' = [tjob EXCEPT ![t] = IdleT]
  /\ tqueue' = IF failed THEN tqueue \cup {t} ELSE tqueue

\* As Submit, for a template.
SubmitTemplate(t, new, ok) ==
  \/ /\ ok /\ Accepts(tmpl[t], new)
     /\ tmpl' = [tmpl EXCEPT ![t] = Stored(tmpl[t], new)]
     /\ UNCHANGED disturbed
  \/ /\ ~ok /\ ~Accepts(tmpl[t], new)
     /\ UNCHANGED <<tmpl, disturbed>>
  \/ /\ ~ok /\ Accepts(tmpl[t], new)
     /\ tmpl' = [tmpl EXCEPT ![t] = Stored(tmpl[t], new)]
     /\ Disturb("lostReply")

HandTemplate(t, pc, obj, failed) ==
  tjob' = [tjob EXCEPT ![t] = [pc |-> pc, obj |-> obj, failed |-> tjob[t].failed \/ failed]]

\* No call: the next handler gets the same object.
Skip(t, pc, obj, failed) == HandTemplate(t, pc, obj, failed) /\ UNCHANGED <<tmpl, disturbed>>

\* The first of the cached versions of t in the order of
\* templateVersionByCreationTimestamp that is assigned: Less puts the version
\* created later first, and orders equal timestamps by name.
CandidatesUnchecked(t) ==   \* mutant: numbered or not
  {v \in Versions : vcache[v].exists /\ vcache[v].label /\ TemplateOf[v] = t}

Candidates(t) == {v \in Versions : /\ vcache[v].exists /\ vcache[v].label
                                   /\ TemplateOf[v] = t /\ vcache[v].assigned}

SortsBefore(u, v) ==
  IF vcache[u].created = vcache[v].created THEN u < v
                                           ELSE vcache[v].created < vcache[u].created

IsFirstTemplateVersion(t, v) ==
  v \in Candidates(t) /\ \A u \in Candidates(t) \ {v} : SortsBefore(v, u)

\* SetDefaultVersion of a template without a default: Update with the first version.
PickDefault(t) ==
  LET obj == tcache[t]
  IN /\ obj.defaultID = None
     /\ \/ /\ Candidates(t) = {}
           /\ Skip(t, "sync", obj, FALSE)
        \/ \E v \in Versions, ok \in BOOLEAN :
             /\ IsFirstTemplateVersion(t, v)
             /\ SubmitTemplate(t, [obj EXCEPT !.defaultID = v], ok)
             /\ HandTemplate(t, "sync", IF ok THEN tmpl'[t] ELSE obj, ~ok)

\* SetDefaultVersion when the default is not in the cache: the condition says so
\* once, and a call that succeeds hides the error; then the error is returned.
DefaultNotFound(t) ==
  LET obj == tcache[t]
      new == [obj EXCEPT !.assigned = "false", !.missing = obj.defaultID]
  IN /\ obj.defaultID # None /\ ~vcache[obj.defaultID].exists
     /\ \/ /\ new = obj
           /\ Skip(t, "sync", obj, TRUE)
        \/ /\ new # obj
           /\ \E ok \in BOOLEAN : /\ SubmitTemplate(t, new, ok)
                                  /\ HandTemplate(t, "sync", obj, ~ok)

\* SetDefaultVersion when it is: its number is copied into the status.  IsFalse of
\* a condition that was never set is FALSE, so a version that has no number yet
\* passes with version 0.
RecordDefault(t) ==
  LET obj == tcache[t]
      n   == vcache[obj.defaultID].version
      new == [obj EXCEPT !.defaultVersion = n, !.assigned = "true", !.missing = None]
  IN /\ obj.defaultID # None /\ vcache[obj.defaultID].exists
     /\ \/ /\ obj.defaultVersion = n /\ obj.assigned = "true"
           /\ Skip(t, "sync", obj, FALSE)
        \/ /\ ~(obj.defaultVersion = n /\ obj.assigned = "true")
           /\ \E ok \in BOOLEAN : /\ SubmitTemplate(t, new, ok)
                                  /\ HandTemplate(t, "sync", IF ok THEN tmpl'[t] ELSE obj, ~ok)

\* Takes the key and sets the default.
SetDefaultVersion(t) ==
  /\ TakeTemplate(t)
  /\ \/ /\ ~tcache[t].exists
        /\ UNCHANGED <<tmpl, tjob, disturbed>>
     \/ /\ tcache[t].exists /\ tcache[t].deleting
        /\ Skip(t, "sync", tcache[t], FALSE)
     \/ /\ tcache[t].exists /\ ~tcache[t].deleting
        /\ PickDefault(t) \/ DefaultNotFound(t) \/ RecordDefault(t)
  /\ UNCHANGED <<ver, tcache, vcache, vqueue, vjob, counter, now>>

\* Copies latestVersionMap[t], read unlocked, into status.latestVersion.
SyncLatestVersion(t) ==
  LET obj == tjob[t].obj
      new == [obj EXCEPT !.latest = counter[t]]
  IN /\ tjob[t].pc = "sync"
     /\ \/ /\ obj.deleting \/ new = obj
           /\ Skip(t, "lifecycle", obj, FALSE)
        \/ /\ ~obj.deleting /\ new # obj
           /\ \E ok \in BOOLEAN :
                /\ SubmitTemplate(t, new, ok)
                /\ HandTemplate(t, "lifecycle", IF ok THEN tmpl'[t] ELSE obj, ~ok)
     /\ UNCHANGED <<ver, tcache, vcache, tqueue, vqueue, vjob, counter, now>>

\* What OnRemove registers, on an object that is not being deleted: the finalizer.
AddFinalizer(t) ==
  LET new == [tjob[t].obj EXCEPT !.finalizer = TRUE]
  IN /\ tjob[t].pc = "lifecycle" /\ ~tjob[t].obj.deleting
     /\ \/ /\ new = tjob[t].obj
           /\ EndTemplate(t, tjob[t].failed)
           /\ UNCHANGED <<tmpl, disturbed>>
        \/ /\ new # tjob[t].obj
           /\ \E ok \in BOOLEAN : /\ SubmitTemplate(t, new, ok)
                                  /\ EndTemplate(t, tjob[t].failed \/ ~ok)
     /\ UNCHANGED <<ver, tcache, vcache, vqueue, vjob, counter, now>>

\* DeleteLatestVersion drops the counter, and the finalizer is removed, which
\* lets the template go.  (A lost reply to that would only bring back a key for
\* which there is nothing to do.)
DeleteLatestVersion(t) ==
  LET obj == tjob[t].obj
  IN /\ tjob[t].pc = "lifecycle" /\ obj.deleting
     /\ counter' = [counter EXCEPT ![t] = 0]
     /\ \/ /\ Accepts(tmpl[t], obj)
           /\ tmpl' = [tmpl EXCEPT ![t] = Removed(tmpl[t])]
           /\ EndTemplate(t, tjob[t].failed)
        \/ /\ ~Accepts(tmpl[t], obj)
           /\ UNCHANGED tmpl
           /\ EndTemplate(t, TRUE)
     /\ UNCHANGED <<ver, tcache, vcache, vqueue, vjob, now, disturbed>>

-----------------------------------------------------------------------------
\* A new leader: the jobs and the queues are gone, the informers list everything
\* and enqueue it, and initLatestVersionMap takes the highest number of the
\* assigned versions of each template from a live list.

NumbersOf(t) == {ver[v].version : v \in {u \in Versions : /\ TemplateOf[u] = t
                                                          /\ ver[u].exists /\ ver[u].assigned}}

\* Mutants of IsLatestVersionMap: the last version listed wins; nothing is listed.
SomeVersionMap(c) == \A t \in Templates : c[t] \in NumbersOf(t) \cup {0}

EmptyVersionMap(c) == \A t \in Templates : c[t] = 0

IsLatestVersionMap(c) ==
  \A t \in Templates : /\ c[t] \in NumbersOf(t) \cup {0}
                       /\ \A n \in NumbersOf(t) : n <= c[t]

Restart ==
  /\ Disturb("restart")
  /\ \E c \in [Templates -> {ver[v].version : v \in Versions} \cup {0}] :
       IsLatestVersionMap(c) /\ counter' = c
  /\ tcache' = tmpl /\ vcache' = ver
  /\ tqueue' = {t \in Templates : tmpl[t].exists}
  /\ vqueue' = {v \in Versions : ver[v].exists}
  /\ tjob' = [t \in Templates |-> IdleT]
  /\ vjob' = [v \in Versions |-> IdleV]
  /\ UNCHANGED <<tmpl, ver, now>>

-----------------------------------------------------------------------------
VersionStep(v) == \/ ConfigModelDeployment(v) \/ AssignVersion(v)
                  \/ StoreVersionNumber(v) \/ CountVersion(v)

TemplateStep(t) == \/ SyncLatestVersion(t)
                   \/ AddFinalizer(t) \/ DeleteLatestVersion(t)

UserStep ==
  \/ \E t \in Templates : CreateTemplate(t) \/ DeleteTemplate(t)
  \/ \E t \in Templates, v \in Versions : ChooseDefault(t, v)
  \/ \E v \in Versions, valid \in SpecValidity, tick \in Ticks : CreateVersion(v, valid, tick)
  \/ \E v \in Versions : DeleteVersion(v) \/ EditVersion(v)

Next ==
  \/ UserStep
  \/ \E t \in Templates : SyncTemplate(t) \/ SetDefaultVersion(t) \/ TemplateStep(t)
  \/ \E v \in Versions : SyncVersion(v) \/ OnChange(v) \/ VersionStep(v)
  \/ Restart

Spec == Init /\ [][Next]_vars

\* The informers and the workers keep going.  Keys that fail are queued behind
\* the others, so a worker gets to every key that keeps coming back.
Fairness ==
  /\ \A t \in Templates : /\ WF_vars(SyncTemplate(t)) /\ SF_vars(SetDefaultVersion(t))
                          /\ WF_vars(TemplateStep(t))
  /\ \A v \in Versions : /\ WF_vars(SyncVersion(v)) /\ SF_vars(OnChange(v))
                         /\ WF_vars(VersionStep(v))

FairSpec == Spec /\ Fairness

-----------------------------------------------------------------------------
(***************************************************************************)
(* Properties.                                                             *)
(***************************************************************************)

\* Every variable holds what the code can put there: the type of the shared
\* state of both controllers (template_controller.go, templateversion_controller.go).
TypeOK ==
  /\ tmpl \in [Templates -> TemplateObject] /\ tcache \in [Templates -> TemplateObject]
  /\ ver \in [Versions -> VersionObject] /\ vcache \in [Versions -> VersionObject]
  /\ tqueue \subseteq Templates /\ vqueue \subseteq Versions
  /\ tjob \in [Templates -> TemplateJob] /\ vjob \in [Versions -> VersionJob]
  /\ counter \in [Templates -> Nat]
  /\ now \in Nat /\ disturbed \in 0..MaxDisturbances

Numbered(v) == ver[v].exists /\ ver[v].assigned

\* latestVersionMap is never behind the numbers it handed out: a number that is
\* stored is at most the counter, or one more while the ++ that follows its
\* UpdateStatus is pending.  AssignVersion writes the number before it counts
\* it, and a new leader rebuilds the map from the API server.
CounterCovers ==
  \A v \in Versions :
    Numbered(v) => ver[v].version <= counter[TemplateOf[v]]
                                     + (IF vjob[v].pc = "count" THEN 1 ELSE 0)

\* "Details of a model template will be specified in model template version with an
\* auto-generated version number": two versions of a template never have the same
\* number, although AssignVersion reads the counter, writes the number and counts it
\* in three steps and several workers do so at once.
UniqueNumbers ==
  \A u, v \in Versions :
    (u # v /\ TemplateOf[u] = TemplateOf[v] /\ Numbered(u) /\ Numbered(v))
      => ver[u].version # ver[v].version

\* No job, however stale its copy, gives a version that has a number another one:
\* AssignVersion relies on the resource version to notice.
NumberNeverChanges ==
  [][\A v \in Versions : (Numbered(v) /\ ver'[v].exists)
        => ver'[v].assigned /\ ver'[v].version = ver[v].version]_vars

\* The status.latestVersion of a template that exists never goes down, or only to what
\* a new leader found: then it is still no lower than any number that is stored, but
\* for one the workers have not counted yet (SyncLatestVersion, initLatestVersionMap).
LatestNeverFalls ==
  [][\A t \in Templates : (tmpl[t].exists /\ tmpl'[t].exists)
        => \/ tmpl[t].latest <= tmpl'[t].latest
           \/ \A v \in Versions : (TemplateOf[v] = t /\ Numbered(v) /\ vjob[v].pc # "count")
                                    => ver[v].version <= tmpl'[t].latest]_vars

\* A default the controller picks is a numbered version of the same template,
\* or one that was deleted before the cache heard of it (SetDefaultVersion).
PickedDefaultIsNumbered ==
  [][\A t \in Templates :
       (tjob[t].pc # tjob'[t].pc /\ tmpl'[t].defaultID # tmpl[t].defaultID)
         => LET v == tmpl'[t].defaultID
            IN /\ TemplateOf[v] = t
               /\ Numbered(v) \/ ~ver[v].exists]_vars

\* A version whose template exists gets its number, whatever conflicts, lost
\* replies and restarts AssignVersion meets and also when no config could be
\* generated for it, unless one of them is deleted.
EventuallyNumbered ==
  \A v \in Versions :
    (ver[v].exists /\ tmpl[TemplateOf[v]].exists)
      ~> (Numbered(v) \/ ~ver[v].exists \/ ~tmpl[TemplateOf[v]].exists)

\* status.latestVersion settles on latestVersionMap: no increment is left unsynced
\* by SyncLatestVersion once users and failures leave the system alone.
LatestCatchesUp ==
  \A t \in Templates : <>[](tmpl[t].exists => tmpl[t].latest = counter[t])

\* Nothing is queued, running or unseen: no step is left to the controllers.
AtRest ==
  /\ tqueue = {} /\ vqueue = {} /\ tcache = tmpl /\ vcache = ver
  /\ \A t \in Templates : tjob[t].pc = "idle"
  /\ \A v \in Versions : vjob[v].pc = "idle"

\* Whatever failed, overlapped or was deleted, when the controllers are done every
\* version has its number, no template is left half deleted, and every template shows
\* the latest number: no error of AssignVersion or SyncLatestVersion, no increment of
\* latestVersionMap and no conflict that a handler hides goes without a later job.
NothingOwed ==
  AtRest => /\ \A v \in Versions : ver[v].exists => ver[v].assigned
            /\ \A t \in Templates : tmpl[t].exists => /\ ~tmpl[t].deleting
                                                      /\ tmpl[t].latest = counter[t]

\* "set the first version as the default version if the default version id is
\* empty": when the controllers are done, a template with a numbered version has
\* a default (SetDefaultVersion).
DefaultIsSetAtRest ==
  AtRest => \A t \in Templates, v \in Versions :
              (tmpl[t].exists /\ TemplateOf[v] = t /\ Numbered(v))
                => tmpl[t].defaultID # None

-----------------------------------------------------------------------------
\* What the numbering promises, without its mechanism.

Numbering == INSTANCE VersionNumbering WITH
  number <- [v \in Versions |-> IF Numbered(v) THEN ver[v].version ELSE 0],
  pending <- [v \in Versions |-> IF vjob[v].pc = "status" THEN vjob[v].n ELSE 0],
  unfinished <- {v \in Versions : vjob[v].pc = "count"}

\* The controllers implement the abstract numbering of module VersionNumbering, however
\* many workers run AssignVersion at once and however often the leader changes: a
\* number is above all that were counted before the counter was read for it.
ImplementsNumbering == Numbering!Spec
==============================================================================
