------------------------- MODULE ModelTemplateProofs -------------------------
(***************************************************************************)
(* Theorems about ModelTemplate, for every set of templates and versions,  *)
(* every number of workers and any number of disturbances.                 *)
(***************************************************************************)
EXTENDS ModelTemplate, FiniteSetTheorems, TLAPS

USE DEF None

-----------------------------------------------------------------------------
\* What the API server stores is an object, for both kinds.

LEMMA StoredVersion ==
  ASSUME NEW cur \in VersionObject, NEW copy \in VersionObject
  PROVE  Stored(cur, copy) \in VersionObject
BY DEF Stored, VersionObject

LEMMA StoredTemplate ==
  ASSUME NEW cur \in TemplateObject, NEW copy \in TemplateObject
  PROVE  Stored(cur, copy) \in TemplateObject
BY DEF Stored, TemplateObject

LEMMA ChangedVersion ==
  ASSUME NEW cur \in VersionObject, NEW new \in VersionObject
  PROVE  Changed(cur, new) \in VersionObject /\ Removed(cur) \in VersionObject
<1>1. cur.rv + 1 \in Nat
  BY DEF VersionObject
<1>2. ASSUME NEW n \in Nat
      PROVE  [new EXCEPT !.rv = n] \in VersionObject
  BY DEF VersionObject
<1>3. ASSUME NEW n \in Nat
      PROVE  [cur EXCEPT !.exists = FALSE, !.rv = n] \in VersionObject
  BY DEF VersionObject
<1> QED BY <1>1, <1>2, <1>3 DEF Changed, Removed

LEMMA ChangedTemplate ==
  ASSUME NEW cur \in TemplateObject, NEW new \in TemplateObject
  PROVE  Changed(cur, new) \in TemplateObject /\ Removed(cur) \in TemplateObject
<1>1. cur.rv + 1 \in Nat
  BY DEF TemplateObject
<1>2. ASSUME NEW n \in Nat
      PROVE  [new EXCEPT !.rv = n] \in TemplateObject
  BY DEF TemplateObject
<1>3. ASSUME NEW n \in Nat
      PROVE  [cur EXCEPT !.exists = FALSE, !.rv = n] \in TemplateObject
  BY DEF TemplateObject
<1> QED BY <1>1, <1>2, <1>3 DEF Changed, Removed

LEMMA DisturbType ==
  ASSUME NEW kind, disturbed \in 0..MaxDisturbances, Disturb(kind)
  PROVE  disturbed' \in 0..MaxDisturbances
BY BoundsAssumption DEF Disturb

LEMMA SubmitType ==
  ASSUME TypeOK, NEW v \in Versions, NEW new \in VersionObject, NEW ok, Submit(v, new, ok)
  PROVE  /\ ver' \in [Versions -> VersionObject]
         /\ disturbed' \in 0..MaxDisturbances
<1>1. ver[v] \in VersionObject
  BY DEF TypeOK
<1>2. Stored(ver[v], new) \in VersionObject
  BY <1>1, StoredVersion
<1>3. ver' \in [Versions -> VersionObject]
  BY <1>2 DEF Submit, TypeOK
<1>4. disturbed' \in 0..MaxDisturbances
  BY DisturbType DEF Submit, TypeOK
<1> QED BY <1>3, <1>4

LEMMA SubmitTemplateType ==
  ASSUME TypeOK, NEW t \in Templates, NEW new \in TemplateObject, NEW ok,
         SubmitTemplate(t, new, ok)
  PROVE  /\ tmpl' \in [Templates -> TemplateObject]
         /\ disturbed' \in 0..MaxDisturbances
<1>1. tmpl[t] \in TemplateObject
  BY DEF TypeOK
<1>2. Stored(tmpl[t], new) \in TemplateObject
  BY <1>1, StoredTemplate
<1>3. tmpl' \in [Templates -> TemplateObject]
  BY <1>2 DEF SubmitTemplate, TypeOK
<1>4. disturbed' \in 0..MaxDisturbances
  BY DisturbType DEF SubmitTemplate, TypeOK
<1> QED BY <1>3, <1>4

\* What the jobs become.
LEMMA IdleTypes == IdleT \in TemplateJob /\ IdleV \in VersionJob
BY DEF IdleT, IdleV, TemplateJob, VersionJob, NoTemplate, NoVersion, TemplateObject,
       VersionObject, Condition, Owner

LEMMA HandType ==
  ASSUME TypeOK, NEW v \in Versions, NEW pc \in {"config", "update", "count"},
         NEW obj \in VersionObject, NEW failed \in BOOLEAN, Hand(v, pc, obj, failed)
  PROVE  vjob' \in [Versions -> VersionJob]
<1>1. vjob[v] \in VersionJob
  BY DEF TypeOK
<1>2. [pc |-> pc, obj |-> obj, n |-> vjob[v].n, failed |-> vjob[v].failed \/ failed] \in VersionJob
  BY <1>1 DEF VersionJob
<1> QED BY <1>2 DEF Hand, TypeOK

LEMMA HandTemplateType ==
  ASSUME TypeOK, NEW t \in Templates, NEW pc \in {"sync", "lifecycle"},
         NEW obj \in TemplateObject, NEW failed \in BOOLEAN, HandTemplate(t, pc, obj, failed)
  PROVE  tjob' \in [Templates -> TemplateJob]
<1>1. (tjob[t].failed \/ failed) \in BOOLEAN
  OBVIOUS
<1>2. [pc |-> pc, obj |-> obj, failed |-> tjob[t].failed \/ failed] \in TemplateJob
  BY <1>1 DEF TemplateJob
<1> QED BY <1>2 DEF HandTemplate, TypeOK

LEMMA EndVersionType ==
  ASSUME TypeOK, NEW v \in Versions, NEW failed, EndVersion(v, failed)
  PROVE  vjob' \in [Versions -> VersionJob] /\ vqueue' \subseteq Versions
BY IdleTypes DEF EndVersion, TypeOK

LEMMA EndTemplateType ==
  ASSUME TypeOK, NEW t \in Templates, NEW failed, EndTemplate(t, failed)
  PROVE  tjob' \in [Templates -> TemplateJob] /\ tqueue' \subseteq Templates
BY IdleTypes DEF EndTemplate, TypeOK

\* The copies a version handler writes are objects.
LEMMA LabelUpdate ==
  ASSUME NEW obj \in VersionObject, NEW o \in Owner
  PROVE  [obj EXCEPT !.label = TRUE, !.owner = o] \in VersionObject
BY DEF VersionObject

LEMMA ConfigUpdate ==
  ASSUME NEW obj \in VersionObject, NEW c \in Condition
  PROVE  [obj EXCEPT !.configured = c] \in VersionObject
BY DEF VersionObject

LEMMA NumberUpdate ==
  ASSUME NEW obj \in VersionObject, NEW n \in Nat
  PROVE  [obj EXCEPT !.assigned = TRUE, !.version = n] \in VersionObject
BY DEF VersionObject

LEMMA TypeInit == Init => TypeOK
<1> SUFFICES ASSUME Init PROVE TypeOK
  OBVIOUS
<1>1. /\ NoTemplate \in TemplateObject /\ NoVersion \in VersionObject
      /\ [NoTemplate EXCEPT !.exists = TRUE, !.finalizer = TRUE, !.rv = 1] \in TemplateObject
  BY DEF NoTemplate, NoVersion, TemplateObject, VersionObject, Condition, Owner
<1>2. disturbed \in 0..MaxDisturbances
  BY BoundsAssumption DEF Init
<1>3. tmpl \in [Templates -> TemplateObject] /\ ver \in [Versions -> VersionObject]
  BY <1>1 DEF Init
<1>4. /\ tqueue \subseteq Templates /\ vqueue \subseteq Versions
      /\ counter \in [Templates -> Nat] /\ now \in Nat
      /\ tjob \in [Templates -> TemplateJob] /\ vjob \in [Versions -> VersionJob]
  BY IdleTypes, BoundsAssumption DEF Init
<1> QED BY <1>2, <1>3, <1>4 DEF Init, TypeOK

LEMMA TypeUser == TypeOK /\ UserStep => TypeOK'
<1> SUFFICES ASSUME TypeOK, UserStep PROVE TypeOK'
  OBVIOUS
<1>1. ASSUME NEW t \in Templates, CreateTemplate(t) PROVE TypeOK'
  <2>1. tmpl[t] \in TemplateObject /\ [NoTemplate EXCEPT !.exists = TRUE] \in TemplateObject
    BY DEF TypeOK, NoTemplate, TemplateObject, Condition
  <2>2. Changed(tmpl[t], [NoTemplate EXCEPT !.exists = TRUE]) \in TemplateObject
    BY <2>1, ChangedTemplate
  <2> QED BY <1>1, <2>2 DEF CreateTemplate, TypeOK
<1>2. ASSUME NEW t \in Templates, DeleteTemplate(t) PROVE TypeOK'
  <2>1. /\ Changed(tmpl[t], [tmpl[t] EXCEPT !.deleting = TRUE]) \in TemplateObject
        /\ Removed(tmpl[t]) \in TemplateObject
    <3>1. tmpl[t] \in TemplateObject
      BY DEF TypeOK
    <3>2. [tmpl[t] EXCEPT !.deleting = TRUE] \in TemplateObject
      BY <3>1 DEF TemplateObject
    <3> QED BY <3>1, <3>2, ChangedTemplate
  <2>2. disturbed' \in 0..MaxDisturbances
    BY <1>2, DisturbType DEF DeleteTemplate, TypeOK
  <2> QED BY <1>2, <2>1, <2>2 DEF DeleteTemplate, TypeOK
<1>3. ASSUME NEW t \in Templates, NEW v \in Versions, ChooseDefault(t, v) PROVE TypeOK'
  <2>1. Changed(tmpl[t], [tmpl[t] EXCEPT !.defaultID = v]) \in TemplateObject
    <3>1. tmpl[t] \in TemplateObject
      BY DEF TypeOK
    <3>2. [tmpl[t] EXCEPT !.defaultID = v] \in TemplateObject
      BY <3>1 DEF TemplateObject
    <3> QED BY <3>1, <3>2, ChangedTemplate
  <2>2. disturbed' \in 0..MaxDisturbances
    BY <1>3, DisturbType DEF ChooseDefault, TypeOK
  <2> QED BY <1>3, <2>1, <2>2 DEF ChooseDefault, TypeOK
<1>4. ASSUME NEW v \in Versions, NEW valid \in SpecValidity, NEW tick \in Ticks,
             CreateVersion(v, valid, tick)
      PROVE  TypeOK'
  <2>1. tick \in Nat /\ valid \in BOOLEAN /\ now + tick \in Nat
    BY BoundsAssumption DEF TypeOK
  <2>2. Changed(ver[v], [NoVersion EXCEPT !.exists = TRUE, !.valid = valid,
                                          !.created = now + tick]) \in VersionObject
    <3>1. ver[v] \in VersionObject
      BY DEF TypeOK
    <3>2. [NoVersion EXCEPT !.exists = TRUE, !.valid = valid, !.created = now + tick]
            \in VersionObject
      BY <2>1 DEF NoVersion, VersionObject, Condition, Owner
    <3> QED BY <3>1, <3>2, ChangedVersion
  <2> QED BY <1>4, <2>1, <2>2 DEF CreateVersion, TypeOK
<1>5. ASSUME NEW v \in Versions, DeleteVersion(v) PROVE TypeOK'
  <2>1. Removed(ver[v]) \in VersionObject
    BY ChangedVersion DEF TypeOK
  <2>2. disturbed' \in 0..MaxDisturbances
    BY <1>5, DisturbType DEF DeleteVersion, TypeOK
  <2> QED BY <1>5, <2>1, <2>2 DEF DeleteVersion, TypeOK
<1>6. ASSUME NEW v \in Versions, EditVersion(v) PROVE TypeOK'
  <2>1. Changed(ver[v], [ver[v] EXCEPT !.valid = ~ver[v].valid]) \in VersionObject
    <3>1. ver[v] \in VersionObject
      BY DEF TypeOK
    <3>2. [ver[v] EXCEPT !.valid = ~ver[v].valid] \in VersionObject
      BY <3>1 DEF VersionObject
    <3> QED BY <3>1, <3>2, ChangedVersion
  <2>2. disturbed' \in 0..MaxDisturbances
    BY <1>6, DisturbType DEF EditVersion, TypeOK
  <2> QED BY <1>6, <2>1, <2>2 DEF EditVersion, TypeOK
<1> QED BY <1>1, <1>2, <1>3, <1>4, <1>5, <1>6 DEF UserStep

LEMMA TypeVersionWorker ==
  ASSUME TypeOK, NEW v \in Versions, OnChange(v) \/ VersionStep(v)
  PROVE  TypeOK'
<1>0. /\ vcache[v] \in VersionObject /\ vjob[v] \in VersionJob /\ vjob[v].obj \in VersionObject
      /\ vjob[v].n \in Nat /\ vjob[v].failed \in BOOLEAN
      /\ TemplateOf[v] \in Templates /\ counter[TemplateOf[v]] \in Nat
  BY TemplateOfAssumption DEF TypeOK, VersionJob
<1>1. CASE OnChange(v)
  <2> DEFINE obj == vcache[v]
             new == [obj EXCEPT !.label = TRUE,
                                !.owner = IF obj.owner = "none" THEN "self" ELSE obj.owner]
  <2>1. new \in VersionObject
    <3>1. (IF obj.owner = "none" THEN "self" ELSE obj.owner) \in Owner
      BY <1>0 DEF VersionObject, Owner
    <3> QED BY <1>0, <3>1, LabelUpdate
  <2>2. vqueue' \subseteq Versions
    BY <1>1 DEF OnChange, TakeVersion, TypeOK
  <2>3. /\ ver' \in [Versions -> VersionObject] /\ disturbed' \in 0..MaxDisturbances
        /\ vjob' \in [Versions -> VersionJob]
    <3>1. CASE UNCHANGED <<ver, vjob, disturbed>>
      BY <3>1 DEF TypeOK
    <3>2. CASE Hand(v, "config", obj, FALSE) /\ UNCHANGED <<ver, disturbed>>
      BY <3>2, <1>0, HandType DEF TypeOK
    <3>3. ASSUME NEW ok \in BOOLEAN, Submit(v, new, ok),
                 Hand(v, "config", IF ok THEN ver'[v] ELSE obj, ~ok)
          PROVE  <2>3
      <4>1. ver' \in [Versions -> VersionObject] /\ disturbed' \in 0..MaxDisturbances
        BY <3>3, <2>1, SubmitType
      <4>2. (IF ok THEN ver'[v] ELSE obj) \in VersionObject
        BY <4>1, <1>0
      <4> HIDE DEF obj
      <4>3. vjob' \in [Versions -> VersionJob]
        BY <3>3, <4>2, HandType
      <4> QED BY <4>1, <4>3
    <3> QED BY <1>1, <3>1, <3>2, <3>3 DEF OnChange
  <2> QED BY <1>1, <2>2, <2>3 DEF OnChange, TypeOK
<1>2. CASE ConfigModelDeployment(v)
  <2> DEFINE obj == vjob[v].obj
             new == [obj EXCEPT !.configured =
                       IF obj.configured = "true" \/ obj.valid THEN "true" ELSE "false"]
  <2>1. new \in VersionObject
    <3>1. (IF obj.configured = "true" \/ obj.valid THEN "true" ELSE "false") \in Condition
      BY DEF Condition
    <3> QED BY <1>0, <3>1, ConfigUpdate
  <2>2. /\ ver' \in [Versions -> VersionObject] /\ disturbed' \in 0..MaxDisturbances
        /\ vjob' \in [Versions -> VersionJob]
    <3>1. CASE Hand(v, "update", obj, FALSE) /\ UNCHANGED <<ver, disturbed>>
      BY <3>1, <1>0, HandType DEF TypeOK
    <3>2. ASSUME NEW ok \in BOOLEAN, Submit(v, new, ok),
                 Hand(v, "update", IF ok THEN ver'[v] ELSE obj, ~ok)
          PROVE  <2>2
      <4>1. ver' \in [Versions -> VersionObject] /\ disturbed' \in 0..MaxDisturbances
        BY <3>2, <2>1, SubmitType
      <4>2. (IF ok THEN ver'[v] ELSE obj) \in VersionObject
        BY <4>1, <1>0
      <4> HIDE DEF obj
      <4>3. vjob' \in [Versions -> VersionJob]
        BY <3>2, <4>2, HandType
      <4> QED BY <4>1, <4>3
    <3> QED BY <1>2, <3>1, <3>2 DEF ConfigModelDeployment
  <2> QED BY <1>2, <2>2 DEF ConfigModelDeployment, TypeOK
<1>3. CASE AssignVersion(v)
  <2> DEFINE obj == vjob[v].obj
             new == [obj EXCEPT !.label = TRUE,
                                !.owner = IF obj.owner = "none" THEN "template" ELSE obj.owner]
  <2>1. new \in VersionObject
    <3>1. (IF obj.owner = "none" THEN "template" ELSE obj.owner) \in Owner
      BY <1>0 DEF VersionObject, Owner
    <3> QED BY <1>0, <3>1, LabelUpdate
  <2>2. /\ ver' \in [Versions -> VersionObject] /\ disturbed' \in 0..MaxDisturbances
        /\ vjob' \in [Versions -> VersionJob] /\ vqueue' \subseteq Versions
    <3>1. ASSUME NEW failed, EndVersion(v, failed), UNCHANGED <<ver, disturbed>>
          PROVE  <2>2
      BY <3>1, EndVersionType DEF TypeOK
    <3>2. CASE Submit(v, new, FALSE) /\ EndVersion(v, TRUE)
      BY <3>2, <2>1, SubmitType, EndVersionType
    <3>3. CASE /\ Submit(v, new, TRUE)
               /\ vjob' = [vjob EXCEPT ![v] = [pc |-> "status", obj |-> new,
                             n |-> counter[TemplateOf[v]] + 1, failed |-> vjob[v].failed]]
               /\ UNCHANGED vqueue
      <4>1. [pc |-> "status", obj |-> new, n |-> counter[TemplateOf[v]] + 1,
             failed |-> vjob[v].failed] \in VersionJob
        BY <1>0, <2>1 DEF VersionJob
      <4>2. ver' \in [Versions -> VersionObject] /\ disturbed' \in 0..MaxDisturbances
        BY <3>3, <2>1, SubmitType
      <4> HIDE DEF new
      <4> QED BY <3>3, <4>1, <4>2 DEF TypeOK
    <3> QED BY <1>3, <3>1, <3>2, <3>3 DEF AssignVersion
  <2> QED BY <1>3, <2>2 DEF AssignVersion, TypeOK
<1>4. CASE StoreVersionNumber(v)
  <2> DEFINE new == [vjob[v].obj EXCEPT !.assigned = TRUE, !.version = vjob[v].n]
  <2>1. new \in VersionObject
    BY <1>0, NumberUpdate
  <2>2. NoVersion \in VersionObject
    BY DEF NoVersion, VersionObject, Condition, Owner
  <2>3. /\ ver' \in [Versions -> VersionObject] /\ disturbed' \in 0..MaxDisturbances
        /\ vjob' \in [Versions -> VersionJob] /\ vqueue' \subseteq Versions
    <3>1. CASE Submit(v, new, TRUE) /\ Hand(v, "count", NoVersion, FALSE) /\ UNCHANGED vqueue
      BY <3>1, <2>1, <2>2, SubmitType, HandType DEF TypeOK
    <3>2. CASE Submit(v, new, FALSE) /\ EndVersion(v, TRUE)
      BY <3>2, <2>1, SubmitType, EndVersionType
    <3> QED BY <1>4, <3>1, <3>2 DEF StoreVersionNumber
  <2> QED BY <1>4, <2>3 DEF StoreVersionNumber, TypeOK
<1>5. CASE CountVersion(v)
  <2>1. vjob' \in [Versions -> VersionJob] /\ vqueue' \subseteq Versions
    BY <1>5, EndVersionType DEF CountVersion
  <2>2. tqueue' \subseteq Templates /\ counter' \in [Templates -> Nat]
    BY <1>5, <1>0 DEF CountVersion, TypeOK
  <2> QED BY <1>5, <2>1, <2>2 DEF CountVersion, TypeOK
<1> QED BY <1>1, <1>2, <1>3, <1>4, <1>5 DEF VersionStep


\* A template handler that writes a template and hands on what the call returned,
\* or its own object.
LEMMA TemplateCall ==
  ASSUME TypeOK, NEW t \in Templates, NEW new \in TemplateObject, NEW obj \in TemplateObject,
         NEW ok \in BOOLEAN, NEW pc \in {"sync", "lifecycle"}, SubmitTemplate(t, new, ok),
         \/ HandTemplate(t, pc, IF ok THEN tmpl'[t] ELSE obj, ~ok)
         \/ HandTemplate(t, pc, obj, ~ok)
  PROVE  /\ tmpl' \in [Templates -> TemplateObject] /\ disturbed' \in 0..MaxDisturbances
         /\ tjob' \in [Templates -> TemplateJob]
<1>1. tmpl' \in [Templates -> TemplateObject] /\ disturbed' \in 0..MaxDisturbances
  BY SubmitTemplateType
<1>2. (IF ok THEN tmpl'[t] ELSE obj) \in TemplateObject
  BY <1>1
<1>3. tjob' \in [Templates -> TemplateJob]
  BY <1>2, HandTemplateType
<1> QED BY <1>1, <1>3

LEMMA SkipType ==
  ASSUME TypeOK, NEW t \in Templates, NEW obj \in TemplateObject, NEW failed \in BOOLEAN,
         NEW pc \in {"sync", "lifecycle"}, Skip(t, pc, obj, failed)
  PROVE  /\ tmpl' \in [Templates -> TemplateObject] /\ disturbed' \in 0..MaxDisturbances
         /\ tjob' \in [Templates -> TemplateJob]
BY HandTemplateType DEF Skip, TypeOK

LEMMA TypeTemplateWorker ==
  ASSUME TypeOK, NEW t \in Templates, SetDefaultVersion(t) \/ TemplateStep(t)
  PROVE  TypeOK'
<1>0. /\ tcache[t] \in TemplateObject /\ tmpl[t] \in TemplateObject
      /\ tjob[t] \in TemplateJob /\ tjob[t].obj \in TemplateObject
      /\ counter[t] \in Nat
  BY DEF TypeOK, TemplateJob
<1>1. CASE SetDefaultVersion(t)
  <2>1. /\ tmpl' \in [Templates -> TemplateObject] /\ disturbed' \in 0..MaxDisturbances
        /\ tjob' \in [Templates -> TemplateJob]
    <3>1. CASE UNCHANGED <<tmpl, tjob, disturbed>>
      BY <3>1 DEF TypeOK
    <3>2. CASE \E failed \in BOOLEAN : Skip(t, "sync", tcache[t], failed)
      BY <3>2, <1>0, SkipType
    <3>3. CASE PickDefault(t) /\ ~(\E failed \in BOOLEAN : Skip(t, "sync", tcache[t], failed))
      <4>1. PICK v \in Versions, ok \in BOOLEAN :
              /\ SubmitTemplate(t, [tcache[t] EXCEPT !.defaultID = v], ok)
              /\ HandTemplate(t, "sync", IF ok THEN tmpl'[t] ELSE tcache[t], ~ok)
        BY <3>3 DEF PickDefault
      <4>2. [tcache[t] EXCEPT !.defaultID = v] \in TemplateObject
        BY <1>0 DEF TemplateObject
      <4> QED BY <1>0, <4>1, <4>2, TemplateCall
    <3>4. CASE DefaultNotFound(t) /\ ~(\E failed \in BOOLEAN : Skip(t, "sync", tcache[t], failed))
      <4> DEFINE new == [tcache[t] EXCEPT !.assigned = "false", !.missing = tcache[t].defaultID]
      <4>1. PICK ok \in BOOLEAN : SubmitTemplate(t, new, ok) /\ HandTemplate(t, "sync", tcache[t], ~ok)
        BY <3>4 DEF DefaultNotFound
      <4>2. new \in TemplateObject
        BY <1>0 DEF TemplateObject, Condition
      <4> HIDE DEF new
      <4> QED BY <1>0, <4>1, <4>2, TemplateCall
    <3>5. CASE RecordDefault(t) /\ ~(\E failed \in BOOLEAN : Skip(t, "sync", tcache[t], failed))
      <4> DEFINE n == vcache[tcache[t].defaultID].version
                 new == [tcache[t] EXCEPT !.defaultVersion = n, !.assigned = "true", !.missing = None]
      <4>1. PICK ok \in BOOLEAN :
              /\ tcache[t].defaultID # None
              /\ SubmitTemplate(t, new, ok)
              /\ HandTemplate(t, "sync", IF ok THEN tmpl'[t] ELSE tcache[t], ~ok)
        BY <3>5 DEF RecordDefault
      <4>2. tcache[t].defaultID \in Versions
        BY <1>0, <4>1 DEF TemplateObject
      <4>3. n \in Nat
        BY <4>2 DEF TypeOK, VersionObject
      <4> HIDE DEF n
      <4>4. new \in TemplateObject
        BY <1>0, <4>3 DEF TemplateObject, Condition
      <4> HIDE DEF new
      <4> QED BY <1>0, <4>1, <4>4, TemplateCall
    <3> QED BY <1>1, <3>1, <3>2, <3>3, <3>4, <3>5 DEF SetDefaultVersion
  <2>2. tqueue' \subseteq Templates
    BY <1>1 DEF SetDefaultVersion, TakeTemplate, TypeOK
  <2> QED BY <1>1, <2>1, <2>2 DEF SetDefaultVersion, TypeOK
<1>2. CASE SyncLatestVersion(t)
  <2> DEFINE new == [tjob[t].obj EXCEPT !.latest = counter[t]]
  <2>1. new \in TemplateObject
    BY <1>0 DEF TemplateObject
  <2>2. /\ tmpl' \in [Templates -> TemplateObject] /\ disturbed' \in 0..MaxDisturbances
        /\ tjob' \in [Templates -> TemplateJob]
    <3>1. CASE Skip(t, "lifecycle", tjob[t].obj, FALSE)
      BY <1>0, <3>1, SkipType
    <3>2. CASE \E ok \in BOOLEAN :
                 /\ SubmitTemplate(t, new, ok)
                 /\ HandTemplate(t, "lifecycle", IF ok THEN tmpl'[t] ELSE tjob[t].obj, ~ok)
      <4> HIDE DEF new
      <4> QED BY <1>0, <2>1, <3>2, TemplateCall
    <3> QED BY <1>2, <3>1, <3>2 DEF SyncLatestVersion
  <2> QED BY <1>2, <2>2 DEF SyncLatestVersion, TypeOK
<1>3. CASE AddFinalizer(t)
  <2> DEFINE new == [tjob[t].obj EXCEPT !.finalizer = TRUE]
  <2>1. new \in TemplateObject
    BY <1>0 DEF TemplateObject
  <2>2. tmpl' \in [Templates -> TemplateObject] /\ disturbed' \in 0..MaxDisturbances
    <3>1. CASE UNCHANGED <<tmpl, disturbed>>
      BY <3>1 DEF TypeOK
    <3>2. CASE \E ok \in BOOLEAN : SubmitTemplate(t, new, ok)
      BY <2>1, <3>2, SubmitTemplateType
    <3> QED BY <1>3, <3>1, <3>2 DEF AddFinalizer
  <2>3. tjob' \in [Templates -> TemplateJob] /\ tqueue' \subseteq Templates
    BY <1>3, EndTemplateType DEF AddFinalizer
  <2> QED BY <1>3, <2>2, <2>3 DEF AddFinalizer, TypeOK
<1>4. CASE DeleteLatestVersion(t)
  <2>1. tmpl' \in [Templates -> TemplateObject]
    <3>1. Removed(tmpl[t]) \in TemplateObject
      BY <1>0, ChangedTemplate
    <3> QED BY <1>4, <3>1 DEF DeleteLatestVersion, TypeOK
  <2>2. tjob' \in [Templates -> TemplateJob] /\ tqueue' \subseteq Templates
    BY <1>4, EndTemplateType DEF DeleteLatestVersion
  <2>3. counter' \in [Templates -> Nat]
    BY <1>4 DEF DeleteLatestVersion, TypeOK
  <2> QED BY <1>4, <2>1, <2>2, <2>3 DEF DeleteLatestVersion, TypeOK
<1> QED BY <1>1, <1>2, <1>3, <1>4 DEF TemplateStep

LEMMA TypeRestart == TypeOK /\ Restart => TypeOK'
<1> SUFFICES ASSUME TypeOK, Restart PROVE TypeOK'
  OBVIOUS
<1>1. disturbed' \in 0..MaxDisturbances
  BY DisturbType DEF Restart, TypeOK
<1>2. counter' \in [Templates -> Nat]
  BY DEF Restart, TypeOK, VersionObject
<1>3. tjob' \in [Templates -> TemplateJob] /\ vjob' \in [Versions -> VersionJob]
  BY IdleTypes DEF Restart
<1>4. tqueue' \subseteq Templates /\ vqueue' \subseteq Versions
  BY DEF Restart
<1> QED BY <1>1, <1>2, <1>3, <1>4 DEF Restart, TypeOK

\* Every reachable state is well typed, whatever the disturbances.
THEOREM TypeCorrect == Spec => []TypeOK
<1>1. TypeOK /\ [Next]_vars => TypeOK'
  <2> SUFFICES ASSUME TypeOK, [Next]_vars PROVE TypeOK'
    OBVIOUS
  <2>1. CASE UserStep
    BY <2>1, TypeUser
  <2>2. ASSUME NEW t \in Templates, SyncTemplate(t) PROVE TypeOK'
    BY <2>2 DEF SyncTemplate, TypeOK
  <2>3. ASSUME NEW v \in Versions, SyncVersion(v) PROVE TypeOK'
    BY <2>3 DEF SyncVersion, TypeOK
  <2>4. ASSUME NEW t \in Templates, SetDefaultVersion(t) \/ TemplateStep(t) PROVE TypeOK'
    BY <2>4, TypeTemplateWorker
  <2>5. ASSUME NEW v \in Versions, OnChange(v) \/ VersionStep(v) PROVE TypeOK'
    BY <2>5, TypeVersionWorker
  <2>6. CASE Restart
    BY <2>6, TypeRestart
  <2>7. CASE UNCHANGED vars
    BY <2>7 DEF vars, TypeOK
  <2> QED BY <2>1, <2>2, <2>3, <2>4, <2>5, <2>6, <2>7 DEF Next
<1> QED BY <1>1, TypeInit, PTL DEF Spec

-----------------------------------------------------------------------------
\* The strengthening of NumberNeverChanges: a copy whose resource version is
\* still that of the stored version is equal to it, and the copy a job has at
\* StoreVersionNumber has no number.

CopyOf(copy, cur) == copy.rv <= cur.rv /\ (copy.rv = cur.rv => copy = cur)

CopiesOK ==
  \A v \in Versions :
    /\ CopyOf(vcache[v], ver[v])
    /\ vjob[v].pc \in {"config", "update", "status"} => CopyOf(vjob[v].obj, ver[v])
    /\ vjob[v].pc = "status" => ~vjob[v].obj.assigned
    /\ ver[v].rv = 0 => ~ver[v].exists

\* The strengthening of CounterCovers: a number a job is about to store is not 0 and at
\* most one more than the counter, and no template is being deleted.
NoDeleting ==
  \A t \in Templates : ~tmpl[t].deleting /\ ~tcache[t].deleting /\ ~tjob[t].obj.deleting

PendingCovered ==
  \A v \in Versions :
    vjob[v].pc = "status" => vjob[v].n # 0 /\ vjob[v].n <= counter[TemplateOf[v]] + 1

CounterOK == NoDeleting /\ PendingCovered /\ CounterCovers

\* A later state of a stored object: the same, or one with a higher version.
Later(cur, nxt) == nxt = cur \/ nxt.rv > cur.rv

\* A number is kept while the version exists, and none is given.
KeepsNumber(v) ==
  Numbered(v) /\ ver'[v].exists => ver'[v].assigned /\ ver'[v].version = ver[v].version

GivesNone(v) ==
  ver'[v].exists /\ ver'[v].assigned => Numbered(v) /\ ver'[v].version = ver[v].version

\* A copy stays one as the stored object moves on.
LEMMA CopyLater ==
  ASSUME NEW copy \in VersionObject, NEW cur \in VersionObject, NEW nxt \in VersionObject,
         CopyOf(copy, cur), Later(cur, nxt)
  PROVE  CopyOf(copy, nxt)
BY DEF CopyOf, Later, VersionObject

\* What a call with a changed copy of a job's object does.
LEMMA VersionCall ==
  ASSUME TypeOK, NEW v \in Versions, NEW obj \in VersionObject, NEW new \in VersionObject,
         NEW ok, CopyOf(obj, ver[v]), new.rv = obj.rv, Submit(v, new, ok)
  PROVE  /\ \A u \in Versions : ver'[u] \in VersionObject /\ Later(ver[u], ver'[u])
         /\ \A u \in Versions \ {v} : ver'[u] = ver[u]
         /\ CopyOf(obj, ver'[v])
         /\ ok => obj = ver[v] /\ CopyOf(new, ver'[v])
         /\ ver'[v] # ver[v] => obj = ver[v] /\ ver'[v] = Changed(ver[v], new)
         /\ ok => ver[v].exists /\ ver'[v] = Stored(ver[v], new)
<1>1. ver[v] \in VersionObject /\ ver[v].rv \in Nat
  BY DEF TypeOK, VersionObject
<1>2. ver' \in [Versions -> VersionObject]
  BY SubmitType
<1>3. \A u \in Versions \ {v} : ver'[u] = ver[u]
  BY DEF Submit, TypeOK
<1>4. CASE UNCHANGED ver /\ ~ok
  BY <1>1, <1>2, <1>4 DEF Later
<1>5. CASE Accepts(ver[v], new) /\ ver' = [ver EXCEPT ![v] = Stored(ver[v], new)]
  <2>1. ver'[v] = Stored(ver[v], new)
    BY <1>5 DEF TypeOK
  <2>2. obj = ver[v] /\ ver[v].exists
    BY <1>5 DEF Accepts, CopyOf
  <2>3. CASE new = ver[v]
    <3>1. ver'[v] = ver[v]
      BY <2>1, <2>3 DEF Stored
    <3>2. CopyOf(obj, ver'[v]) /\ CopyOf(new, ver'[v])
      BY <3>1, <2>2, <2>3, <1>1 DEF CopyOf
    <3> QED BY <1>2, <1>3, <2>1, <2>2, <3>1, <3>2 DEF Later
  <2>4. CASE new # ver[v]
    <3>1. ver'[v] = Changed(ver[v], new)
      BY <2>1, <2>4 DEF Stored, Changed
    <3>2. ver'[v].rv = ver[v].rv + 1
      BY <3>1 DEF VersionObject, Changed
    <3>3. CopyOf(obj, ver'[v]) /\ CopyOf(new, ver'[v]) /\ Later(ver[v], ver'[v])
      BY <3>2, <2>2, <1>1 DEF CopyOf, Later
    <3> QED BY <1>2, <1>3, <2>1, <2>2, <3>1, <3>3 DEF Later
  <2> QED BY <2>3, <2>4
<1> QED BY <1>4, <1>5 DEF Submit

\* A step that leaves the jobs of versions alone keeps CopiesOK, when a cache entry
\* only ever becomes what is stored.
LEMMA CopiesKept ==
  ASSUME TypeOK, TypeOK', CopiesOK, NEW v \in Versions,
         Later(ver[v], ver'[v]),
         vcache'[v] = vcache[v] \/ vcache'[v] = ver'[v],
         vjob'[v] = vjob[v] \/ vjob'[v].pc \in {"idle", "count"}
  PROVE  /\ CopyOf(vcache'[v], ver'[v])
         /\ vjob'[v].pc \in {"config", "update", "status"} => CopyOf(vjob'[v].obj, ver'[v])
         /\ vjob'[v].pc = "status" => ~vjob'[v].obj.assigned
         /\ ver'[v].rv = 0 => ~ver'[v].exists
<1>1. /\ ver[v] \in VersionObject /\ ver'[v] \in VersionObject
      /\ vcache[v] \in VersionObject /\ vjob[v].obj \in VersionObject
  BY DEF TypeOK, VersionJob
<1>2. CopyOf(ver'[v], ver'[v])
  BY <1>1 DEF CopyOf, VersionObject
<1>3. CopyOf(vcache'[v], ver'[v])
  BY <1>1, <1>2, CopyLater DEF CopiesOK
<1>4. ver'[v].rv = 0 => ~ver'[v].exists
  BY <1>1 DEF Later, VersionObject, CopiesOK
<1>5. CASE vjob'[v] = vjob[v]
  BY <1>1, <1>3, <1>4, <1>5, CopyLater DEF CopiesOK
<1>6. CASE vjob'[v].pc \in {"idle", "count"}
  BY <1>3, <1>4, <1>6
<1> QED BY <1>5, <1>6

Survives(v) == ver'[v].exists = ver[v].exists

LEMMA UserEffect ==
  ASSUME TypeOK, CopiesOK, UserStep
  PROVE  /\ \A v \in Versions : /\ Later(ver[v], ver'[v])
                                /\ KeepsNumber(v) /\ GivesNone(v)
         /\ UNCHANGED <<vcache, vjob, counter>>
<1>0. \A v \in Versions : ver[v] \in VersionObject /\ ver[v].rv \in Nat
  BY DEF TypeOK, VersionObject
<1>1. CASE UNCHANGED <<ver, vcache, vjob, counter>>
  BY <1>1 DEF Later, KeepsNumber, GivesNone, Numbered
<1>2. ASSUME NEW v \in Versions, NEW valid \in SpecValidity, NEW tick \in Ticks,
             CreateVersion(v, valid, tick)
      PROVE  \A u \in Versions : Later(ver[u], ver'[u]) /\ KeepsNumber(u) /\ GivesNone(u)
  <2>1. ver'[v].rv = ver[v].rv + 1 /\ ~ver'[v].assigned /\ ~ver[v].exists
    BY <1>2 DEF CreateVersion, Changed, NoVersion, TypeOK, CopiesOK
  <2>2. \A u \in Versions \ {v} : ver'[u] = ver[u]
    BY <1>2 DEF CreateVersion, TypeOK
  <2> QED BY <1>0, <2>1, <2>2 DEF Later, KeepsNumber, GivesNone, Numbered
<1>3. ASSUME NEW v \in Versions, DeleteVersion(v)
      PROVE  \A u \in Versions : Later(ver[u], ver'[u]) /\ KeepsNumber(u) /\ GivesNone(u)
  <2>1. ver'[v] = Removed(ver[v])
    BY <1>3 DEF DeleteVersion, TypeOK
  <2>2. ver'[v].rv = ver[v].rv + 1 /\ ~ver'[v].exists
    BY <1>0, <2>1 DEF Removed, VersionObject
  <2>3. \A u \in Versions \ {v} : ver'[u] = ver[u]
    BY <1>3 DEF DeleteVersion, TypeOK
  <2> QED BY <1>0, <2>2, <2>3 DEF Later, KeepsNumber, GivesNone, Numbered
<1>4. ASSUME NEW v \in Versions, EditVersion(v)
      PROVE  \A u \in Versions : Later(ver[u], ver'[u]) /\ KeepsNumber(u) /\ GivesNone(u)
  <2>1. ver'[v] = [[ver[v] EXCEPT !.valid = ~ver[v].valid] EXCEPT !.rv = ver[v].rv + 1]
    BY <1>4 DEF EditVersion, Changed, TypeOK
  <2>2. /\ ver'[v].rv = ver[v].rv + 1 /\ ver'[v].exists = ver[v].exists
        /\ ver'[v].assigned = ver[v].assigned /\ ver'[v].version = ver[v].version
    BY <1>0, <2>1 DEF VersionObject
  <2>3. \A u \in Versions \ {v} : ver'[u] = ver[u]
    BY <1>4 DEF EditVersion, TypeOK
  <2> QED BY <1>0, <2>2, <2>3 DEF Later, KeepsNumber, GivesNone, Numbered
<1>5. UNCHANGED <<vcache, vjob, counter>>
  BY DEF UserStep, CreateTemplate, DeleteTemplate, ChooseDefault, CreateVersion,
         DeleteVersion, EditVersion
<1> QED BY <1>1, <1>2, <1>3, <1>4, <1>5
        DEF UserStep, CreateTemplate, DeleteTemplate, ChooseDefault

\* What the handlers before StoreVersionNumber do to the version v: their calls
\* change neither its existence nor its number.
LEMMA QuietCall ==
  ASSUME TypeOK, NEW v \in Versions, NEW obj \in VersionObject, NEW new \in VersionObject,
         NEW ok, CopyOf(obj, ver[v]), Submit(v, new, ok),
         new.rv = obj.rv, new.exists = obj.exists, new.assigned = obj.assigned,
         new.version = obj.version
  PROVE  \A u \in Versions : KeepsNumber(u) /\ GivesNone(u) /\ Survives(u)
<1>1. \A u \in Versions \ {v} : ver'[u] = ver[u]
  BY VersionCall
<1>2. ver'[v] # ver[v] => obj = ver[v] /\ ver'[v] = Changed(ver[v], new)
  BY VersionCall
<1>3. /\ ver'[v].exists = ver[v].exists /\ ver'[v].assigned = ver[v].assigned
      /\ ver'[v].version = ver[v].version
  BY <1>2 DEF VersionObject, Changed
<1> QED BY <1>1, <1>3 DEF KeepsNumber, GivesNone, Survives, Numbered

\* CopiesOK for the version a worker is at.
CopiesOKAt(v) ==
  /\ CopyOf(vcache[v], ver[v])
  /\ vjob[v].pc \in {"config", "update", "status"} => CopyOf(vjob[v].obj, ver[v])
  /\ vjob[v].pc = "status" => ~vjob[v].obj.assigned
  /\ ver[v].rv = 0 => ~ver[v].exists

\* After a call, the handler's own object and the one the call returned are copies.
LEMMA CallHandsOn ==
  ASSUME TypeOK, CopiesOK, NEW v \in Versions, NEW obj \in VersionObject,
         NEW new \in VersionObject, NEW ok \in BOOLEAN, NEW pc \in {"config", "update"},
         CopyOf(obj, ver[v]), new.rv = obj.rv, Submit(v, new, ok),
         Hand(v, pc, IF ok THEN ver'[v] ELSE obj, ~ok), vcache' = vcache
  PROVE  \A u \in Versions : CopiesOKAt(u)'
<1>1. /\ ver[v] \in VersionObject /\ ver'[v] \in VersionObject
      /\ Later(ver[v], ver'[v]) /\ CopyOf(obj, ver'[v])
  BY VersionCall DEF TypeOK
<1>2. /\ vjob'[v].pc = pc /\ vjob'[v].obj = (IF ok THEN ver'[v] ELSE obj)
      /\ \A u \in Versions \ {v} : vjob'[u] = vjob[u]
  BY DEF Hand, TypeOK
<1>3. CopyOf(ver'[v], ver'[v])
  BY <1>1 DEF CopyOf, VersionObject
<1>4. CopyOf(vcache[v], ver'[v])
  BY <1>1, CopyLater DEF CopiesOK, TypeOK
<1>5. ver'[v].rv = 0 => ~ver'[v].exists
  BY <1>1 DEF Later, VersionObject, CopiesOK
<1>6. CopiesOKAt(v)'
  BY <1>1, <1>2, <1>3, <1>4, <1>5 DEF CopiesOKAt
<1>7. \A u \in Versions \ {v} : ver'[u] = ver[u]
  BY VersionCall
<1>8. ASSUME NEW u \in Versions \ {v} PROVE CopiesOKAt(u)'
  BY <1>2, <1>7 DEF CopiesOKAt, CopiesOK
<1> QED BY <1>6, <1>8

\* The step of a worker at v keeps the version u and its number, and only
\* StoreVersionNumber gives one.
NumberFrame(v, u) ==
  KeepsNumber(u) /\ Survives(u) /\ (StoreVersionNumber(v) \/ GivesNone(u))

LEMMA CopiesVersionWorker ==
  ASSUME TypeOK, TypeOK', CopiesOK, NEW v \in Versions, OnChange(v) \/ VersionStep(v)
  PROVE  /\ CopiesOK'
         /\ \A u \in Versions : NumberFrame(v, u)
<1> DEFINE Goal == /\ \A u \in Versions : CopiesOKAt(u)'
                   /\ \A u \in Versions : NumberFrame(v, u)
<1> SUFFICES Goal
  BY DEF CopiesOKAt, CopiesOK
<1>0. /\ vcache[v] \in VersionObject /\ vjob[v] \in VersionJob /\ vjob[v].obj \in VersionObject
      /\ \A u \in Versions : ver[u] \in VersionObject /\ ver'[u] \in VersionObject
      /\ \A u \in Versions : CopiesOKAt(u)
  BY DEF TypeOK, VersionJob, CopiesOK, CopiesOKAt
<1>1. ASSUME UNCHANGED ver, UNCHANGED vcache,
             \A u \in Versions \ {v} : vjob'[u] = vjob[u],
             \/ vjob'[v].pc \in {"idle", "count"}
             \/ vjob'[v].pc \in {"config", "update"} /\ CopyOf(vjob'[v].obj, ver[v])
      PROVE  Goal
  BY <1>0, <1>1 DEF CopiesOKAt, NumberFrame, KeepsNumber, GivesNone, Survives, Numbered
<1>2. CASE OnChange(v)
  <2> DEFINE obj == vcache[v]
             new == [obj EXCEPT !.label = TRUE,
                                !.owner = IF obj.owner = "none" THEN "self" ELSE obj.owner]
  <2>1. CopyOf(obj, ver[v])
    BY <1>0 DEF CopiesOKAt
  <2>2. /\ new \in VersionObject
        /\ new.rv = obj.rv /\ new.exists = obj.exists
        /\ new.assigned = obj.assigned /\ new.version = obj.version
    <3>1. (IF obj.owner = "none" THEN "self" ELSE obj.owner) \in Owner
      BY <1>0 DEF VersionObject, Owner
    <3> QED BY <1>0, <3>1, LabelUpdate DEF VersionObject
  <2>3. CASE UNCHANGED <<ver, vjob, disturbed>>
    <3>1. vcache' = vcache
      BY <1>2 DEF OnChange
    <3> QED BY <1>0, <2>3, <3>1 DEF CopiesOKAt, NumberFrame, KeepsNumber, GivesNone, Survives, Numbered
  <2>4. CASE Hand(v, "config", obj, FALSE) /\ UNCHANGED <<ver, disturbed>>
    <3>1. /\ vjob'[v].pc = "config" /\ vjob'[v].obj = obj /\ vcache' = vcache
          /\ \A u \in Versions \ {v} : vjob'[u] = vjob[u]
      BY <1>2, <2>4 DEF Hand, TypeOK, OnChange
    <3> HIDE DEF obj
    <3> QED BY <1>1, <2>1, <2>4, <3>1
  <2>5. ASSUME NEW ok \in BOOLEAN, Submit(v, new, ok),
               Hand(v, "config", IF ok THEN ver'[v] ELSE obj, ~ok)
        PROVE  Goal
    <3>1. vcache' = vcache
      BY <1>2 DEF OnChange
    <3>2. obj \in VersionObject
      BY <1>0
    <3> HIDE DEF new, obj
    <3>3. \A u \in Versions : NumberFrame(v, u)
      BY <2>1, <2>2, <2>5, <3>2, QuietCall DEF NumberFrame
    <3>4. \A u \in Versions : CopiesOKAt(u)'
      BY <2>1, <2>2, <2>5, <3>1, <3>2, CallHandsOn
    <3> QED BY <3>3, <3>4
  <2> QED BY <1>2, <2>3, <2>4, <2>5 DEF OnChange
<1>3. CASE ConfigModelDeployment(v)
  <2> DEFINE obj == vjob[v].obj
             new == [obj EXCEPT !.configured =
                       IF obj.configured = "true" \/ obj.valid THEN "true" ELSE "false"]
  <2>1. CopyOf(obj, ver[v])
    BY <1>0, <1>3 DEF CopiesOKAt, ConfigModelDeployment
  <2>2. /\ new \in VersionObject
        /\ new.rv = obj.rv /\ new.exists = obj.exists
        /\ new.assigned = obj.assigned /\ new.version = obj.version
    <3>1. (IF obj.configured = "true" \/ obj.valid THEN "true" ELSE "false") \in Condition
      BY DEF Condition
    <3> QED BY <1>0, <3>1, ConfigUpdate DEF VersionObject
  <2>3. vcache' = vcache /\ obj \in VersionObject
    BY <1>0, <1>3 DEF ConfigModelDeployment
  <2>4. CASE Hand(v, "update", obj, FALSE) /\ UNCHANGED <<ver, disturbed>>
    <3>1. /\ vjob'[v].pc = "update" /\ vjob'[v].obj = obj
          /\ \A u \in Versions \ {v} : vjob'[u] = vjob[u]
      BY <1>3, <2>4 DEF Hand, TypeOK
    <3> HIDE DEF obj
    <3> QED BY <1>1, <2>1, <2>3, <2>4, <3>1
  <2>5. ASSUME NEW ok \in BOOLEAN, Submit(v, new, ok),
               Hand(v, "update", IF ok THEN ver'[v] ELSE obj, ~ok)
        PROVE  Goal
    <3> HIDE DEF new, obj
    <3>1. \A u \in Versions : NumberFrame(v, u)
      BY <2>1, <2>2, <2>3, <2>5, QuietCall DEF NumberFrame
    <3>2. \A u \in Versions : CopiesOKAt(u)'
      BY <2>1, <2>2, <2>3, <2>5, CallHandsOn
    <3> QED BY <3>1, <3>2
  <2> QED BY <1>3, <2>4, <2>5 DEF ConfigModelDeployment
<1>4. ASSUME NEW new \in VersionObject, NEW ok \in BOOLEAN, NEW failed,
             Submit(v, new, ok), EndVersion(v, failed) \/ Hand(v, "count", NoVersion, FALSE),
             vcache' = vcache, new.rv = vjob[v].obj.rv, CopyOf(vjob[v].obj, ver[v])
      PROVE  \A u \in Versions : CopiesOKAt(u)'
  <2>1. /\ \A u \in Versions : Later(ver[u], ver'[u])
        /\ vcache' = vcache
    BY <1>0, <1>4, VersionCall
  <2>2. \A u \in Versions : vjob'[u] = vjob[u] \/ vjob'[u].pc \in {"idle", "count"}
    BY <1>4 DEF EndVersion, Hand, TypeOK, IdleV
  <2> QED BY <2>1, <2>2, CopiesKept DEF CopiesOKAt
<1>5. CASE AssignVersion(v)
  <2> DEFINE obj == vjob[v].obj
             new == [obj EXCEPT !.label = TRUE,
                                !.owner = IF obj.owner = "none" THEN "template" ELSE obj.owner]
  <2>1. CopyOf(obj, ver[v]) /\ vcache' = vcache /\ obj \in VersionObject
    BY <1>0, <1>5 DEF CopiesOKAt, AssignVersion
  <2>2. /\ new \in VersionObject
        /\ new.rv = obj.rv /\ new.exists = obj.exists
        /\ new.assigned = obj.assigned /\ new.version = obj.version
    <3>1. (IF obj.owner = "none" THEN "template" ELSE obj.owner) \in Owner
      BY <1>0 DEF VersionObject, Owner
    <3> QED BY <1>0, <3>1, LabelUpdate DEF VersionObject
  <2>3. ASSUME NEW failed, EndVersion(v, failed), UNCHANGED ver
        PROVE  Goal
    <3>1. vjob'[v].pc = "idle" /\ \A u \in Versions \ {v} : vjob'[u] = vjob[u]
      BY <2>3 DEF EndVersion, IdleV, TypeOK
    <3> QED BY <1>1, <2>1, <2>3, <3>1
  <2>4. CASE Submit(v, new, FALSE) /\ EndVersion(v, TRUE)
    <3>1. \A u \in Versions : CopiesOKAt(u)'
      <4> HIDE DEF new
      <4> QED BY <1>4, <2>1, <2>2, <2>4
    <3>2. \A u \in Versions : NumberFrame(v, u)
      <4> HIDE DEF new, obj
      <4> QED BY <2>1, <2>2, <2>4, QuietCall DEF NumberFrame
    <3> QED BY <3>1, <3>2
  <2>5. CASE /\ Submit(v, new, TRUE) /\ NeedsNumber(obj)
             /\ vjob' = [vjob EXCEPT ![v] = [pc |-> "status", obj |-> new,
                           n |-> counter[TemplateOf[v]] + 1, failed |-> vjob[v].failed]]
    <3>1. /\ vjob'[v].pc = "status" /\ vjob'[v].obj = new
          /\ \A u \in Versions \ {v} : vjob'[u] = vjob[u]
      BY <2>5 DEF TypeOK
    <3>2. ~new.assigned
      BY <2>2, <2>5 DEF NeedsNumber
    <3> HIDE DEF new, obj
    <3>3. \A u \in Versions : NumberFrame(v, u)
      BY <2>1, <2>2, <2>5, QuietCall DEF NumberFrame
    <3>4. /\ \A u \in Versions : Later(ver[u], ver'[u])
          /\ \A u \in Versions \ {v} : ver'[u] = ver[u]
          /\ CopyOf(new, ver'[v])
      BY <2>1, <2>2, <2>5, VersionCall
    <3>5. \A u \in Versions \ {v} : CopiesOKAt(u)'
      BY <1>0, <2>1, <3>1, <3>4 DEF CopiesOKAt
    <3>6. CopyOf(vcache[v], ver'[v])
      BY <1>0, <3>4, CopyLater DEF CopiesOKAt
    <3>7. ver'[v].rv = 0 => ~ver'[v].exists
      BY <1>0, <3>4 DEF Later, VersionObject, CopiesOKAt
    <3>8. CopiesOKAt(v)'
      BY <2>1, <3>1, <3>2, <3>4, <3>6, <3>7 DEF CopiesOKAt
    <3> QED BY <3>3, <3>5, <3>8
  <2> QED BY <1>5, <2>3, <2>4, <2>5 DEF AssignVersion
<1>6. CASE StoreVersionNumber(v)
  <2> DEFINE new == [vjob[v].obj EXCEPT !.assigned = TRUE, !.version = vjob[v].n]
  <2>1. /\ CopyOf(vjob[v].obj, ver[v]) /\ vcache' = vcache /\ ~vjob[v].obj.assigned
        /\ vjob[v].n \in Nat
    BY <1>0, <1>6 DEF CopiesOKAt, StoreVersionNumber, VersionJob
  <2>2. new \in VersionObject /\ new.rv = vjob[v].obj.rv /\ new.exists = vjob[v].obj.exists
    BY <1>0, <2>1, NumberUpdate DEF VersionObject
  <2>3. PICK ok \in BOOLEAN : /\ Submit(v, new, ok)
                              /\ EndVersion(v, TRUE) \/ Hand(v, "count", NoVersion, FALSE)
    BY <1>6 DEF StoreVersionNumber
  <2> HIDE DEF new
  <2>4. \A u \in Versions : CopiesOKAt(u)'
    BY <1>4, <2>1, <2>2, <2>3
  <2>5. /\ \A u \in Versions \ {v} : ver'[u] = ver[u]
        /\ ver'[v] # ver[v] => vjob[v].obj = ver[v] /\ ver'[v] = Changed(ver[v], new)
    BY <1>0, <2>1, <2>2, <2>3, VersionCall
  <2>6. ver'[v].exists = ver[v].exists
    BY <2>2, <2>5 DEF Changed, VersionObject
  <2>7. \A u \in Versions : NumberFrame(v, u)
    BY <1>6, <2>1, <2>5, <2>6 DEF NumberFrame, KeepsNumber, Numbered, Survives
  <2> QED BY <2>4, <2>7
<1>7. CASE CountVersion(v)
  <2>1. /\ vjob'[v].pc = "idle" /\ \A u \in Versions \ {v} : vjob'[u] = vjob[u]
        /\ UNCHANGED <<ver, vcache>>
    BY <1>7 DEF CountVersion, EndVersion, IdleV, TypeOK
  <2> QED BY <1>1, <2>1
<1> QED BY <1>2, <1>3, <1>5, <1>6, <1>7 DEF VersionStep

LEMMA CopiesInit == Init => CopiesOK
BY DEF Init, CopiesOK, CopyOf, IdleV, NoVersion

LEMMA CopiesStep ==
  ASSUME TypeOK, TypeOK', CopiesOK, [Next]_vars
  PROVE  /\ CopiesOK'
         /\ \A u \in Versions : KeepsNumber(u)
<1> DEFINE Goal == /\ CopiesOK'
                   /\ \A u \in Versions : KeepsNumber(u)
<1> SUFFICES Goal
  OBVIOUS
<1>1. ASSUME \A v \in Versions : /\ Later(ver[v], ver'[v]) /\ KeepsNumber(v)
                                 /\ vcache'[v] = vcache[v] \/ vcache'[v] = ver'[v]
                                 /\ vjob'[v] = vjob[v] \/ vjob'[v].pc = "idle"
      PROVE  Goal
  BY <1>1, CopiesKept DEF CopiesOK
<1>2. CASE UserStep
  BY <1>1, <1>2, UserEffect
<1>3. ASSUME UNCHANGED ver,
             \A v \in Versions : vcache'[v] = vcache[v] \/ vcache'[v] = ver'[v],
             \A v \in Versions : vjob'[v] = vjob[v] \/ vjob'[v].pc = "idle"
      PROVE  Goal
  BY <1>1, <1>3 DEF Later, KeepsNumber, Numbered
<1>4. CASE \E t \in Templates : SyncTemplate(t) \/ SetDefaultVersion(t) \/ TemplateStep(t)
  BY <1>3, <1>4 DEF SyncTemplate, SetDefaultVersion, TemplateStep, SyncLatestVersion,
                    AddFinalizer, DeleteLatestVersion
<1>5. ASSUME NEW v \in Versions, SyncVersion(v) PROVE Goal
  <2>1. /\ UNCHANGED <<ver, vjob>>
        /\ \A u \in Versions : vcache'[u] = vcache[u] \/ vcache'[u] = ver'[u]
    BY <1>5 DEF SyncVersion, TypeOK
  <2> QED BY <1>3, <2>1
<1>6. ASSUME NEW v \in Versions, OnChange(v) \/ VersionStep(v) PROVE Goal
  BY <1>6, CopiesVersionWorker DEF NumberFrame
<1>7. CASE Restart
  <2>1. UNCHANGED ver /\ vcache' = ver' /\ \A v \in Versions : vjob'[v].pc = "idle"
    BY <1>7 DEF Restart, IdleV
  <2> QED BY <1>3, <2>1
<1>8. CASE UNCHANGED vars
  BY <1>3, <1>8 DEF vars
<1> QED BY <1>2, <1>4, <1>5, <1>6, <1>7, <1>8 DEF Next

LEMMA CopiesCorrect == Spec => [](TypeOK /\ CopiesOK)
<1>1. Init => TypeOK /\ CopiesOK
  BY TypeInit, CopiesInit
<1>2. TypeOK /\ TypeOK' /\ CopiesOK /\ [Next]_vars => CopiesOK'
  BY CopiesStep
<1> QED BY <1>1, <1>2, TypeCorrect, PTL DEF Spec

\* A version that has a number keeps it, whatever stale copies, conflicts, lost
\* replies and restarts AssignVersion meets.
THEOREM NumbersAreKept == Spec => NumberNeverChanges
<1> DEFINE Keep == \A v \in Versions : (Numbered(v) /\ ver'[v].exists)
                     => ver'[v].assigned /\ ver'[v].version = ver[v].version
<1>1. TypeOK /\ TypeOK' /\ CopiesOK /\ [Next]_vars => [Keep]_vars
  BY CopiesStep DEF KeepsNumber
<1>2. Spec => [][Keep]_vars
  BY <1>1, CopiesCorrect, PTL DEF Spec
<1> QED BY <1>2 DEF NumberNeverChanges

-----------------------------------------------------------------------------
\* The counter, while no reply is lost and no template deleted.

NoReset == "lostReply" \notin Disturbances /\ "deleteTemplate" \notin Disturbances

LEMMA StoreEffect ==
  ASSUME NoReset, TypeOK, CopiesOK, NEW v \in Versions, StoreVersionNumber(v)
  PROVE  /\ \A u \in Versions \ {v} : ver'[u] = ver[u] /\ vjob'[u] = vjob[u]
         /\ UNCHANGED counter
         /\ \/ /\ ver'[v].assigned /\ ver'[v].version = vjob[v].n /\ vjob'[v].pc = "count"
               /\ ver[v].exists /\ ~ver[v].assigned /\ ver'[v].exists
            \/ ver'[v] = ver[v] /\ vjob'[v].pc = "idle"
<1> DEFINE new == [vjob[v].obj EXCEPT !.assigned = TRUE, !.version = vjob[v].n]
<1>1. /\ vjob[v].obj \in VersionObject /\ vjob[v].n \in Nat /\ CopyOf(vjob[v].obj, ver[v])
      /\ ver[v] \in VersionObject /\ ~vjob[v].obj.assigned
  BY DEF TypeOK, VersionJob, CopiesOK, StoreVersionNumber
<1>2. /\ new \in VersionObject /\ new.rv = vjob[v].obj.rv
      /\ new.assigned /\ new.version = vjob[v].n /\ new.exists = vjob[v].obj.exists
  BY <1>1, NumberUpdate DEF VersionObject
<1>3. CASE Submit(v, new, TRUE) /\ Hand(v, "count", NoVersion, FALSE)
  <2>1. vjob'[v].pc = "count" /\ \A u \in Versions \ {v} : vjob'[u] = vjob[u]
    BY <1>3 DEF Hand, TypeOK
  <2>2. Accepts(ver[v], new) /\ ver' = [ver EXCEPT ![v] = Stored(ver[v], new)]
    BY <1>3 DEF Submit
  <2>3. vjob[v].obj = ver[v] /\ ver[v].exists
    BY <1>1, <1>2, <2>2 DEF Accepts, CopyOf
  <2>4. new # ver[v]
    BY <1>1, <1>2, <2>3
  <2>5. ver'[v] = [new EXCEPT !.rv = ver[v].rv + 1] /\ \A u \in Versions \ {v} : ver'[u] = ver[u]
    BY <2>2, <2>4 DEF Stored, TypeOK
  <2>6. ver'[v].assigned /\ ver'[v].version = vjob[v].n /\ ver'[v].exists
    <3> HIDE DEF new
    <3> QED BY <1>2, <2>3, <2>5 DEF VersionObject
  <2> QED BY <1>1, <2>1, <2>3, <2>5, <2>6 DEF StoreVersionNumber
<1>4. CASE Submit(v, new, FALSE) /\ EndVersion(v, TRUE)
  <2>1. UNCHANGED ver
    BY <1>4 DEF Submit, Disturb, NoReset
  <2>2. vjob'[v].pc = "idle" /\ \A u \in Versions \ {v} : vjob'[u] = vjob[u]
    BY <1>4 DEF EndVersion, IdleV, TypeOK
  <2> QED BY <2>1, <2>2 DEF StoreVersionNumber
<1> QED BY <1>3, <1>4 DEF StoreVersionNumber

LEMMA TemplateCallKeeps ==
  ASSUME TypeOK, NoDeleting, NEW t \in Templates, NEW new \in TemplateObject, ~new.deleting,
         NEW ok, SubmitTemplate(t, new, ok)
  PROVE  \A u \in Templates : ~tmpl'[u].deleting
<1>1. tmpl[t] \in TemplateObject
  BY DEF TypeOK
<1>2. ~Stored(tmpl[t], new).deleting
  BY <1>1 DEF Stored, TemplateObject, NoDeleting
<1> QED BY <1>2 DEF SubmitTemplate, NoDeleting, TypeOK

LEMMA NoDeletingStep ==
  ASSUME NoReset, TypeOK, NoDeleting, [Next]_vars
  PROVE  NoDeleting'
<1>1. CASE UserStep
  <2>1. ASSUME NEW t \in Templates, CreateTemplate(t) PROVE NoDeleting'
    <3>1. ~Changed(tmpl[t], [NoTemplate EXCEPT !.exists = TRUE]).deleting
      BY DEF Changed, NoTemplate
    <3> QED BY <2>1, <3>1 DEF CreateTemplate, NoDeleting, TypeOK
  <2>2. ASSUME NEW t \in Templates, NEW v \in Versions, ChooseDefault(t, v) PROVE NoDeleting'
    <3>1. tmpl[t] \in TemplateObject
      BY DEF TypeOK
    <3>2. ~Changed(tmpl[t], [tmpl[t] EXCEPT !.defaultID = v]).deleting
      BY <3>1 DEF Changed, TemplateObject, NoDeleting
    <3> QED BY <2>2, <3>2 DEF ChooseDefault, NoDeleting, TypeOK
  <2>3. ASSUME UNCHANGED <<tmpl, tcache, tjob>> PROVE NoDeleting'
    BY <2>3 DEF NoDeleting
  <2>4. ASSUME NEW t \in Templates, DeleteTemplate(t) PROVE FALSE
    BY <2>4 DEF DeleteTemplate, Disturb, NoReset
  <2> QED BY <1>1, <2>1, <2>2, <2>3, <2>4
          DEF UserStep, CreateVersion, DeleteVersion, EditVersion
<1>2. ASSUME NEW t \in Templates, SyncTemplate(t) PROVE NoDeleting'
  BY <1>2 DEF SyncTemplate, NoDeleting, TypeOK
<1>3. ASSUME NEW t \in Templates, NEW new \in TemplateObject, ~new.deleting, NEW ok \in BOOLEAN,
             NEW obj \in TemplateObject, ~obj.deleting, NEW pc, NEW failed,
             SubmitTemplate(t, new, ok), UNCHANGED tcache,
             \/ HandTemplate(t, pc, IF ok THEN tmpl'[t] ELSE obj, ~ok)
             \/ HandTemplate(t, pc, obj, ~ok)
             \/ EndTemplate(t, failed)
      PROVE  NoDeleting'
  <2>1. \A u \in Templates : ~tmpl'[u].deleting
    BY <1>3, TemplateCallKeeps
  <2>2. \A u \in Templates : ~tjob'[u].obj.deleting
    BY <1>3, <2>1 DEF HandTemplate, EndTemplate, IdleT, NoTemplate, NoDeleting, TypeOK
  <2> QED BY <1>3, <2>1, <2>2 DEF NoDeleting
<1>4. ASSUME NEW t \in Templates, SetDefaultVersion(t) PROVE NoDeleting'
  <2>0. tcache[t] \in TemplateObject /\ ~tcache[t].deleting /\ tcache' = tcache
    BY <1>4 DEF SetDefaultVersion, TypeOK, NoDeleting
  <2>1. CASE UNCHANGED <<tmpl, tjob, disturbed>>
    BY <2>0, <2>1 DEF NoDeleting
  <2>2. CASE \E failed \in BOOLEAN : Skip(t, "sync", tcache[t], failed)
    BY <2>0, <2>2 DEF Skip, HandTemplate, NoDeleting, TypeOK
  <2>3. CASE PickDefault(t) /\ ~(\E failed \in BOOLEAN : Skip(t, "sync", tcache[t], failed))
    <3>1. PICK v \in Versions, ok \in BOOLEAN :
            /\ SubmitTemplate(t, [tcache[t] EXCEPT !.defaultID = v], ok)
            /\ HandTemplate(t, "sync", IF ok THEN tmpl'[t] ELSE tcache[t], ~ok)
      BY <2>3 DEF PickDefault
    <3>2. /\ [tcache[t] EXCEPT !.defaultID = v] \in TemplateObject
          /\ ~[tcache[t] EXCEPT !.defaultID = v].deleting
      BY <2>0 DEF TemplateObject
    <3> QED BY <1>3, <2>0, <3>1, <3>2
  <2>4. CASE DefaultNotFound(t) /\ ~(\E failed \in BOOLEAN : Skip(t, "sync", tcache[t], failed))
    <3> DEFINE new == [tcache[t] EXCEPT !.assigned = "false", !.missing = tcache[t].defaultID]
    <3>1. PICK ok \in BOOLEAN : SubmitTemplate(t, new, ok) /\ HandTemplate(t, "sync", tcache[t], ~ok)
      BY <2>4 DEF DefaultNotFound
    <3>2. new \in TemplateObject /\ ~new.deleting
      BY <2>0 DEF TemplateObject, Condition
    <3> HIDE DEF new
    <3> QED BY <1>3, <2>0, <3>1, <3>2
  <2>5. CASE RecordDefault(t) /\ ~(\E failed \in BOOLEAN : Skip(t, "sync", tcache[t], failed))
    <3> DEFINE n == vcache[tcache[t].defaultID].version
               new == [tcache[t] EXCEPT !.defaultVersion = n, !.assigned = "true", !.missing = None]
    <3>1. PICK ok \in BOOLEAN :
            /\ tcache[t].defaultID # None
            /\ SubmitTemplate(t, new, ok)
            /\ HandTemplate(t, "sync", IF ok THEN tmpl'[t] ELSE tcache[t], ~ok)
      BY <2>5 DEF RecordDefault
    <3>2. tcache[t].defaultID \in Versions
      BY <2>0, <3>1 DEF TemplateObject
    <3>3. n \in Nat
      BY <3>2 DEF TypeOK, VersionObject
    <3> HIDE DEF n
    <3>4. new \in TemplateObject /\ ~new.deleting
      BY <2>0, <3>3 DEF TemplateObject, Condition
    <3> HIDE DEF new
    <3> QED BY <1>3, <2>0, <3>1, <3>4
  <2> QED BY <1>4, <2>0, <2>1, <2>2, <2>3, <2>4, <2>5 DEF SetDefaultVersion
<1>5. ASSUME NEW t \in Templates, TemplateStep(t) PROVE NoDeleting'
  <2>0. tjob[t].obj \in TemplateObject /\ ~tjob[t].obj.deleting /\ counter[t] \in Nat
    BY DEF TypeOK, TemplateJob, NoDeleting
  <2>1. CASE SyncLatestVersion(t)
    <3> DEFINE new == [tjob[t].obj EXCEPT !.latest = counter[t]]
    <3>1. new \in TemplateObject /\ ~new.deleting
      BY <2>0 DEF TemplateObject
    <3>2. CASE Skip(t, "lifecycle", tjob[t].obj, FALSE)
      BY <2>0, <2>1, <3>2 DEF SyncLatestVersion, Skip, HandTemplate, NoDeleting, TypeOK
    <3>3. CASE \E ok \in BOOLEAN :
                 /\ SubmitTemplate(t, new, ok)
                 /\ HandTemplate(t, "lifecycle", IF ok THEN tmpl'[t] ELSE tjob[t].obj, ~ok)
      <4>1. tcache' = tcache
        BY <2>1 DEF SyncLatestVersion
      <4> HIDE DEF new
      <4> QED BY <1>3, <2>0, <3>1, <3>3, <4>1
    <3> QED BY <2>1, <3>2, <3>3 DEF SyncLatestVersion
  <2>2. CASE AddFinalizer(t)
    <3> DEFINE new == [tjob[t].obj EXCEPT !.finalizer = TRUE]
    <3>1. new \in TemplateObject /\ ~new.deleting
      BY <2>0 DEF TemplateObject
    <3>2. CASE UNCHANGED tmpl /\ EndTemplate(t, tjob[t].failed)
      BY <2>2, <3>2 DEF AddFinalizer, EndTemplate, IdleT, NoTemplate, NoDeleting, TypeOK
    <3>3. CASE \E ok \in BOOLEAN : SubmitTemplate(t, new, ok) /\ EndTemplate(t, tjob[t].failed \/ ~ok)
      <4>1. tcache' = tcache
        BY <2>2 DEF AddFinalizer
      <4> HIDE DEF new
      <4> QED BY <1>3, <2>0, <3>1, <3>3, <4>1
    <3> QED BY <2>2, <3>2, <3>3 DEF AddFinalizer
  <2>3. CASE DeleteLatestVersion(t)
    BY <2>0, <2>3 DEF DeleteLatestVersion
  <2> QED BY <1>5, <2>1, <2>2, <2>3 DEF TemplateStep
<1>6. ASSUME NEW v \in Versions, SyncVersion(v) \/ OnChange(v) \/ VersionStep(v)
      PROVE  NoDeleting'
  BY <1>6 DEF SyncVersion, OnChange, VersionStep, ConfigModelDeployment, AssignVersion,
              StoreVersionNumber, CountVersion, NoDeleting
<1>7. CASE Restart
  BY <1>7 DEF Restart, NoDeleting, IdleT, NoTemplate
<1>8. CASE UNCHANGED vars
  BY <1>8 DEF vars, NoDeleting
<1> QED BY <1>1, <1>2, <1>4, <1>5, <1>6, <1>7, <1>8 DEF Next

\* What the handlers before StoreVersionNumber do to the jobs.
LEMMA EarlyJobs ==
  ASSUME TypeOK, NEW v \in Versions,
         OnChange(v) \/ ConfigModelDeployment(v) \/ AssignVersion(v)
  PROVE  /\ UNCHANGED counter /\ vjob[v].pc # "count" /\ vjob'[v].pc # "count"
         /\ \A u \in Versions \ {v} : vjob'[u] = vjob[u]
         /\ vjob'[v].pc = "status" => vjob'[v].n = counter[TemplateOf[v]] + 1
<1>1. CASE OnChange(v)
  BY <1>1 DEF OnChange, TakeVersion, Hand, TypeOK
<1>2. CASE ConfigModelDeployment(v)
  BY <1>2 DEF ConfigModelDeployment, Hand, TypeOK
<1>3. CASE AssignVersion(v)
  <2>1. UNCHANGED counter /\ vjob[v].pc = "update"
    BY <1>3 DEF AssignVersion
  <2>2. CASE \E failed : EndVersion(v, failed)
    BY <2>1, <2>2 DEF EndVersion, IdleV, TypeOK
  <2>3. CASE \E obj : vjob' = [vjob EXCEPT ![v] = [pc |-> "status", obj |-> obj,
                             n |-> counter[TemplateOf[v]] + 1, failed |-> vjob[v].failed]]
    BY <2>1, <2>3 DEF TypeOK
  <2> QED BY <1>3, <2>2, <2>3 DEF AssignVersion
<1> QED BY <1>1, <1>2, <1>3

LEMMA CountEffect ==
  ASSUME TypeOK, NEW v \in Versions, CountVersion(v)
  PROVE  /\ UNCHANGED ver /\ vjob[v].pc = "count" /\ vjob'[v].pc = "idle"
         /\ \A u \in Versions \ {v} : vjob'[u] = vjob[u]
         /\ counter' = [counter EXCEPT ![TemplateOf[v]] = counter[TemplateOf[v]] + 1]
BY DEF CountVersion, EndVersion, IdleV, TypeOK

LEMMA RestartEffect ==
  ASSUME Restart
  PROVE  /\ UNCHANGED ver /\ \A v \in Versions : vjob'[v].pc = "idle"
         /\ \A v \in Versions : Numbered(v) => ver[v].version <= counter'[TemplateOf[v]]
<1>1. PICK c \in [Templates -> {ver[v].version : v \in Versions} \cup {0}] :
        IsLatestVersionMap(c) /\ counter' = c
  BY DEF Restart
<1>2. ASSUME NEW v \in Versions, Numbered(v) PROVE ver[v].version <= c[TemplateOf[v]]
  <2>1. ver[v].version \in NumbersOf(TemplateOf[v]) /\ TemplateOf[v] \in Templates
    BY <1>2, TemplateOfAssumption DEF NumbersOf, Numbered
  <2> QED BY <1>1, <2>1 DEF IsLatestVersionMap
<1> QED BY <1>1, <1>2 DEF Restart, IdleV

LEMMA CounterInit == Init => CounterOK
<1> SUFFICES ASSUME Init PROVE CounterOK
  OBVIOUS
<1>1. NoDeleting
  BY DEF Init, NoDeleting, NoTemplate, IdleT
<1>2. PendingCovered /\ CounterCovers
  BY DEF Init, PendingCovered, CounterCovers, Numbered, IdleV, NoVersion
<1> QED BY <1>1, <1>2 DEF CounterOK

LEMMA CounterStep ==
  ASSUME NoReset, TypeOK, TypeOK', CopiesOK, CounterOK, [Next]_vars
  PROVE  CounterOK'
<1> DEFINE Goal == PendingCovered' /\ CounterCovers'
<1> SUFFICES Goal
  BY NoDeletingStep DEF CounterOK
<1>0. /\ PendingCovered /\ CounterCovers /\ NoDeleting
      /\ \A v \in Versions : /\ TemplateOf[v] \in Templates /\ counter[TemplateOf[v]] \in Nat
                             /\ ver[v].version \in Nat /\ vjob[v].n \in Nat
  BY TemplateOfAssumption DEF CounterOK, TypeOK, VersionObject, VersionJob
\* A step that counts nothing and gives no number.
<1>1. ASSUME UNCHANGED counter, \A v \in Versions : GivesNone(v),
             \A v \in Versions :
               \/ vjob'[v] = vjob[v]
               \/ /\ vjob[v].pc # "count" /\ vjob'[v].pc # "count"
                  /\ vjob'[v].pc = "status" => vjob'[v].n = counter[TemplateOf[v]] + 1
      PROVE  Goal
  <2>1. PendingCovered'
    BY <1>0, <1>1 DEF PendingCovered
  <2>2. CounterCovers'
    BY <1>0, <1>1 DEF CounterCovers, GivesNone, Numbered
  <2> QED BY <2>1, <2>2
<1>2. CASE UserStep
  BY <1>1, <1>2, UserEffect
<1>3. ASSUME UNCHANGED <<ver, vjob, counter>> PROVE Goal
  BY <1>1, <1>3 DEF GivesNone, Numbered
<1>4. ASSUME NEW t \in Templates, SyncTemplate(t) \/ SetDefaultVersion(t) \/ TemplateStep(t)
      PROVE  Goal
  <2>1. ~DeleteLatestVersion(t)
    BY <1>0 DEF DeleteLatestVersion, NoDeleting
  <2> QED BY <1>3, <1>4, <2>1 DEF SyncTemplate, SetDefaultVersion, TemplateStep,
                                  SyncLatestVersion, AddFinalizer
<1>5. ASSUME NEW v \in Versions, SyncVersion(v) PROVE Goal
  BY <1>3, <1>5 DEF SyncVersion
<1>6. ASSUME NEW v \in Versions, OnChange(v) \/ ConfigModelDeployment(v) \/ AssignVersion(v)
      PROVE  Goal
  <2>1. ~StoreVersionNumber(v)
    BY <1>6, EarlyJobs DEF StoreVersionNumber, OnChange, TakeVersion, ConfigModelDeployment,
                           AssignVersion
  <2>2. \A u \in Versions : GivesNone(u)
    BY <1>6, <2>1, CopiesVersionWorker DEF VersionStep, NumberFrame
  <2> QED BY <1>1, <1>6, <2>2, EarlyJobs
<1>7. ASSUME NEW v \in Versions, StoreVersionNumber(v) PROVE Goal
  <2>1. vjob[v].pc = "status"
    BY <1>7 DEF StoreVersionNumber
  <2>2. PendingCovered'
    BY <1>0, <1>7, StoreEffect DEF PendingCovered
  <2>3. CounterCovers'
    BY <1>0, <1>7, <2>1, StoreEffect DEF PendingCovered, CounterCovers, Numbered
  <2> QED BY <2>2, <2>3
<1>8. ASSUME NEW v \in Versions, CountVersion(v) PROVE Goal
  <2>0. ASSUME NEW f \in [Templates -> Nat], NEW t \in Templates, NEW i \in Templates
        PROVE  f[i] <= [f EXCEPT ![t] = f[t] + 1][i]
    OBVIOUS
  <2>1. \A u \in Versions : counter[TemplateOf[u]] <= counter'[TemplateOf[u]]
    <3>1. counter' = [counter EXCEPT ![TemplateOf[v]] = counter[TemplateOf[v]] + 1]
      BY <1>0, <1>8, CountEffect
    <3>2. counter \in [Templates -> Nat] /\ \A u \in Versions : TemplateOf[u] \in Templates
      BY <1>0 DEF TypeOK
    <3> QED BY <2>0, <3>1, <3>2
  <2>2. counter'[TemplateOf[v]] = counter[TemplateOf[v]] + 1
    BY <1>0, <1>8, CountEffect DEF TypeOK
  <2>3. \A u \in Versions : counter'[TemplateOf[u]] \in Nat
    BY <1>0 DEF TypeOK
  <2>4. PendingCovered'
    BY <1>0, <1>8, <2>1, <2>3, CountEffect DEF PendingCovered
  <2>5. CounterCovers'
    <3> SUFFICES ASSUME NEW u \in Versions, Numbered(u)'
                 PROVE  ver'[u].version <= counter'[TemplateOf[u]]
                          + (IF vjob'[u].pc = "count" THEN 1 ELSE 0)
      BY DEF CounterCovers
    <3>1. Numbered(u) /\ ver'[u].version = ver[u].version
      BY <1>8, CountEffect DEF Numbered
    <3>2. ver[u].version <= counter[TemplateOf[u]] + (IF vjob[u].pc = "count" THEN 1 ELSE 0)
      BY <1>0, <3>1 DEF CounterCovers
    <3>3. CASE u = v
      BY <1>0, <1>8, <2>2, <2>3, <3>1, <3>2, <3>3, CountEffect
    <3>4. CASE u # v
      BY <1>0, <1>8, <2>1, <2>3, <3>1, <3>2, <3>4, CountEffect
    <3> QED BY <3>3, <3>4
  <2> QED BY <2>4, <2>5
<1>9. CASE Restart
  <2>1. PendingCovered'
    BY <1>9, RestartEffect DEF PendingCovered
  <2>2. \A v \in Versions : counter'[TemplateOf[v]] \in Nat
    BY <1>0 DEF TypeOK
  <2>3. CounterCovers'
    BY <1>0, <1>9, <2>2, RestartEffect DEF CounterCovers, Numbered
  <2> QED BY <2>1, <2>3
<1>10. CASE UNCHANGED vars
  BY <1>3, <1>10 DEF vars
<1> QED BY <1>2, <1>4, <1>5, <1>6, <1>7, <1>8, <1>9, <1>10 DEF Next, VersionStep

LEMMA CounterCorrect == ASSUME NoReset PROVE Spec => []CounterOK
<1>1. TypeOK /\ CopiesOK /\ TypeOK' /\ CounterOK /\ [Next]_vars => CounterOK'
  BY CounterStep
<1> QED BY <1>1, CounterInit, CopiesCorrect, PTL DEF Spec

\* latestVersionMap covers the numbers it handed out, for any number of workers, any
\* restarts and any deletions of versions, as long as no reply is lost and no
\* template deleted.
THEOREM CounterIsAhead == ASSUME NoReset PROVE Spec => []CounterCovers
<1>1. CounterOK => CounterCovers
  BY DEF CounterOK
<1> QED BY <1>1, CounterCorrect, PTL

-----------------------------------------------------------------------------
\* The refinement, for any number of workers.

\* What VersionNumbering calls number, pending and unfinished.
NumberOf == [v \in Versions |-> IF Numbered(v) THEN ver[v].version ELSE 0]
PendingOf == [v \in Versions |-> IF vjob[v].pc = "status" THEN vjob[v].n ELSE 0]
UnfinishedOf == {v \in Versions : vjob[v].pc = "count"}

\* What a step leaves alone in the abstract state.
LEMMA NumberStutters ==
  ASSUME \A v \in Versions : /\ KeepsNumber(v) /\ GivesNone(v)
                             /\ Numbered(v) => ver'[v].exists
  PROVE  UNCHANGED NumberOf
<1>1. \A v \in Versions : /\ Numbered(v)' <=> Numbered(v)
                          /\ Numbered(v) => ver'[v].version = ver[v].version
  BY DEF KeepsNumber, GivesNone, Numbered
<1> QED BY <1>1 DEF NumberOf

LEMMA PendingStutters ==
  ASSUME \A v \in Versions : \/ vjob'[v] = vjob[v]
                             \/ /\ vjob[v].pc \notin {"status", "count"}
                                /\ vjob'[v].pc \notin {"status", "count"}
  PROVE  UNCHANGED <<PendingOf, UnfinishedOf>>
<1>1. \A v \in Versions : /\ vjob'[v].pc = "status" <=> vjob[v].pc = "status"
                          /\ vjob'[v].pc = "count" <=> vjob[v].pc = "count"
                          /\ vjob[v].pc = "status" => vjob'[v].n = vjob[v].n
  OBVIOUS
<1> QED BY <1>1 DEF PendingOf, UnfinishedOf

LEMMA PendingMoves ==
  ASSUME NEW v \in Versions, NEW n, \A u \in Versions \ {v} : vjob'[u] = vjob[u],
         n = IF vjob'[v].pc = "status" THEN vjob'[v].n ELSE 0
  PROVE  PendingOf' = [PendingOf EXCEPT ![v] = n]
<1>1. \A u \in Versions : PendingOf'[u] = IF u = v THEN n ELSE PendingOf[u]
  BY DEF PendingOf
<1>2. /\ PendingOf = [u \in Versions |-> PendingOf[u]]
      /\ PendingOf' = [u \in Versions |-> PendingOf'[u]]
  BY DEF PendingOf
<1> HIDE DEF PendingOf
<1> QED BY <1>1, <1>2

LEMMA NumberMoves ==
  ASSUME NEW v \in Versions, NEW n, \A u \in Versions \ {v} : ver'[u] = ver[u],
         n = IF Numbered(v)' THEN ver'[v].version ELSE 0
  PROVE  NumberOf' = [NumberOf EXCEPT ![v] = n]
<1>1. \A u \in Versions : NumberOf'[u] = IF u = v THEN n ELSE NumberOf[u]
  BY DEF NumberOf, Numbered
<1>2. /\ NumberOf = [u \in Versions |-> NumberOf[u]]
      /\ NumberOf' = [u \in Versions |-> NumberOf'[u]]
  BY DEF NumberOf
<1> HIDE DEF NumberOf
<1> QED BY <1>1, <1>2

\* A user who deletes a version deletes its number; the other users change none.
LEMMA UserNumbers ==
  ASSUME TypeOK, CopiesOK, UserStep
  PROVE  UNCHANGED NumberOf \/ \E v \in Versions : NumberOf' = [NumberOf EXCEPT ![v] = 0]
<1> DEFINE Goal == UNCHANGED NumberOf \/ \E v \in Versions : NumberOf' = [NumberOf EXCEPT ![v] = 0]
<1> SUFFICES Goal
  OBVIOUS
<1>1. ASSUME NEW v \in Versions, DeleteVersion(v) PROVE Goal
  <2>1. ~Numbered(v)' /\ \A u \in Versions \ {v} : ver'[u] = ver[u]
    BY <1>1 DEF DeleteVersion, Removed, Numbered, TypeOK, VersionObject
  <2> QED BY <2>1, NumberMoves
<1>2. CASE \A v \in Versions : ver[v].exists => ver'[v].exists
  <2>1. \A v \in Versions : KeepsNumber(v) /\ GivesNone(v)
    BY UserEffect
  <2> QED BY <1>2, <2>1, NumberStutters DEF Numbered
<1>3. CASE UNCHANGED ver
  BY <1>2, <1>3
<1>4. ASSUME NEW v \in Versions, NEW valid \in SpecValidity, NEW tick \in Ticks,
             CreateVersion(v, valid, tick)
      PROVE  Goal
  <2>1. \A u \in Versions : ver[u].exists => ver'[u].exists
    BY <1>4 DEF CreateVersion, Changed, NoVersion, TypeOK
  <2> QED BY <1>2, <2>1
<1>5. ASSUME NEW v \in Versions, EditVersion(v) PROVE Goal
  <2>1. ver'[v].exists = ver[v].exists
    <3>1. ver[v] \in VersionObject
      BY DEF TypeOK
    <3>2. ver'[v] = Changed(ver[v], [ver[v] EXCEPT !.valid = ~ver[v].valid])
      BY <1>5 DEF EditVersion, TypeOK
    <3> QED BY <3>1, <3>2 DEF Changed, VersionObject
  <2>2. \A u \in Versions \ {v} : ver'[u] = ver[u]
    BY <1>5 DEF EditVersion, TypeOK
  <2> QED BY <1>2, <2>1, <2>2
<1>6. CASE \/ \E t \in Templates : CreateTemplate(t) \/ DeleteTemplate(t)
           \/ \E t \in Templates, v \in Versions : ChooseDefault(t, v)
  BY <1>3, <1>6 DEF CreateTemplate, DeleteTemplate, ChooseDefault
<1> QED BY <1>1, <1>4, <1>5, <1>6 DEF UserStep

\* The three steps of AssignVersion.  Reading the counter begins a numbering: the counter
\* covers the number of every version that no job is about to count.
LEMMA AssignBegins ==
  ASSUME TypeOK, TypeOK', CopiesOK, CounterOK, NEW v \in Versions, AssignVersion(v)
  PROVE  \/ UNCHANGED <<NumberOf, PendingOf, UnfinishedOf>>
         \/ Numbering!Begin(v)
<1> DEFINE n == counter[TemplateOf[v]] + 1
<1>1. /\ TemplateOf[v] \in Templates /\ counter[TemplateOf[v]] \in Nat /\ n \in Nat \ {0}
      /\ vjob[v].pc = "update" /\ vjob \in [Versions -> VersionJob]
  BY TemplateOfAssumption DEF TypeOK, AssignVersion
<1>2. UNCHANGED NumberOf
  <2>1. ~StoreVersionNumber(v) /\ VersionStep(v)
    BY <1>1 DEF StoreVersionNumber, VersionStep
  <2>2. \A u \in Versions : NumberFrame(v, u)
    BY <2>1, CopiesVersionWorker
  <2>3. \A u \in Versions : KeepsNumber(u) /\ GivesNone(u) /\ Survives(u)
    BY <2>1, <2>2 DEF NumberFrame
  <2> QED BY <2>3, NumberStutters DEF Survives, Numbered
<1>3. CASE \E failed : EndVersion(v, failed)
  <2>1. \A u \in Versions : vjob'[u] = IF u = v THEN IdleV ELSE vjob[u]
    BY <1>1, <1>3 DEF EndVersion
  <2> QED BY <1>1, <1>2, <2>1, PendingStutters DEF IdleV
<1>4. ASSUME NEW new, new = [vjob[v].obj EXCEPT !.label = TRUE,
                               !.owner = IF vjob[v].obj.owner = "none" THEN "template"
                                                                       ELSE vjob[v].obj.owner],
             Submit(v, new, TRUE), NeedsNumber(vjob[v].obj),
             vjob' = [vjob EXCEPT ![v] = [pc |-> "status", obj |-> new, n |-> n,
                                          failed |-> vjob[v].failed]]
      PROVE  Numbering!Begin(v)
  <2>1. vjob'[v].pc = "status" /\ vjob'[v].n = n /\ \A u \in Versions \ {v} : vjob'[u] = vjob[u]
    BY <1>1, <1>4
  <2>2. PendingOf' = [PendingOf EXCEPT ![v] = n] /\ PendingOf[v] = 0
    BY <1>1, <2>1, PendingMoves DEF PendingOf
  <2>3. PendingOf'[v] = n
    BY <2>1 DEF PendingOf
  <2>4. UNCHANGED UnfinishedOf
    BY <1>1, <2>1 DEF UnfinishedOf
  <2>5. ~Numbered(v)
    <3>1. vjob[v].obj \in VersionObject /\ CopyOf(vjob[v].obj, ver[v])
      BY <1>1 DEF VersionJob, CopiesOK
    <3>2. new.rv = vjob[v].obj.rv
      BY <1>4, <3>1 DEF VersionObject
    <3>3. vjob[v].obj = ver[v]
      BY <1>4, <3>1, <3>2 DEF Submit, Accepts, CopyOf
    <3> QED BY <1>4, <3>3 DEF NeedsNumber, Numbered
  <2>6. NumberOf[v] = 0
    BY <2>5 DEF NumberOf
  <2>7. ASSUME NEW u \in Numbering!Siblings(v) \ UnfinishedOf PROVE NumberOf[u] < n
    <3>1. u \in Versions /\ TemplateOf[u] = TemplateOf[v] /\ vjob[u].pc # "count"
      BY <2>7 DEF Numbering!Siblings, UnfinishedOf
    <3>2. CASE Numbered(u)
      <4>1. ver[u].version <= counter[TemplateOf[v]] + 0 /\ ver[u].version \in Nat
        BY <3>1, <3>2 DEF CounterOK, CounterCovers, TypeOK, VersionObject
      <4>2. NumberOf[u] = ver[u].version
        BY <3>1, <3>2 DEF NumberOf
      <4> QED BY <1>1, <4>1, <4>2
    <3>3. CASE ~Numbered(u)
      <4>1. NumberOf[u] = 0
        BY <3>1, <3>3 DEF NumberOf
      <4> QED BY <1>1, <4>1
    <3> QED BY <3>2, <3>3
  <2> HIDE DEF n
  <2> QED BY <1>1, <1>2, <2>2, <2>3, <2>4, <2>6, <2>7
          DEF Numbering!Begin, NumberOf, PendingOf, UnfinishedOf
<1> QED BY <1>1, <1>3, <1>4 DEF AssignVersion

LEMMA StoreStores ==
  ASSUME NoReset, TypeOK, CopiesOK, CounterOK, NEW v \in Versions, StoreVersionNumber(v)
  PROVE  Numbering!StoreNumber(v) \/ Numbering!GiveUp(v)
<1>1. /\ vjob[v].pc = "status" /\ vjob[v].n # 0
      /\ \A u \in Versions \ {v} : ver'[u] = ver[u] /\ vjob'[u] = vjob[u]
  BY StoreEffect DEF StoreVersionNumber, CounterOK, PendingCovered
<1>2. CASE /\ ver'[v].assigned /\ ver'[v].version = vjob[v].n /\ vjob'[v].pc = "count"
           /\ ~ver[v].assigned /\ ver'[v].exists
  <2>1. PendingOf' = [PendingOf EXCEPT ![v] = 0] /\ PendingOf[v] = vjob[v].n
    BY <1>1, <1>2, PendingMoves DEF PendingOf
  <2>2. NumberOf' = [NumberOf EXCEPT ![v] = vjob[v].n] /\ NumberOf[v] = 0
    BY <1>1, <1>2, NumberMoves DEF NumberOf, Numbered
  <2>3. UnfinishedOf' = UnfinishedOf \cup {v}
    BY <1>1, <1>2 DEF UnfinishedOf
  <2> QED BY <1>1, <2>1, <2>2, <2>3
          DEF Numbering!StoreNumber, NumberOf, PendingOf, UnfinishedOf
<1>3. CASE ver'[v] = ver[v] /\ vjob'[v].pc = "idle"
  <2>1. PendingOf' = [PendingOf EXCEPT ![v] = 0]
    BY <1>1, <1>3, PendingMoves
  <2>2. UNCHANGED NumberOf
    BY <1>1, <1>3 DEF NumberOf, Numbered
  <2>3. UNCHANGED UnfinishedOf
    BY <1>1, <1>3 DEF UnfinishedOf
  <2> QED BY <2>1, <2>2, <2>3 DEF Numbering!GiveUp, NumberOf, PendingOf, UnfinishedOf
<1> QED BY <1>2, <1>3, StoreEffect

LEMMA CountFinishes ==
  ASSUME TypeOK, NEW v \in Versions, CountVersion(v)
  PROVE  Numbering!Finish(v)
<1>1. /\ vjob[v].pc = "count" /\ vjob'[v].pc = "idle" /\ UNCHANGED ver
      /\ \A u \in Versions \ {v} : vjob'[u] = vjob[u]
  BY CountEffect
<1>2. UnfinishedOf' = UnfinishedOf \ {v} /\ v \in UnfinishedOf
  BY <1>1 DEF UnfinishedOf
<1>3. \A u \in Versions : PendingOf'[u] = PendingOf[u]
  BY <1>1 DEF PendingOf
<1>4. UNCHANGED <<PendingOf, NumberOf>>
  BY <1>1, <1>3 DEF PendingOf, NumberOf, Numbered
<1> QED BY <1>2, <1>4 DEF Numbering!Finish, NumberOf, PendingOf, UnfinishedOf

LEMMA NumberingInit == Init => Numbering!Init
<1> SUFFICES ASSUME Init PROVE Numbering!Init
  OBVIOUS
<1>1. \A v \in Versions : ~Numbered(v) /\ vjob[v].pc = "idle"
  BY DEF Init, Numbered, NoVersion, IdleV
<1> QED BY <1>1 DEF Numbering!Init

LEMMA NumberingStep ==
  ASSUME NoReset, TypeOK, TypeOK', CopiesOK, CounterOK, [Next]_vars
  PROVE  UNCHANGED <<NumberOf, PendingOf, UnfinishedOf>> \/ Numbering!Next
<1> DEFINE Stutter == UNCHANGED <<NumberOf, PendingOf, UnfinishedOf>>
           Goal == Stutter \/ Numbering!Next
<1> SUFFICES Goal
  OBVIOUS
<1>1. CASE UNCHANGED <<ver, vjob>>
  BY <1>1 DEF NumberOf, PendingOf, UnfinishedOf, Numbered
<1>2. CASE UserStep
  <2>1. UNCHANGED <<PendingOf, UnfinishedOf>>
    BY <1>2, UserEffect DEF PendingOf, UnfinishedOf
  <2>2. ASSUME NEW v \in Versions, NumberOf' = [NumberOf EXCEPT ![v] = 0]
        PROVE  Numbering!Delete(v)
    BY <2>1, <2>2 DEF Numbering!Delete, NumberOf, PendingOf, UnfinishedOf
  <2> QED BY <1>2, <2>1, <2>2, UserNumbers DEF Numbering!Next
<1>3. ASSUME NEW v \in Versions, OnChange(v) \/ ConfigModelDeployment(v) PROVE Goal
  <2>1. ~StoreVersionNumber(v)
    BY <1>3 DEF StoreVersionNumber, OnChange, TakeVersion, ConfigModelDeployment
  <2>2. \A u \in Versions : KeepsNumber(u) /\ GivesNone(u) /\ Survives(u)
    BY <1>3, <2>1, CopiesVersionWorker DEF NumberFrame, VersionStep
  <2>3. UNCHANGED NumberOf
    BY <2>2, NumberStutters DEF Survives, Numbered
  <2>4. \A u \in Versions : \/ vjob'[u] = vjob[u]
                            \/ /\ vjob[u].pc \notin {"status", "count"}
                               /\ vjob'[u].pc \notin {"status", "count"}
    BY <1>3 DEF OnChange, TakeVersion, ConfigModelDeployment, Hand, TypeOK
  <2> QED BY <2>3, <2>4, PendingStutters
<1>4. ASSUME NEW v \in Versions, AssignVersion(v) PROVE Goal
  BY <1>4, AssignBegins DEF Numbering!Next
<1>5. ASSUME NEW v \in Versions, StoreVersionNumber(v) PROVE Goal
  BY <1>5, StoreStores DEF Numbering!Next
<1>6. ASSUME NEW v \in Versions, CountVersion(v) PROVE Goal
  BY <1>6, CountFinishes DEF Numbering!Next
<1>7. CASE Restart
  <2>1. UNCHANGED ver /\ \A v \in Versions : vjob'[v].pc = "idle"
    BY <1>7, RestartEffect
  <2>2. Numbering!Crash
    BY <2>1 DEF Numbering!Crash, Numbered
  <2> QED BY <2>2 DEF Numbering!Next
<1>8. CASE \/ \E t \in Templates : SyncTemplate(t) \/ SetDefaultVersion(t) \/ TemplateStep(t)
           \/ \E v \in Versions : SyncVersion(v)
           \/ UNCHANGED vars
  BY <1>1, <1>8 DEF SyncTemplate, SetDefaultVersion, TemplateStep, SyncLatestVersion, AddFinalizer,
                    DeleteLatestVersion, SyncVersion, vars
<1> QED BY <1>2, <1>3, <1>4, <1>5, <1>6, <1>7, <1>8 DEF Next, VersionStep

\* However many workers run the three steps of AssignVersion at once, and across new
\* leaders, they implement the abstract numbering: a number is above those of all versions
\* whose numbers were counted when it was chosen, and is kept until its version is deleted.
THEOREM NumberingImplemented == ASSUME NoReset PROVE Spec => ImplementsNumbering
<1>1. NoReset /\ TypeOK /\ CopiesOK /\ TypeOK' /\ CounterOK /\ [Next]_vars
      => [Numbering!Next]_(Numbering!vars)
  BY NumberingStep DEF Numbering!vars, NumberOf, PendingOf, UnfinishedOf
<1> QED BY <1>1, NumberingInit, CopiesCorrect, CounterCorrect,
           PTL DEF Spec, ImplementsNumbering, Numbering!Spec

-----------------------------------------------------------------------------
\* The default that is picked.  Copies of a template are like those of a version, and
\* a version that a cache shows with a number has one.

TemplateCopiesOK ==
  \A t \in Templates : /\ CopyOf(tcache[t], tmpl[t])
                       /\ tjob[t].pc # "idle" => CopyOf(tjob[t].obj, tmpl[t])

NumbersSeen ==
  \A v \in Versions : (vcache[v].exists /\ vcache[v].assigned /\ ver[v].exists) => ver[v].assigned

\* What a call of a template handler does: it stores a change of its own object only
\* when that is the stored one.
LEMMA TemplateCallEffect ==
  ASSUME TypeOK, NEW t \in Templates, NEW obj \in TemplateObject, NEW new \in TemplateObject,
         NEW ok, CopyOf(obj, tmpl[t]), new.rv = obj.rv, SubmitTemplate(t, new, ok)
  PROVE  /\ tmpl'[t] \in TemplateObject /\ Later(tmpl[t], tmpl'[t])
         /\ \A u \in Templates \ {t} : tmpl'[u] = tmpl[u]
         /\ CopyOf(obj, tmpl'[t]) /\ CopyOf(tmpl'[t], tmpl'[t])
         /\ tmpl'[t].defaultID # tmpl[t].defaultID =>
              obj = tmpl[t] /\ tmpl'[t].defaultID = new.defaultID
<1>1. tmpl[t] \in TemplateObject /\ tmpl[t].rv \in Nat /\ obj.rv \in Nat
  BY DEF TypeOK, TemplateObject
<1>2. \A u \in Templates \ {t} : tmpl'[u] = tmpl[u]
  BY DEF SubmitTemplate, TypeOK
<1>3. CASE UNCHANGED tmpl
  BY <1>1, <1>2, <1>3 DEF Later, CopyOf, TemplateObject
<1>4. CASE ~UNCHANGED tmpl
  <2>1. obj = tmpl[t] /\ tmpl'[t] = Stored(tmpl[t], new)
    BY <1>4 DEF SubmitTemplate, Accepts, CopyOf, TypeOK
  <2>2. CASE new = tmpl[t]
    BY <1>1, <1>2, <2>1, <2>2 DEF Stored, Later, CopyOf
  <2>3. CASE new # tmpl[t]
    <3>1. PICK n \in Nat : n = tmpl[t].rv + 1
      BY <1>1
    <3>2. tmpl'[t] = [new EXCEPT !.rv = n]
      BY <2>1, <2>3, <3>1 DEF Stored
    <3>3. /\ tmpl'[t] \in TemplateObject /\ tmpl'[t].rv = n
          /\ tmpl'[t].defaultID = new.defaultID
      BY <3>2 DEF TemplateObject
    <3> QED BY <1>1, <1>2, <2>1, <3>1, <3>3 DEF Later, CopyOf
  <2> QED BY <2>2, <2>3
<1> QED BY <1>3, <1>4

\* What a worker's step does to the template whose key it holds.
TemplateEffect(t) ==
  /\ tcache' = tcache
  /\ \A u \in Templates \ {t} : tmpl'[u] = tmpl[u] /\ tjob'[u] = tjob[u]
  /\ tmpl'[t] \in TemplateObject /\ Later(tmpl[t], tmpl'[t])
  /\ tjob'[t].pc # "idle" => CopyOf(tjob'[t].obj, tmpl'[t])
  /\ tmpl'[t].defaultID # tmpl[t].defaultID => tmpl'[t].defaultID \in Candidates(t)

LEMMA TemplateCallHandsOn ==
  ASSUME TypeOK, NEW t \in Templates, NEW obj \in TemplateObject, NEW new \in TemplateObject,
         NEW ok \in BOOLEAN, NEW pc, NEW failed, CopyOf(obj, tmpl[t]), new.rv = obj.rv,
         SubmitTemplate(t, new, ok), tcache' = tcache,
         new.defaultID = obj.defaultID \/ new.defaultID \in Candidates(t),
         \/ HandTemplate(t, pc, IF ok THEN tmpl'[t] ELSE obj, ~ok)
         \/ HandTemplate(t, pc, obj, ~ok)
         \/ EndTemplate(t, failed)
  PROVE  TemplateEffect(t)
<1>1. /\ tmpl'[t] \in TemplateObject /\ Later(tmpl[t], tmpl'[t])
      /\ \A u \in Templates \ {t} : tmpl'[u] = tmpl[u]
      /\ CopyOf(obj, tmpl'[t]) /\ CopyOf(tmpl'[t], tmpl'[t])
      /\ tmpl'[t].defaultID # tmpl[t].defaultID =>
           obj = tmpl[t] /\ tmpl'[t].defaultID = new.defaultID
  BY TemplateCallEffect
<1>2. \A u \in Templates \ {t} : tjob'[u] = tjob[u]
  BY DEF HandTemplate, EndTemplate, TypeOK
<1>3. tjob'[t].pc = "idle" \/ tjob'[t].obj = obj \/ tjob'[t].obj = tmpl'[t]
  BY DEF HandTemplate, EndTemplate, IdleT, TypeOK
<1> QED BY <1>1, <1>2, <1>3 DEF TemplateEffect

\* The same for a step that makes no call.
LEMMA QuietTemplate ==
  ASSUME TypeOK, NEW t \in Templates, NEW obj \in TemplateObject, NEW pc, NEW failed,
         CopyOf(obj, tmpl[t]), UNCHANGED <<tmpl, tcache>>,
         HandTemplate(t, pc, obj, failed) \/ EndTemplate(t, failed)
  PROVE  TemplateEffect(t)
<1>1. \A u \in Templates \ {t} : tjob'[u] = tjob[u]
  BY DEF HandTemplate, EndTemplate, TypeOK
<1>2. tjob'[t].pc = "idle" \/ tjob'[t].obj = obj
  BY DEF HandTemplate, EndTemplate, IdleT, TypeOK
<1> QED BY <1>1, <1>2 DEF TemplateEffect, Later, TypeOK

LEMMA TemplateWorkerEffect ==
  ASSUME TypeOK, TemplateCopiesOK, NEW t \in Templates,
         SetDefaultVersion(t) \/ TemplateStep(t)
  PROVE  TemplateEffect(t) \/ UNCHANGED <<tmpl, tcache, tjob>>
<1>1. ASSUME SetDefaultVersion(t), ~UNCHANGED <<tmpl, tcache, tjob>>
      PROVE  TemplateEffect(t)
  <2>1. PICK obj \in TemplateObject : obj = tcache[t]
    BY DEF TypeOK
  <2>2. CopyOf(obj, tmpl[t]) /\ tcache' = tcache
    BY <1>1, <2>1 DEF TemplateCopiesOK, SetDefaultVersion
  <2> DEFINE n == vcache[obj.defaultID].version
             picked(v) == [obj EXCEPT !.defaultID = v]
             missed    == [obj EXCEPT !.assigned = "false", !.missing = obj.defaultID]
             recorded  == [obj EXCEPT !.defaultVersion = n, !.assigned = "true",
                                      !.missing = None]
             handed(new, ok) ==
               /\ SubmitTemplate(t, new, ok)
               /\ \/ HandTemplate(t, "sync", IF ok THEN tmpl'[t] ELSE obj, ~ok)
                  \/ HandTemplate(t, "sync", obj, ~ok)
  <2>3. \/ \E failed \in BOOLEAN : Skip(t, "sync", obj, failed)
        \/ \E v \in Versions, ok \in BOOLEAN :
             IsFirstTemplateVersion(t, v) /\ handed(picked(v), ok)
        \/ \E ok \in BOOLEAN : handed(missed, ok)
        \/ \E ok \in BOOLEAN : obj.defaultID # None /\ handed(recorded, ok)
    BY <1>1, <2>1, <2>2
       DEF SetDefaultVersion, PickDefault, DefaultNotFound, RecordDefault
  <2>4. ASSUME NEW new \in TemplateObject, NEW ok \in BOOLEAN, handed(new, ok),
               new.rv = obj.rv, new.defaultID = obj.defaultID \/ new.defaultID \in Candidates(t)
        PROVE  TemplateEffect(t)
    BY <2>2, <2>4, TemplateCallHandsOn
  <2>5. ASSUME NEW failed \in BOOLEAN, Skip(t, "sync", obj, failed)
        PROVE  TemplateEffect(t)
    BY <2>2, <2>5, QuietTemplate DEF Skip
  <2>6. ASSUME NEW v \in Versions, NEW ok \in BOOLEAN, IsFirstTemplateVersion(t, v),
               handed(picked(v), ok)
        PROVE  TemplateEffect(t)
    <3>1. picked(v) \in TemplateObject /\ picked(v).rv = obj.rv /\ picked(v).defaultID = v
      BY DEF TemplateObject
    <3>2. v \in Candidates(t)
      BY <2>6 DEF IsFirstTemplateVersion
    <3> HIDE DEF picked, handed
    <3> QED BY <2>4, <2>6, <3>1, <3>2
  <2>7. ASSUME NEW ok \in BOOLEAN, handed(missed, ok)
        PROVE  TemplateEffect(t)
    <3>1. missed \in TemplateObject /\ missed.rv = obj.rv /\ missed.defaultID = obj.defaultID
      BY DEF TemplateObject, Condition
    <3> HIDE DEF missed, handed
    <3> QED BY <2>4, <2>7, <3>1
  <2>8. ASSUME NEW ok \in BOOLEAN, obj.defaultID # None, handed(recorded, ok)
        PROVE  TemplateEffect(t)
    <3>1. obj.defaultID \in Versions
      BY <2>8 DEF TemplateObject
    <3>2. n \in Nat
      BY <3>1 DEF TypeOK, VersionObject
    <3> HIDE DEF n
    <3>3. /\ recorded \in TemplateObject /\ recorded.rv = obj.rv
          /\ recorded.defaultID = obj.defaultID
      BY <3>2 DEF TemplateObject, Condition
    <3> HIDE DEF recorded, handed
    <3> QED BY <2>4, <2>8, <3>3
  <2> HIDE DEF handed, picked, missed, recorded
  <2> QED BY <2>3, <2>5, <2>6, <2>7, <2>8
<1>2. ASSUME TemplateStep(t)
      PROVE  TemplateEffect(t)
  <2>1. PICK obj \in TemplateObject : obj = tjob[t].obj /\ CopyOf(obj, tmpl[t])
    BY <1>2 DEF TemplateStep, SyncLatestVersion, AddFinalizer, DeleteLatestVersion,
                TypeOK, TemplateJob, TemplateCopiesOK
  <2>2. CASE SyncLatestVersion(t)
    <3> DEFINE new == [obj EXCEPT !.latest = counter[t]]
    <3>1. /\ tcache' = tcache
          /\ \/ Skip(t, "lifecycle", obj, FALSE)
             \/ \E ok \in BOOLEAN :
                  /\ SubmitTemplate(t, new, ok)
                  /\ HandTemplate(t, "lifecycle", IF ok THEN tmpl'[t] ELSE obj, ~ok)
      BY <2>1, <2>2 DEF SyncLatestVersion
    <3>2. new \in TemplateObject /\ new.rv = obj.rv /\ new.defaultID = obj.defaultID
      BY DEF TypeOK, TemplateObject
    <3> HIDE DEF new
    <3>3. CASE Skip(t, "lifecycle", obj, FALSE)
      BY <2>1, <3>1, <3>3, QuietTemplate DEF Skip
    <3>4. CASE ~Skip(t, "lifecycle", obj, FALSE)
      BY <2>1, <3>1, <3>2, <3>4, TemplateCallHandsOn
    <3> QED BY <3>3, <3>4
  <2>3. CASE AddFinalizer(t)
    <3> DEFINE new == [obj EXCEPT !.finalizer = TRUE]
    <3>1. /\ tcache' = tcache
          /\ \/ EndTemplate(t, tjob[t].failed) /\ UNCHANGED tmpl
             \/ \E ok \in BOOLEAN : /\ SubmitTemplate(t, new, ok)
                                    /\ EndTemplate(t, tjob[t].failed \/ ~ok)
      BY <2>1, <2>3 DEF AddFinalizer
    <3>2. new \in TemplateObject /\ new.rv = obj.rv /\ new.defaultID = obj.defaultID
      BY DEF TemplateObject
    <3> HIDE DEF new
    <3> QED BY <2>1, <3>1, <3>2, QuietTemplate, TemplateCallHandsOn
  <2>4. CASE DeleteLatestVersion(t)
    <3>1. tmpl[t] \in TemplateObject /\ tmpl[t].rv + 1 \in Nat
      BY DEF TypeOK, TemplateObject
    <3>2. /\ tcache' = tcache /\ \E failed : EndTemplate(t, failed)
          /\ UNCHANGED tmpl \/ tmpl' = [tmpl EXCEPT ![t] = Removed(tmpl[t])]
      BY <2>4 DEF DeleteLatestVersion
    <3>3. CASE UNCHANGED tmpl
      BY <2>1, <3>2, <3>3, QuietTemplate
    <3>4. CASE tmpl' = [tmpl EXCEPT ![t] = Removed(tmpl[t])]
      <4>1. /\ tmpl'[t] = [tmpl[t] EXCEPT !.exists = FALSE, !.rv = tmpl[t].rv + 1]
            /\ \A u \in Templates \ {t} : tmpl'[u] = tmpl[u]
        BY <3>4 DEF Removed, TypeOK
      <4>2. /\ tmpl'[t] \in TemplateObject /\ Later(tmpl[t], tmpl'[t])
            /\ tmpl'[t].defaultID = tmpl[t].defaultID
        <5>1. PICK cur \in TemplateObject, n \in Nat : cur = tmpl[t] /\ n = cur.rv + 1
          BY <3>1
        <5>2. tmpl'[t] = [cur EXCEPT !.exists = FALSE, !.rv = n]
          BY <4>1, <5>1
        <5>3. /\ tmpl'[t] \in TemplateObject /\ tmpl'[t].rv = n
              /\ tmpl'[t].defaultID = cur.defaultID
          BY <5>2 DEF TemplateObject
        <5>4. n > cur.rv
          BY <5>1 DEF TemplateObject
        <5> QED BY <5>1, <5>3, <5>4 DEF Later
      <4>3. /\ \A u \in Templates \ {t} : tjob'[u] = tjob[u]
            /\ tjob'[t].pc = "idle"
        BY <3>2 DEF EndTemplate, IdleT, TypeOK
      <4> QED BY <3>2, <4>1, <4>2, <4>3 DEF TemplateEffect
    <3> QED BY <3>2, <3>3, <3>4
  <2> QED BY <1>2, <2>2, <2>3, <2>4 DEF TemplateStep
<1> QED BY <1>1, <1>2

\* A copy of a template stays one.
LEMMA TemplateCopyLater ==
  ASSUME NEW copy \in TemplateObject, NEW cur \in TemplateObject, NEW nxt \in TemplateObject,
         CopyOf(copy, cur), Later(cur, nxt)
  PROVE  CopyOf(copy, nxt)
BY DEF CopyOf, Later, TemplateObject

LEMMA TemplateCopiesKept ==
  ASSUME TypeOK, TypeOK', TemplateCopiesOK,
         \A t \in Templates :
           /\ Later(tmpl[t], tmpl'[t])
           /\ tcache'[t] = tcache[t] \/ tcache'[t] = tmpl'[t]
           /\ \/ tjob'[t] = tjob[t]
              \/ tjob'[t].pc = "idle"
              \/ CopyOf(tjob'[t].obj, tmpl'[t])
  PROVE  TemplateCopiesOK'
<1> SUFFICES ASSUME NEW t \in Templates
             PROVE  /\ CopyOf(tcache'[t], tmpl'[t])
                    /\ tjob'[t].pc # "idle" => CopyOf(tjob'[t].obj, tmpl'[t])
  BY DEF TemplateCopiesOK
<1>1. /\ tmpl[t] \in TemplateObject /\ tmpl'[t] \in TemplateObject
      /\ tcache[t] \in TemplateObject /\ tjob[t].obj \in TemplateObject
  BY DEF TypeOK, TemplateJob
<1>2. CopyOf(tmpl'[t], tmpl'[t])
  BY <1>1 DEF CopyOf, TemplateObject
<1>3. CopyOf(tcache[t], tmpl'[t])
  BY <1>1, TemplateCopyLater DEF TemplateCopiesOK
<1>4. tjob[t].pc # "idle" => CopyOf(tjob[t].obj, tmpl'[t])
  BY <1>1, TemplateCopyLater DEF TemplateCopiesOK
<1> QED BY <1>2, <1>3, <1>4

LEMMA TemplateUserEffect ==
  ASSUME TypeOK, UserStep
  PROVE  /\ \A t \in Templates : Later(tmpl[t], tmpl'[t])
         /\ UNCHANGED <<tcache, tjob>>
<1>1. UNCHANGED <<tcache, tjob>>
  BY DEF UserStep, CreateTemplate, DeleteTemplate, ChooseDefault, CreateVersion,
         DeleteVersion, EditVersion
<1>2. \A t \in Templates : tmpl[t] \in TemplateObject /\ tmpl[t].rv + 1 > tmpl[t].rv
  BY DEF TypeOK, TemplateObject
<1>3. CASE UNCHANGED tmpl
  BY <1>1, <1>3 DEF Later
<1>4. ASSUME NEW t \in Templates, NEW new, new.rv = tmpl[t].rv + 1,
             tmpl' = [tmpl EXCEPT ![t] = new]
      PROVE  \A u \in Templates : Later(tmpl[u], tmpl'[u])
  BY <1>2, <1>4 DEF Later, TypeOK
<1>5. \A t \in Templates : \A new \in TemplateObject :
        Changed(tmpl[t], new).rv = tmpl[t].rv + 1
  BY DEF Changed, TemplateObject
<1>6. ASSUME NEW t \in Templates, CreateTemplate(t)
      PROVE  \A u \in Templates : Later(tmpl[u], tmpl'[u])
  <2>1. [NoTemplate EXCEPT !.exists = TRUE] \in TemplateObject
    BY DEF NoTemplate, TemplateObject, Condition
  <2> QED BY <1>4, <1>5, <1>6, <2>1 DEF CreateTemplate
<1>7. ASSUME NEW t \in Templates, DeleteTemplate(t)
      PROVE  \A u \in Templates : Later(tmpl[u], tmpl'[u])
  <2>1. [tmpl[t] EXCEPT !.deleting = TRUE] \in TemplateObject
    BY <1>2 DEF TemplateObject
  <2>2. Removed(tmpl[t]).rv = tmpl[t].rv + 1
    BY <1>2 DEF Removed, TemplateObject
  <2> QED BY <1>4, <1>5, <1>7, <2>1, <2>2 DEF DeleteTemplate
<1>8. ASSUME NEW t \in Templates, NEW v \in Versions, ChooseDefault(t, v)
      PROVE  \A u \in Templates : Later(tmpl[u], tmpl'[u])
  <2>1. [tmpl[t] EXCEPT !.defaultID = v] \in TemplateObject
    BY <1>2 DEF TemplateObject
  <2> QED BY <1>4, <1>5, <1>8, <2>1 DEF ChooseDefault
<1> QED BY <1>1, <1>3, <1>6, <1>7, <1>8 DEF UserStep, CreateVersion, DeleteVersion, EditVersion

LEMMA TemplateCopiesStep ==
  ASSUME TypeOK, TypeOK', TemplateCopiesOK, [Next]_vars
  PROVE  TemplateCopiesOK'
<1>1. CASE UNCHANGED <<tmpl, tcache, tjob>>
  BY <1>1 DEF TemplateCopiesOK
<1>2. CASE UserStep
  BY <1>2, TemplateUserEffect, TemplateCopiesKept
<1>3. ASSUME NEW t \in Templates, SyncTemplate(t)
      PROVE  TemplateCopiesOK'
  <2>1. \A u \in Templates : tcache'[u] = tcache[u] \/ tcache'[u] = tmpl'[u]
    BY <1>3 DEF SyncTemplate, TypeOK
  <2> QED BY <1>3, <2>1, TemplateCopiesKept DEF SyncTemplate, Later
<1>4. ASSUME NEW t \in Templates, TemplateEffect(t)
      PROVE  TemplateCopiesOK'
  BY <1>4, TemplateCopiesKept DEF TemplateEffect, Later
<1>5. CASE Restart
  BY <1>5, TemplateCopiesKept DEF Restart, IdleT, Later
<1>6. ASSUME NEW v \in Versions, SyncVersion(v) \/ OnChange(v) \/ VersionStep(v)
      PROVE  TemplateCopiesOK'
  BY <1>1, <1>6 DEF SyncVersion, OnChange, VersionStep, ConfigModelDeployment, AssignVersion,
                    StoreVersionNumber, CountVersion
<1> QED BY <1>1, <1>2, <1>3, <1>4, <1>5, <1>6, TemplateWorkerEffect DEF Next, vars

\* A version appears once.
LEMMA AppearsOnce ==
  ASSUME TypeOK, TypeOK', CopiesOK, [Next]_vars, NEW v \in Versions, ver'[v].exists
  PROVE  ver[v].exists \/ ver[v].rv = 0
<1>1. CASE UNCHANGED ver
  BY <1>1
<1>2. ASSUME NEW u \in Versions, OnChange(u) \/ VersionStep(u)
      PROVE  ver[v].exists
  BY <1>2, CopiesVersionWorker DEF NumberFrame, Survives
<1>3. ASSUME NEW u \in Versions, NEW valid \in SpecValidity, NEW tick \in Ticks,
             CreateVersion(u, valid, tick)
      PROVE  ver[v].exists \/ ver[v].rv = 0
  BY <1>3 DEF CreateVersion, TypeOK
<1>4. ASSUME NEW u \in Versions, DeleteVersion(u)
      PROVE  ver[v].exists
  <2>1. ver[u] \in VersionObject /\ ~Removed(ver[u]).exists
    BY DEF Removed, TypeOK, VersionObject
  <2> QED BY <1>4, <2>1 DEF DeleteVersion, TypeOK
<1>5. ASSUME NEW u \in Versions, EditVersion(u)
      PROVE  ver[v].exists
  BY <1>5 DEF EditVersion, TypeOK
<1>6. \/ UNCHANGED ver
      \/ \E u \in Versions : \/ OnChange(u) \/ VersionStep(u)
                             \/ DeleteVersion(u) \/ EditVersion(u)
      \/ \E u \in Versions, valid \in SpecValidity, tick \in Ticks :
           CreateVersion(u, valid, tick)
  BY DEF Next, UserStep, CreateTemplate, DeleteTemplate, ChooseDefault, SyncTemplate,
         SyncVersion, SetDefaultVersion, TemplateStep, SyncLatestVersion, AddFinalizer,
         DeleteLatestVersion, Restart, vars
<1> QED BY <1>1, <1>2, <1>3, <1>4, <1>5, <1>6

\* A number that was seen is there, as long as the version is.
LEMMA NumbersSeenStep ==
  ASSUME TypeOK, TypeOK', CopiesOK, NumbersSeen, [Next]_vars
  PROVE  NumbersSeen'
<1> SUFFICES ASSUME NEW v \in Versions, vcache'[v].exists, vcache'[v].assigned, ver'[v].exists
             PROVE  ver'[v].assigned
  BY DEF NumbersSeen
<1>1. KeepsNumber(v)
  BY CopiesStep
<1>2. vcache'[v] = vcache[v] \/ vcache'[v] = ver'[v]
  BY DEF Next, UserStep, CreateTemplate, DeleteTemplate, ChooseDefault, CreateVersion,
         DeleteVersion, EditVersion, SyncTemplate, SyncVersion, SetDefaultVersion,
         TemplateStep, SyncLatestVersion, AddFinalizer, DeleteLatestVersion, OnChange,
         VersionStep, ConfigModelDeployment, AssignVersion, StoreVersionNumber,
         CountVersion, Restart, vars, TypeOK
<1>3. CASE vcache'[v] = ver'[v]
  BY <1>3
<1>4. CASE vcache'[v] = vcache[v] /\ ver[v].exists
  BY <1>1, <1>4 DEF NumbersSeen, KeepsNumber, Numbered
<1>5. CASE vcache'[v] = vcache[v] /\ ~ver[v].exists
  <2>1. /\ vcache[v] \in VersionObject /\ ver[v] \in VersionObject
        /\ ver'[v] \in VersionObject /\ CopyOf(vcache[v], ver[v])
    BY DEF TypeOK, CopiesOK
  <2>2. ver[v].rv # 0
    BY <1>5, <2>1 DEF CopyOf, VersionObject
  <2> QED BY <1>5, <2>2, AppearsOnce
<1> QED BY <1>2, <1>3, <1>4, <1>5

LEMMA DefaultsCorrect == Spec => [](TypeOK /\ CopiesOK /\ TemplateCopiesOK /\ NumbersSeen)
<1>1. Init => TemplateCopiesOK /\ NumbersSeen
  <2> SUFFICES ASSUME Init PROVE TemplateCopiesOK /\ NumbersSeen
    OBVIOUS
  <2>1. TypeOK
    BY TypeInit
  <2>2. \A t \in Templates : CopyOf(tmpl[t], tmpl[t])
    BY <2>1 DEF CopyOf, TypeOK, TemplateObject
  <2>3. \A t \in Templates : tcache[t] = tmpl[t] /\ tjob[t].pc = "idle"
    BY DEF Init, IdleT
  <2> QED BY <2>2, <2>3 DEF Init, TemplateCopiesOK, NumbersSeen, NoVersion
<1>2. TypeOK /\ TypeOK' /\ TemplateCopiesOK /\ [Next]_vars => TemplateCopiesOK'
  BY TemplateCopiesStep
<1>3. TypeOK /\ TypeOK' /\ CopiesOK /\ NumbersSeen /\ [Next]_vars => NumbersSeen'
  BY NumbersSeenStep
<1> QED BY <1>1, <1>2, <1>3, CopiesCorrect, PTL DEF Spec

\* A version that SetDefaultVersion picks for a template is one of its own that has a
\* number, from however old a cache, unless it has been deleted since.
THEOREM PickedIsNumbered == Spec => PickedDefaultIsNumbered
<1> DEFINE Picked ==
      \A t \in Templates :
        (tjob[t].pc # tjob'[t].pc /\ tmpl'[t].defaultID # tmpl[t].defaultID)
          => LET v == tmpl'[t].defaultID
             IN /\ TemplateOf[v] = t
                /\ Numbered(v) \/ ~ver[v].exists
<1>1. TypeOK /\ TemplateCopiesOK /\ NumbersSeen /\ [Next]_vars => [Picked]_vars
  <2> SUFFICES ASSUME TypeOK, TemplateCopiesOK, NumbersSeen, Next,
                      NEW t \in Templates, tjob[t].pc # tjob'[t].pc,
                      tmpl'[t].defaultID # tmpl[t].defaultID
               PROVE  LET v == tmpl'[t].defaultID
                      IN TemplateOf[v] = t /\ (Numbered(v) \/ ~ver[v].exists)
    OBVIOUS
  <2>1. \E u \in Templates : SetDefaultVersion(u) \/ TemplateStep(u)
    BY TemplateUserEffect
       DEF Next, SyncTemplate, SyncVersion, OnChange, VersionStep, ConfigModelDeployment,
           AssignVersion, StoreVersionNumber, CountVersion, Restart
  <2>2. PICK u \in Templates : TemplateEffect(u)
    BY <2>1, TemplateWorkerEffect
  <2>3. tmpl'[t].defaultID \in Candidates(t)
    BY <2>2 DEF TemplateEffect
  <2> QED BY <2>3 DEF Candidates, NumbersSeen, Numbered
<1> QED BY <1>1, DefaultsCorrect, PTL DEF Spec, PickedDefaultIsNumbered

-----------------------------------------------------------------------------
\* status.latestVersion.  Its strengthening: it is at most latestVersionMap, as long as
\* the template is not being deleted; a job or a cache that still shows a deletion
\* when the template has been made again finds it with no latest version, so the
\* reset of the map takes nothing back; and a job does not outlive the deletion of
\* its template, which only a job of the same key completes.

Alive(x) == x.exists /\ ~x.deleting
Leaving(x) == x.exists /\ x.deleting

\* The copy that the next handler of t works on.
HeldCopy(t) == IF tjob[t].pc = "idle" THEN tcache[t] ELSE tjob[t].obj

LatestCovered == \A t \in Templates : Alive(tmpl[t]) => tmpl[t].latest <= counter[t]

LateDeletion ==
  \A t \in Templates :
    /\ Leaving(tcache[t]) \/ (tjob[t].pc # "idle" /\ tjob[t].obj.deleting)
    /\ Alive(tmpl[t])
    => tmpl[t].latest = 0

NoneOutlives ==
  \A t \in Templates :
    Leaving(tcache[t]) /\ ~Leaving(tmpl[t]) /\ tjob[t].pc # "idle" => tjob[t].obj.deleting

LatestOK == LatestCovered /\ LateDeletion /\ NoneOutlives

Rises(t) == tmpl[t].exists /\ tmpl'[t].exists => tmpl[t].latest <= tmpl'[t].latest

\* What the step of a user does to a template.
UserLatest(t) ==
  \/ tmpl'[t] = tmpl[t]
  \/ ~Leaving(tmpl[t]) /\ ~tmpl'[t].exists
  \/ ~tmpl[t].exists /\ Alive(tmpl'[t]) /\ tmpl'[t].latest = 0
  \/ /\ tmpl[t].exists /\ tmpl'[t].exists /\ tmpl'[t].latest = tmpl[t].latest
     /\ tmpl[t].deleting => tmpl'[t].deleting

\* What a worker's step other than the removal of the template does.
WorkerLatest(t) ==
  /\ tcache' = tcache
  /\ \A u \in Templates \ {t} : tmpl'[u] = tmpl[u] /\ tjob'[u] = tjob[u]
  /\ \/ tmpl'[t] = tmpl[t]
     \/ /\ ~HeldCopy(t).deleting /\ Alive(tmpl[t]) /\ Alive(tmpl'[t])
        /\ tmpl'[t].latest \in {tmpl[t].latest, counter[t]}
  /\ tjob'[t].pc # "idle" =>
       /\ tjob'[t].obj.deleting = HeldCopy(t).deleting
       /\ tjob[t].pc = "idle" => tcache[t].exists

LEMMA UserLatestKept ==
  ASSUME TypeOK, UserStep
  PROVE  /\ \A t \in Templates : UserLatest(t)
         /\ UNCHANGED <<tcache, tjob, counter>>
<1>1. UNCHANGED <<tcache, tjob, counter>>
  BY DEF UserStep, CreateTemplate, DeleteTemplate, ChooseDefault, CreateVersion,
         DeleteVersion, EditVersion
<1>2. CASE UNCHANGED tmpl
  BY <1>1, <1>2 DEF UserLatest
<1>3. ASSUME NEW t \in Templates, CreateTemplate(t)
      PROVE  \A u \in Templates : UserLatest(u)
  <2>1. /\ ~tmpl[t].exists /\ tmpl'[t] = [[NoTemplate EXCEPT !.exists = TRUE] EXCEPT !.rv = tmpl[t].rv + 1]
        /\ \A u \in Templates \ {t} : tmpl'[u] = tmpl[u]
    BY <1>3 DEF CreateTemplate, Changed, TypeOK
  <2>2. Alive(tmpl'[t]) /\ tmpl'[t].latest = 0
    BY <2>1 DEF Alive, NoTemplate
  <2> QED BY <2>1, <2>2 DEF UserLatest
<1>4. ASSUME NEW t \in Templates, DeleteTemplate(t)
      PROVE  \A u \in Templates : UserLatest(u)
  <2>1. tmpl[t] \in TemplateObject /\ Alive(tmpl[t]) /\ \A u \in Templates \ {t} : tmpl'[u] = tmpl[u]
    BY <1>4 DEF DeleteTemplate, Alive, TypeOK
  <2>2. CASE tmpl'[t] = Changed(tmpl[t], [tmpl[t] EXCEPT !.deleting = TRUE])
    <3>1. tmpl'[t].exists /\ tmpl'[t].latest = tmpl[t].latest
      BY <2>1, <2>2 DEF Changed, TemplateObject, Alive
    <3> QED BY <2>1, <3>1 DEF UserLatest, Alive
  <2>3. CASE tmpl'[t] = Removed(tmpl[t])
    <3>1. ~tmpl'[t].exists
      BY <2>1, <2>3 DEF Removed, TemplateObject
    <3> QED BY <2>1, <3>1 DEF UserLatest, Alive, Leaving
  <2> QED BY <1>4, <2>2, <2>3 DEF DeleteTemplate, TypeOK
<1>5. ASSUME NEW t \in Templates, NEW v \in Versions, ChooseDefault(t, v)
      PROVE  \A u \in Templates : UserLatest(u)
  <2>1. /\ tmpl[t] \in TemplateObject /\ tmpl[t].exists
        /\ tmpl'[t] = Changed(tmpl[t], [tmpl[t] EXCEPT !.defaultID = v])
        /\ \A u \in Templates \ {t} : tmpl'[u] = tmpl[u]
    BY <1>5 DEF ChooseDefault, TypeOK
  <2>2. /\ tmpl'[t].exists /\ tmpl'[t].latest = tmpl[t].latest
        /\ tmpl[t].deleting => tmpl'[t].deleting
    BY <2>1 DEF Changed, TemplateObject
  <2> QED BY <2>1, <2>2 DEF UserLatest
<1> QED BY <1>1, <1>2, <1>3, <1>4, <1>5
        DEF UserStep, CreateVersion, DeleteVersion, EditVersion

LEMMA LatestCall ==
  ASSUME TypeOK, NEW t \in Templates, NEW obj \in TemplateObject, NEW new \in TemplateObject,
         NEW ok \in BOOLEAN, NEW pc, NEW failed, obj = HeldCopy(t), CopyOf(obj, tmpl[t]),
         ~obj.deleting, new.rv = obj.rv, ~new.deleting, new.exists = obj.exists,
         new.latest \in {obj.latest, counter[t]}, tjob[t].pc = "idle" => tcache[t].exists,
         SubmitTemplate(t, new, ok), tcache' = tcache,
         \/ HandTemplate(t, pc, IF ok THEN tmpl'[t] ELSE obj, ~ok)
         \/ HandTemplate(t, pc, obj, ~ok)
         \/ EndTemplate(t, failed)
  PROVE  WorkerLatest(t)
<1>1. \A u \in Templates \ {t} : tmpl'[u] = tmpl[u] /\ tjob'[u] = tjob[u]
  BY DEF SubmitTemplate, HandTemplate, EndTemplate, TypeOK
<1>2. \/ tjob'[t].pc = "idle" \/ tjob'[t].obj = obj
      \/ ok /\ tjob'[t].obj = tmpl'[t]
  BY DEF HandTemplate, EndTemplate, IdleT, TypeOK
<1>3. CASE UNCHANGED tmpl /\ ~ok
  BY <1>1, <1>2, <1>3 DEF WorkerLatest
<1>4. CASE Accepts(tmpl[t], new) /\ tmpl' = [tmpl EXCEPT ![t] = Stored(tmpl[t], new)]
  <2>1. /\ tmpl[t] \in TemplateObject /\ tmpl[t] = obj /\ obj.exists
        /\ tmpl'[t] = Stored(tmpl[t], new)
    BY <1>4 DEF Accepts, CopyOf, TypeOK
  <2>2. tmpl'[t] = new \/ tmpl'[t] = [new EXCEPT !.rv = tmpl[t].rv + 1]
    BY <2>1 DEF Stored
  <2>3. tmpl'[t].exists /\ ~tmpl'[t].deleting /\ tmpl'[t].latest = new.latest
    BY <2>1, <2>2 DEF TemplateObject
  <2>4. tmpl'[t].latest \in {tmpl[t].latest, counter[t]} /\ ~HeldCopy(t).deleting
    BY <2>1, <2>3
  <2>5. Alive(tmpl[t]) /\ Alive(tmpl'[t])
    BY <2>1, <2>3 DEF Alive
  <2>6. tjob'[t].pc # "idle" => tjob'[t].obj.deleting = FALSE
    BY <1>2, <2>3
  <2>7. HeldCopy(t).deleting = FALSE
    BY DEF TemplateObject
  <2> QED BY <1>1, <2>4, <2>5, <2>6, <2>7 DEF WorkerLatest
<1> QED BY <1>3, <1>4 DEF SubmitTemplate

LEMMA LatestQuiet ==
  ASSUME TypeOK, NEW t \in Templates, NEW obj \in TemplateObject, NEW pc, NEW failed,
         obj = HeldCopy(t), tjob[t].pc = "idle" => tcache[t].exists, UNCHANGED <<tmpl, tcache>>,
         HandTemplate(t, pc, obj, failed) \/ EndTemplate(t, failed)
  PROVE  WorkerLatest(t)
<1>1. \A u \in Templates \ {t} : tjob'[u] = tjob[u]
  BY DEF HandTemplate, EndTemplate, TypeOK
<1>2. tjob'[t].pc = "idle" \/ tjob'[t].obj = obj
  BY DEF HandTemplate, EndTemplate, IdleT, TypeOK
<1> QED BY <1>1, <1>2 DEF WorkerLatest

LEMMA WorkerLatestKept ==
  ASSUME TypeOK, TemplateCopiesOK, NEW t \in Templates,
         SetDefaultVersion(t) \/ SyncLatestVersion(t) \/ AddFinalizer(t)
  PROVE  (WorkerLatest(t) \/ UNCHANGED <<tmpl, tcache, tjob>>) /\ UNCHANGED counter
<1> SUFFICES WorkerLatest(t) \/ UNCHANGED <<tmpl, tcache, tjob>>
  BY DEF SetDefaultVersion, SyncLatestVersion, AddFinalizer
<1>1. ASSUME SetDefaultVersion(t), ~UNCHANGED <<tmpl, tcache, tjob>>
      PROVE  WorkerLatest(t)
  <2>1. PICK obj \in TemplateObject : obj = tcache[t]
    BY DEF TypeOK
  <2>2. /\ CopyOf(obj, tmpl[t]) /\ tcache' = tcache /\ obj = HeldCopy(t)
        /\ tcache[t].exists
    BY <1>1, <2>1 DEF TemplateCopiesOK, SetDefaultVersion, TakeTemplate, HeldCopy
  <2> DEFINE n == vcache[obj.defaultID].version
             picked(v) == [obj EXCEPT !.defaultID = v]
             missed    == [obj EXCEPT !.assigned = "false", !.missing = obj.defaultID]
             recorded  == [obj EXCEPT !.defaultVersion = n, !.assigned = "true",
                                      !.missing = None]
             handed(new, ok) ==
               /\ SubmitTemplate(t, new, ok)
               /\ \/ HandTemplate(t, "sync", IF ok THEN tmpl'[t] ELSE obj, ~ok)
                  \/ HandTemplate(t, "sync", obj, ~ok)
  <2>3. \/ \E failed \in BOOLEAN : Skip(t, "sync", obj, failed)
        \/ /\ ~obj.deleting
           /\ \/ \E v \in Versions, ok \in BOOLEAN : handed(picked(v), ok)
              \/ \E ok \in BOOLEAN : handed(missed, ok)
              \/ \E ok \in BOOLEAN : obj.defaultID # None /\ handed(recorded, ok)
    BY <1>1, <2>1, <2>2
       DEF SetDefaultVersion, PickDefault, DefaultNotFound, RecordDefault
  <2>4. ASSUME NEW new \in TemplateObject, NEW ok \in BOOLEAN, ~obj.deleting, handed(new, ok),
               new.rv = obj.rv, new.exists = obj.exists, new.deleting = obj.deleting,
               new.latest = obj.latest
        PROVE  WorkerLatest(t)
    BY <2>2, <2>4, LatestCall
  <2>5. ASSUME NEW failed \in BOOLEAN, Skip(t, "sync", obj, failed)
        PROVE  WorkerLatest(t)
    BY <2>2, <2>5, LatestQuiet DEF Skip
  <2>6. ASSUME NEW v \in Versions, NEW ok \in BOOLEAN, ~obj.deleting, handed(picked(v), ok)
        PROVE  WorkerLatest(t)
    <3>1. /\ picked(v) \in TemplateObject /\ picked(v).rv = obj.rv
          /\ picked(v).exists = obj.exists /\ picked(v).deleting = obj.deleting
          /\ picked(v).latest = obj.latest
      BY DEF TemplateObject
    <3> HIDE DEF picked, handed
    <3> QED BY <2>4, <2>6, <3>1
  <2>7. ASSUME NEW ok \in BOOLEAN, ~obj.deleting, handed(missed, ok)
        PROVE  WorkerLatest(t)
    <3>1. /\ missed \in TemplateObject /\ missed.rv = obj.rv
          /\ missed.exists = obj.exists /\ missed.deleting = obj.deleting
          /\ missed.latest = obj.latest
      BY DEF TemplateObject, Condition
    <3> HIDE DEF missed, handed
    <3> QED BY <2>4, <2>7, <3>1
  <2>8. ASSUME NEW ok \in BOOLEAN, ~obj.deleting, obj.defaultID # None, handed(recorded, ok)
        PROVE  WorkerLatest(t)
    <3>1. obj.defaultID \in Versions
      BY <2>8 DEF TemplateObject
    <3>2. n \in Nat
      BY <3>1 DEF TypeOK, VersionObject
    <3> HIDE DEF n
    <3>3. /\ recorded \in TemplateObject /\ recorded.rv = obj.rv
          /\ recorded.exists = obj.exists /\ recorded.deleting = obj.deleting
          /\ recorded.latest = obj.latest
      BY <3>2 DEF TemplateObject, Condition
    <3> HIDE DEF recorded, handed
    <3> QED BY <2>4, <2>8, <3>3
  <2> HIDE DEF handed, picked, missed, recorded
  <2> QED BY <2>3, <2>5, <2>6, <2>7, <2>8
<1>2. ASSUME SyncLatestVersion(t) \/ AddFinalizer(t)
      PROVE  WorkerLatest(t)
  <2>1. PICK obj \in TemplateObject : obj = tjob[t].obj
    BY DEF TypeOK, TemplateJob
  <2>2. /\ obj = HeldCopy(t) /\ CopyOf(obj, tmpl[t]) /\ tcache' = tcache
        /\ tjob[t].pc # "idle"
    BY <1>2, <2>1 DEF SyncLatestVersion, AddFinalizer, TemplateCopiesOK, HeldCopy
  <2>3. CASE SyncLatestVersion(t)
    <3> DEFINE new == [obj EXCEPT !.latest = counter[t]]
    <3>1. \/ Skip(t, "lifecycle", obj, FALSE)
          \/ /\ ~obj.deleting
             /\ \E ok \in BOOLEAN :
                  /\ SubmitTemplate(t, new, ok)
                  /\ HandTemplate(t, "lifecycle", IF ok THEN tmpl'[t] ELSE obj, ~ok)
      BY <2>1, <2>3 DEF SyncLatestVersion
    <3>2. /\ new \in TemplateObject /\ new.rv = obj.rv /\ new.exists = obj.exists
          /\ new.deleting = obj.deleting /\ new.latest = counter[t]
      BY DEF TypeOK, TemplateObject
    <3> HIDE DEF new
    <3>3. CASE Skip(t, "lifecycle", obj, FALSE)
      BY <2>2, <3>3, LatestQuiet DEF Skip
    <3>4. CASE ~Skip(t, "lifecycle", obj, FALSE)
      BY <2>2, <3>1, <3>2, <3>4, LatestCall
    <3> QED BY <3>3, <3>4
  <2>4. CASE AddFinalizer(t)
    <3> DEFINE new == [obj EXCEPT !.finalizer = TRUE]
    <3>1. \/ EndTemplate(t, tjob[t].failed) /\ UNCHANGED tmpl
          \/ /\ ~obj.deleting
             /\ \E ok \in BOOLEAN : /\ SubmitTemplate(t, new, ok)
                                    /\ EndTemplate(t, tjob[t].failed \/ ~ok)
      BY <2>1, <2>4 DEF AddFinalizer
    <3>2. /\ new \in TemplateObject /\ new.rv = obj.rv /\ new.exists = obj.exists
          /\ new.deleting = obj.deleting /\ new.latest = obj.latest
      BY DEF TemplateObject
    <3> HIDE DEF new
    <3>3. CASE EndTemplate(t, tjob[t].failed) /\ UNCHANGED tmpl
      BY <2>2, <3>3, LatestQuiet
    <3>4. CASE ~(EndTemplate(t, tjob[t].failed) /\ UNCHANGED tmpl)
      BY <2>2, <3>1, <3>2, <3>4, LatestCall
    <3> QED BY <3>3, <3>4
  <2> QED BY <1>2, <2>3, <2>4
<1> QED BY <1>1, <1>2

\* The removal of a template by the job that saw its deletion.
LEMMA DeleteEffect ==
  ASSUME TypeOK, TemplateCopiesOK, NEW t \in Templates, DeleteLatestVersion(t)
  PROVE  /\ tcache' = tcache /\ counter'[t] = 0
         /\ \A u \in Templates \ {t} :
              tmpl'[u] = tmpl[u] /\ tjob'[u] = tjob[u] /\ counter'[u] = counter[u]
         /\ tmpl'[t] = tmpl[t] \/ ~tmpl'[t].exists
         /\ tjob[t].pc # "idle" /\ tjob[t].obj.deleting /\ tjob'[t].pc = "idle"
<1>1. /\ tjob[t].pc # "idle" /\ tjob[t].obj.deleting /\ tcache' = tcache
      /\ counter' = [counter EXCEPT ![t] = 0] /\ \E failed : EndTemplate(t, failed)
      /\ UNCHANGED tmpl \/ tmpl' = [tmpl EXCEPT ![t] = Removed(tmpl[t])]
  BY DEF DeleteLatestVersion
<1>2. \A u \in Templates \ {t} : tmpl'[u] = tmpl[u] /\ tjob'[u] = tjob[u] /\ counter'[u] = counter[u]
  BY <1>1 DEF EndTemplate, TypeOK
<1>3. tjob'[t].pc = "idle" /\ counter'[t] = 0
  BY <1>1 DEF EndTemplate, IdleT, TypeOK
<1>4. ~Removed(tmpl[t]).exists
  BY DEF Removed, TemplateObject, TypeOK
<1>5. tmpl'[t] = tmpl[t] \/ ~tmpl'[t].exists
  BY <1>1, <1>4 DEF TypeOK
<1> QED BY <1>1, <1>2, <1>3, <1>5

\* A step after which the map is no lower for the templates that have not been removed
\* keeps the strengthening, and no latest version falls.
LEMMA LatestKept ==
  ASSUME TypeOK, TypeOK', LatestOK, NEW t \in Templates,
         tmpl'[t] = tmpl[t], tcache'[t] = tcache[t] \/ tcache'[t] = tmpl[t],
         tjob'[t] = tjob[t] \/ tjob'[t].pc = "idle", counter[t] <= counter'[t]
  PROVE  /\ Alive(tmpl'[t]) => tmpl'[t].latest <= counter'[t]
         /\ /\ Leaving(tcache'[t]) \/ (tjob'[t].pc # "idle" /\ tjob'[t].obj.deleting)
            /\ Alive(tmpl'[t])
            => tmpl'[t].latest = 0
         /\ Leaving(tcache'[t]) /\ ~Leaving(tmpl'[t]) /\ tjob'[t].pc # "idle"
              => tjob'[t].obj.deleting
         /\ Rises(t)
<1>0. tmpl[t].latest \in Nat /\ counter[t] \in Nat /\ counter'[t] \in Nat
  BY DEF TypeOK, TemplateObject
<1>1. Alive(tmpl'[t]) => tmpl'[t].latest <= counter'[t]
  BY <1>0 DEF LatestOK, LatestCovered
<1>2. /\ Leaving(tcache'[t]) \/ (tjob'[t].pc # "idle" /\ tjob'[t].obj.deleting)
      /\ Alive(tmpl'[t])
      => tmpl'[t].latest = 0
  BY DEF LatestOK, LateDeletion, Alive, Leaving
<1>3. Leaving(tcache'[t]) /\ ~Leaving(tmpl'[t]) /\ tjob'[t].pc # "idle"
        => tjob'[t].obj.deleting
  BY DEF LatestOK, NoneOutlives
<1> QED BY <1>0, <1>1, <1>2, <1>3 DEF Rises

LEMMA LatestStep ==
  ASSUME TypeOK, TypeOK', TemplateCopiesOK, LatestOK, [Next]_vars,
         Restart => \A t \in Templates : counter[t] <= counter'[t]
  PROVE  LatestOK' /\ \A t \in Templates : Rises(t)
<1> DEFINE Goal(t) ==
             /\ Alive(tmpl'[t]) => tmpl'[t].latest <= counter'[t]
             /\ /\ Leaving(tcache'[t]) \/ (tjob'[t].pc # "idle" /\ tjob'[t].obj.deleting)
                /\ Alive(tmpl'[t])
                => tmpl'[t].latest = 0
             /\ Leaving(tcache'[t]) /\ ~Leaving(tmpl'[t]) /\ tjob'[t].pc # "idle"
                  => tjob'[t].obj.deleting
             /\ Rises(t)
<1> SUFFICES ASSUME NEW t \in Templates PROVE Goal(t)
  BY DEF LatestOK, LatestCovered, LateDeletion, NoneOutlives
<1>0. /\ tmpl[t].latest \in Nat /\ tmpl'[t].latest \in Nat
      /\ counter[t] \in Nat /\ counter'[t] \in Nat
  BY DEF TypeOK, TemplateObject
<1>1. /\ Alive(tmpl[t]) => tmpl[t].latest <= counter[t]
      /\ /\ Leaving(tcache[t]) \/ (tjob[t].pc # "idle" /\ tjob[t].obj.deleting)
         /\ Alive(tmpl[t])
         => tmpl[t].latest = 0
      /\ Leaving(tcache[t]) /\ ~Leaving(tmpl[t]) /\ tjob[t].pc # "idle" => tjob[t].obj.deleting
  BY DEF LatestOK, LatestCovered, LateDeletion, NoneOutlives
<1>2. ASSUME tmpl'[t] = tmpl[t], tcache'[t] = tcache[t] \/ tcache'[t] = tmpl[t],
             tjob'[t] = tjob[t] \/ tjob'[t].pc = "idle", counter[t] <= counter'[t]
      PROVE  Goal(t)
  BY <1>2, LatestKept
<1>3. CASE UNCHANGED <<tmpl, tcache, tjob, counter>>
  BY <1>0, <1>2, <1>3
<1>4. CASE UserStep
  <2>1. UserLatest(t) /\ tcache' = tcache /\ tjob' = tjob /\ counter' = counter
    BY <1>4, UserLatestKept
  <2>2. CASE tmpl'[t] = tmpl[t]
    BY <1>0, <1>2, <2>1, <2>2
  <2>3. CASE ~Leaving(tmpl[t]) /\ ~tmpl'[t].exists
    BY <1>1, <2>1, <2>3 DEF Alive, Leaving, Rises
  <2>4. CASE ~tmpl[t].exists /\ Alive(tmpl'[t]) /\ tmpl'[t].latest = 0
    BY <1>0, <1>1, <2>1, <2>4 DEF Alive, Leaving, Rises
  <2>5. CASE /\ tmpl[t].exists /\ tmpl'[t].exists /\ tmpl'[t].latest = tmpl[t].latest
             /\ tmpl[t].deleting => tmpl'[t].deleting
    BY <1>0, <1>1, <2>1, <2>5 DEF Alive, Leaving, Rises
  <2> QED BY <2>1, <2>2, <2>3, <2>4, <2>5 DEF UserLatest
<1>5. ASSUME NEW u \in Templates, SyncTemplate(u) PROVE Goal(t)
  <2>1. /\ tmpl' = tmpl /\ tjob' = tjob /\ counter' = counter
        /\ tcache'[t] = tcache[t] \/ tcache'[t] = tmpl[t]
    BY <1>5 DEF SyncTemplate, TypeOK
  <2> QED BY <1>0, <1>2, <2>1
<1>6. ASSUME NEW u \in Templates,
             SetDefaultVersion(u) \/ SyncLatestVersion(u) \/ AddFinalizer(u)
      PROVE  Goal(t)
  <2>1. (WorkerLatest(u) \/ UNCHANGED <<tmpl, tcache, tjob>>) /\ counter' = counter
    BY <1>6, WorkerLatestKept
  <2>2. CASE WorkerLatest(u) /\ u # t
    BY <1>0, <1>2, <2>1, <2>2 DEF WorkerLatest
  <2>3. CASE WorkerLatest(u) /\ u = t
    <3>1. /\ tcache'[t] = tcache[t]
          /\ tjob'[t].pc # "idle" =>
               /\ tjob'[t].obj.deleting = HeldCopy(t).deleting
               /\ tjob[t].pc = "idle" => tcache[t].exists
      BY <2>3 DEF WorkerLatest
    \* Who holds a copy that is being deleted?  The new job, only if the cache or the old job did.
    <3>2. tjob'[t].pc # "idle" /\ tjob'[t].obj.deleting
            => Leaving(tcache[t]) \/ (tjob[t].pc # "idle" /\ tjob[t].obj.deleting)
      BY <3>1 DEF HeldCopy, Leaving
    <3>3. Leaving(tcache[t]) /\ ~Leaving(tmpl[t]) /\ tjob'[t].pc # "idle" => tjob'[t].obj.deleting
      BY <1>1, <3>1 DEF HeldCopy, Leaving
    <3>4. CASE tmpl'[t] = tmpl[t]
      BY <1>0, <1>1, <2>1, <3>1, <3>2, <3>3, <3>4 DEF Rises
    <3>5. CASE /\ ~HeldCopy(t).deleting /\ Alive(tmpl[t]) /\ Alive(tmpl'[t])
               /\ tmpl'[t].latest \in {tmpl[t].latest, counter[t]}
      <4>1. ~Leaving(tcache[t]) /\ ~(tjob[t].pc # "idle" /\ tjob[t].obj.deleting)
        BY <1>1, <3>5 DEF HeldCopy, Leaving, Alive
      <4>2. tmpl'[t].latest <= counter'[t] /\ tmpl[t].latest <= tmpl'[t].latest
        BY <1>0, <1>1, <2>1, <3>5
      <4> QED BY <3>1, <3>2, <4>1, <4>2 DEF Rises
    <3> QED BY <2>3, <3>4, <3>5 DEF WorkerLatest
  <2>4. CASE UNCHANGED <<tmpl, tcache, tjob>>
    BY <1>3, <2>1, <2>4
  <2> QED BY <2>1, <2>2, <2>3, <2>4
<1>7. ASSUME NEW u \in Templates, DeleteLatestVersion(u) PROVE Goal(t)
  <2>1. /\ tcache' = tcache /\ counter'[u] = 0
        /\ \A w \in Templates \ {u} :
             tmpl'[w] = tmpl[w] /\ tjob'[w] = tjob[w] /\ counter'[w] = counter[w]
        /\ tmpl'[u] = tmpl[u] \/ ~tmpl'[u].exists
        /\ tjob[u].pc # "idle" /\ tjob[u].obj.deleting /\ tjob'[u].pc = "idle"
    BY <1>7, DeleteEffect
  <2>2. CASE t # u
    BY <1>0, <1>2, <2>1, <2>2
  <2>3. CASE t = u /\ tmpl'[t] = tmpl[t]
    BY <1>0, <1>1, <2>1, <2>3 DEF Rises
  <2>4. CASE t = u /\ ~tmpl'[t].exists
    BY <2>1, <2>4 DEF Alive, Rises
  <2> QED BY <2>1, <2>2, <2>3, <2>4
<1>8. ASSUME NEW v \in Versions, CountVersion(v) PROVE Goal(t)
  <2>1. UNCHANGED <<tmpl, tcache, tjob>>
    BY <1>8 DEF CountVersion
  <2>2. counter[t] <= counter'[t]
    BY <1>0, <1>8, CountEffect DEF TypeOK
  <2> QED BY <1>2, <2>1, <2>2
<1>9. ASSUME NEW v \in Versions,
             \/ SyncVersion(v) \/ OnChange(v) \/ ConfigModelDeployment(v)
             \/ AssignVersion(v) \/ StoreVersionNumber(v)
      PROVE  Goal(t)
  BY <1>3, <1>9 DEF SyncVersion, OnChange, ConfigModelDeployment, AssignVersion,
                    StoreVersionNumber
<1>10. CASE Restart
  <2>1. /\ tmpl' = tmpl /\ tcache' = tmpl /\ tjob'[t].pc = "idle" /\ counter[t] <= counter'[t]
    BY <1>10 DEF Restart, IdleT
  <2> QED BY <1>2, <2>1
<1>11. CASE UNCHANGED vars
  BY <1>3, <1>11 DEF vars
<1> QED BY <1>4, <1>5, <1>6, <1>7, <1>8, <1>9, <1>10, <1>11
        DEF Next, TemplateStep, VersionStep

\* Without lost replies and deletions of templates, what a new leader finds covers the
\* numbers that have been counted, and so does all that is written of it afterwards.
Found(t) ==
  \A v \in Versions : (TemplateOf[v] = t /\ Numbered(v) /\ vjob[v].pc # "count")
                        => ver[v].version <= tmpl'[t].latest

LEMMA LatestFound ==
  ASSUME NoReset, TypeOK, TypeOK', TemplateCopiesOK, CounterOK, [Next]_vars, NEW t \in Templates
  PROVE  Rises(t) \/ Found(t)
<1>0. tmpl[t].latest \in Nat /\ tmpl'[t].latest \in Nat /\ counter[t] \in Nat
  BY DEF TypeOK, TemplateObject
<1>1. CASE tmpl'[t] = tmpl[t]
  BY <1>0, <1>1 DEF Rises
<1>2. CASE UserStep
  <2>1. UserLatest(t)
    BY <1>2, UserLatestKept
  <2> QED BY <1>0, <2>1 DEF UserLatest, Rises, Alive
<1>3. ASSUME tmpl'[t].latest = counter[t] PROVE Found(t)
  <2> SUFFICES ASSUME NEW v \in Versions, TemplateOf[v] = t, Numbered(v), vjob[v].pc # "count"
               PROVE  ver[v].version <= counter[t]
    BY <1>3 DEF Found
  <2>1. ver[v].version <= counter[t] + 0 /\ ver[v].version \in Nat
    BY DEF CounterOK, CounterCovers, TypeOK, VersionObject
  <2> QED BY <1>0, <2>1
<1>4. ASSUME NEW u \in Templates, SetDefaultVersion(u) \/ SyncLatestVersion(u) \/ AddFinalizer(u)
      PROVE  Rises(t) \/ Found(t)
  <2>1. WorkerLatest(u) \/ UNCHANGED tmpl
    BY <1>4, WorkerLatestKept
  <2>2. tmpl'[t] = tmpl[t] \/ tmpl'[t].latest \in {tmpl[t].latest, counter[t]}
    BY <2>1 DEF WorkerLatest
  <2> QED BY <1>0, <1>1, <1>3, <2>2 DEF Rises
<1>5. ASSUME NEW u \in Templates, DeleteLatestVersion(u) PROVE FALSE
  BY <1>5 DEF DeleteLatestVersion, CounterOK, NoDeleting
<1>6. CASE \/ \E u \in Templates : SyncTemplate(u)
           \/ \E v \in Versions : SyncVersion(v) \/ OnChange(v) \/ VersionStep(v)
           \/ Restart \/ UNCHANGED vars
  <2>1. UNCHANGED tmpl
    BY <1>6 DEF SyncTemplate, SyncVersion, OnChange, VersionStep, ConfigModelDeployment,
                AssignVersion, StoreVersionNumber, CountVersion, Restart, vars
  <2> QED BY <1>1, <2>1
<1> QED BY <1>2, <1>4, <1>5, <1>6 DEF Next, TemplateStep

\* The latest version that a template shows never goes down while it exists, or only to
\* what a new leader found: for any number of workers, lost replies, edits and deletions
\* under one leader, although a deletion that the cache shows late resets
\* latestVersionMap; and across leaders as long as no reply is lost and no template deleted.
THEOREM LatestOnlyRises ==
  ASSUME NoReset \/ "restart" \notin Disturbances
  PROVE  Spec => LatestNeverFalls
<1> DEFINE Rise == \A t \in Templates : (tmpl[t].exists /\ tmpl'[t].exists)
                     => \/ tmpl[t].latest <= tmpl'[t].latest
                        \/ \A v \in Versions :
                             (TemplateOf[v] = t /\ Numbered(v) /\ vjob[v].pc # "count")
                               => ver[v].version <= tmpl'[t].latest
<1>1. CASE NoReset
  <2>1. NoReset /\ TypeOK /\ TypeOK' /\ TemplateCopiesOK /\ CounterOK /\ [Next]_vars => [Rise]_vars
    BY LatestFound DEF Rises, Found
  <2> QED BY <1>1, <2>1, DefaultsCorrect, CounterCorrect, PTL DEF Spec, LatestNeverFalls
<1>2. CASE "restart" \notin Disturbances
  <2>1. Init => LatestOK
    <3> SUFFICES ASSUME Init PROVE LatestOK
      OBVIOUS
    <3>1. \A t \in Templates : /\ ~tmpl[t].deleting /\ tmpl[t].latest = 0 /\ counter[t] = 0
                               /\ tcache[t] = tmpl[t] /\ tjob[t].pc = "idle"
      BY DEF Init, NoTemplate, IdleT
    <3> QED BY <3>1 DEF LatestOK, LatestCovered, LateDeletion, NoneOutlives, Leaving
  <2>2. ~Restart
    BY <1>2 DEF Restart, Disturb
  <2>3. /\ TypeOK /\ TypeOK' /\ CopiesOK /\ TemplateCopiesOK /\ LatestOK /\ [Next]_vars
        => LatestOK' /\ [Rise]_vars
    BY <2>2, LatestStep DEF Rises
  <2> QED BY <2>1, <2>3, DefaultsCorrect, PTL DEF Spec, LatestNeverFalls
<1> QED BY <1>1, <1>2

-----------------------------------------------------------------------------
\* At rest.  What is owed to a version that has no number, or to a template whose status
\* is behind the map, is a key in the queue, a job that has not come to it yet, or a
\* change that the cache has not heard of.

VersionsOwed ==
  \A v \in Versions :
    /\ ver[v].exists /\ v \notin vqueue /\ vcache[v] = ver[v] /\ vjob[v].pc = "idle"
    => ver[v].assigned

\* A job that will not give a number, or has given it, is one of a version that has one.
JobsSeen ==
  \A v \in Versions :
    /\ vjob[v].pc # "idle" => ver[v].rv # 0
    /\ vjob[v].pc \in {"config", "update"} /\ vjob[v].obj.assigned /\ ver[v].exists
         => ver[v].assigned
    /\ vjob[v].pc = "count" /\ ver[v].exists => ver[v].assigned

\* With nothing queued or unseen for its key a job works on what is stored.
TemplatesOwed ==
  \A t \in Templates :
    /\ tmpl[t].exists /\ t \notin tqueue /\ tcache[t] = tmpl[t]
    => /\ tjob[t].pc = "idle" => ~tmpl[t].deleting /\ tmpl[t].latest = counter[t]
       /\ tjob[t].pc # "idle" => tjob[t].obj = tmpl[t]
       /\ tjob[t].pc = "lifecycle" => tmpl[t].deleting \/ tmpl[t].latest = counter[t]

\* What a handler before AssignVersion hands on.
LEMMA HandedOn ==
  ASSUME TypeOK, CopiesOK, NEW v \in Versions, NEW obj \in VersionObject,
         CopyOf(obj, ver[v]), obj.assigned /\ ver[v].exists => ver[v].assigned,
         NEW new \in VersionObject, NEW ok \in BOOLEAN, NEW pc, NEW failed,
         new.rv = obj.rv, KeepsNumber(v), Survives(v),
         \/ Hand(v, pc, obj, failed)
         \/ Submit(v, new, ok) /\ Hand(v, pc, IF ok THEN ver'[v] ELSE obj, failed)
  PROVE  vjob'[v].obj.assigned /\ ver'[v].exists => ver'[v].assigned
<1>1. vjob'[v].obj = obj \/ vjob'[v].obj = ver'[v]
  BY DEF Hand, TypeOK
<1> QED BY <1>1 DEF KeepsNumber, Survives, Numbered

\* A step of one version's job is of no other version.
LEMMA OneVersion ==
  ASSUME TypeOK, NEW u \in Versions, NEW v \in Versions \ {u}
  PROVE  /\ \A new, ok : Submit(u, new, ok) => ver'[v] = ver[v]
         /\ \A pc, obj, failed : Hand(u, pc, obj, failed) => vjob'[v] = vjob[v]
         /\ \A failed : EndVersion(u, failed) =>
              vjob'[v] = vjob[v] /\ (v \in vqueue => v \in vqueue')
<1>1. /\ \A x : [ver EXCEPT ![u] = x][v] = ver[v]
      /\ \A x : [vjob EXCEPT ![u] = x][v] = vjob[v]
  BY DEF TypeOK
<1>2. ASSUME NEW new, NEW ok, Submit(u, new, ok) PROVE ver'[v] = ver[v]
  BY <1>1, <1>2 DEF Submit
<1>3. ASSUME NEW pc, NEW obj, NEW failed, Hand(u, pc, obj, failed) PROVE vjob'[v] = vjob[v]
  BY <1>1, <1>3 DEF Hand
<1>4. ASSUME NEW failed, EndVersion(u, failed)
      PROVE  vjob'[v] = vjob[v] /\ (v \in vqueue => v \in vqueue')
  BY <1>1, <1>4 DEF EndVersion
<1> QED BY <1>2, <1>3, <1>4

LEMMA VersionStepOfOne ==
  ASSUME TypeOK, NEW u \in Versions, NEW v \in Versions \ {u}, OnChange(u) \/ VersionStep(u)
  PROVE  /\ vjob'[v] = vjob[v] /\ ver'[v] = ver[v] /\ vcache' = vcache
         /\ v \in vqueue => v \in vqueue'
<1>1. \A x : [vjob EXCEPT ![u] = x][v] = vjob[v]
  BY DEF TypeOK
<1>2. CASE OnChange(u)
  <2>1. UNCHANGED ver \/ \E new, ok : Submit(u, new, ok)
    BY <1>2 DEF OnChange
  <2>2. UNCHANGED vjob \/ \E pc, obj, failed : Hand(u, pc, obj, failed)
    BY <1>2 DEF OnChange
  <2>3. vcache' = vcache /\ vqueue' = vqueue \ {u}
    BY <1>2 DEF OnChange, TakeVersion
  <2> QED BY <2>1, <2>2, <2>3, OneVersion
<1>3. CASE ConfigModelDeployment(u)
  <2>1. UNCHANGED ver \/ \E new, ok : Submit(u, new, ok)
    BY <1>3 DEF ConfigModelDeployment
  <2>2. \E pc, obj, failed : Hand(u, pc, obj, failed)
    BY <1>3 DEF ConfigModelDeployment
  <2>3. UNCHANGED <<vcache, vqueue>>
    BY <1>3 DEF ConfigModelDeployment
  <2> QED BY <2>1, <2>2, <2>3, OneVersion
<1>4. CASE AssignVersion(u)
  <2>1. UNCHANGED ver \/ \E new, ok : Submit(u, new, ok)
    BY <1>4 DEF AssignVersion
  <2>2. \/ \E failed : EndVersion(u, failed)
        \/ UNCHANGED vqueue /\ \E x : vjob' = [vjob EXCEPT ![u] = x]
    BY <1>4 DEF AssignVersion
  <2>3. vcache' = vcache
    BY <1>4 DEF AssignVersion
  <2> QED BY <1>1, <2>1, <2>2, <2>3, OneVersion
<1>5. CASE StoreVersionNumber(u)
  <2>1. \E new, ok : Submit(u, new, ok)
    BY <1>5 DEF StoreVersionNumber
  <2>2. \/ \E failed : EndVersion(u, failed)
        \/ UNCHANGED vqueue /\ \E pc, obj, failed : Hand(u, pc, obj, failed)
    BY <1>5 DEF StoreVersionNumber
  <2>3. vcache' = vcache
    BY <1>5 DEF StoreVersionNumber
  <2> QED BY <2>1, <2>2, <2>3, OneVersion
<1>6. CASE CountVersion(u)
  <2>1. UNCHANGED <<ver, vcache>> /\ \E failed : EndVersion(u, failed)
    BY <1>6 DEF CountVersion
  <2> QED BY <2>1, OneVersion
<1> QED BY <1>2, <1>3, <1>4, <1>5, <1>6 DEF VersionStep

\* What UpdateStatus of a number does when its reply may be lost.
LEMMA StoreGives ==
  ASSUME TypeOK, CopiesOK, NEW v \in Versions, StoreVersionNumber(v)
  PROVE  /\ UNCHANGED counter /\ vjob[v].pc = "status"
         /\ \A u \in Versions \ {v} : ver'[u] = ver[u] /\ vjob'[u] = vjob[u]
         /\ \/ vjob'[v].pc = "idle"
            \/ vjob'[v].pc = "count" /\ Numbered(v)' /\ ver'[v].version = vjob[v].n
<1> DEFINE new == [vjob[v].obj EXCEPT !.assigned = TRUE, !.version = vjob[v].n]
<1>1. /\ vjob[v].obj \in VersionObject /\ vjob[v].n \in Nat /\ CopyOf(vjob[v].obj, ver[v])
      /\ ver[v] \in VersionObject /\ ~vjob[v].obj.assigned
      /\ vjob[v].pc = "status" /\ counter' = counter
  BY DEF TypeOK, VersionJob, CopiesOK, StoreVersionNumber
<1>2. /\ new \in VersionObject /\ new.rv = vjob[v].obj.rv
      /\ new.assigned /\ new.version = vjob[v].n /\ new.exists = vjob[v].obj.exists
  BY <1>1, NumberUpdate DEF VersionObject
<1>3. \A u \in Versions \ {v} : ver'[u] = ver[u] /\ vjob'[u] = vjob[u]
  BY DEF StoreVersionNumber, Submit, Hand, EndVersion, TypeOK
<1>4. CASE Submit(v, new, TRUE) /\ Hand(v, "count", NoVersion, FALSE)
  <2>1. Accepts(ver[v], new) /\ ver'[v] = Stored(ver[v], new) /\ vjob'[v].pc = "count"
    BY <1>4 DEF Submit, Hand, TypeOK
  <2>2. vjob[v].obj = ver[v] /\ ver[v].exists
    BY <1>1, <1>2, <2>1 DEF Accepts, CopyOf
  <2>3. ver'[v] = new \/ ver'[v] = [new EXCEPT !.rv = ver[v].rv + 1]
    BY <2>1 DEF Stored
  <2>4. ver'[v].exists /\ ver'[v].assigned /\ ver'[v].version = vjob[v].n
    <3> HIDE DEF new
    <3> QED BY <1>2, <2>2, <2>3 DEF VersionObject
  <2> QED BY <1>1, <1>3, <2>1, <2>4 DEF Numbered
<1>5. CASE EndVersion(v, TRUE)
  BY <1>1, <1>3, <1>5 DEF EndVersion, IdleV, TypeOK
<1> QED BY <1>4, <1>5 DEF StoreVersionNumber

LEMMA JobsSeenStep ==
  ASSUME TypeOK, TypeOK', CopiesOK, NumbersSeen, JobsSeen, [Next]_vars
  PROVE  JobsSeen'
<1> SUFFICES ASSUME NEW v \in Versions
             PROVE  /\ vjob'[v].pc # "idle" => ver'[v].rv # 0
                    /\ vjob'[v].pc \in {"config", "update"} /\ vjob'[v].obj.assigned
                         /\ ver'[v].exists => ver'[v].assigned
                    /\ vjob'[v].pc = "count" /\ ver'[v].exists => ver'[v].assigned
  BY DEF JobsSeen
<1> DEFINE Goal == /\ vjob'[v].pc # "idle" => ver'[v].rv # 0
                   /\ vjob'[v].pc \in {"config", "update"} /\ vjob'[v].obj.assigned
                        /\ ver'[v].exists => ver'[v].assigned
                   /\ vjob'[v].pc = "count" /\ ver'[v].exists => ver'[v].assigned
<1>0. /\ KeepsNumber(v) /\ ver[v] \in VersionObject /\ ver'[v] \in VersionObject
      /\ vcache[v] \in VersionObject /\ vjob[v] \in VersionJob /\ vjob[v].obj \in VersionObject
      /\ ver'[v].exists => ver[v].exists \/ ver[v].rv = 0
  BY CopiesStep, AppearsOnce DEF TypeOK, VersionJob
<1>1. CASE vjob'[v] = vjob[v] /\ Later(ver[v], ver'[v])
  <2>1. vjob[v].pc # "idle" => ver[v].rv # 0 /\ ver'[v].rv # 0
    BY <1>0, <1>1 DEF JobsSeen, Later, VersionObject
  <2> QED BY <1>0, <1>1, <2>1 DEF JobsSeen, KeepsNumber, Numbered
<1>2. CASE vjob'[v].pc = "idle"
  BY <1>2
<1>3. CASE UserStep
  BY <1>1, <1>3, UserEffect
<1>4. CASE UNCHANGED <<ver, vjob>>
  BY <1>1, <1>4 DEF Later
<1>5. ASSUME NEW t \in Templates, SyncTemplate(t) \/ SetDefaultVersion(t) \/ TemplateStep(t)
      PROVE  Goal
  BY <1>4, <1>5 DEF SyncTemplate, SetDefaultVersion, TemplateStep, SyncLatestVersion,
                    AddFinalizer, DeleteLatestVersion
<1>6. ASSUME NEW u \in Versions, SyncVersion(u) PROVE Goal
  BY <1>4, <1>6 DEF SyncVersion
<1>7. ASSUME NEW u \in Versions \ {v}, OnChange(u) \/ VersionStep(u) PROVE Goal
  <2>1. vjob'[v] = vjob[v] /\ ver'[v] = ver[v]
    BY <1>7, VersionStepOfOne
  <2> QED BY <1>1, <2>1 DEF Later
<1>8. ASSUME OnChange(v) \/ VersionStep(v) PROVE Survives(v)
  BY <1>8, CopiesVersionWorker DEF NumberFrame
<1>9. CASE OnChange(v)
  <2>1. PICK obj \in VersionObject : obj = vcache[v] /\ CopyOf(obj, ver[v])
    BY <1>0 DEF CopiesOK
  <2> DEFINE new == [obj EXCEPT !.label = TRUE,
                                !.owner = IF obj.owner = "none" THEN "self" ELSE obj.owner]
  <2>2. new \in VersionObject /\ new.rv = obj.rv
    BY <2>1 DEF VersionObject, Owner
  <2>3. \/ ~obj.exists /\ UNCHANGED <<ver, vjob>>
        \/ obj.exists /\ UNCHANGED ver /\ Hand(v, "config", obj, FALSE)
        \/ /\ obj.exists
           /\ \E ok \in BOOLEAN :
                Submit(v, new, ok) /\ Hand(v, "config", IF ok THEN ver'[v] ELSE obj, ~ok)
    BY <1>9, <2>1 DEF OnChange
  <2> HIDE DEF new
  <2>4. CASE obj.exists /\ ~UNCHANGED <<ver, vjob>>
    <3>1. ver[v].rv # 0
      BY <1>0, <2>1, <2>4 DEF CopyOf, CopiesOK, VersionObject
    <3>2. obj.assigned /\ ver[v].exists => ver[v].assigned
      BY <2>1, <2>4 DEF NumbersSeen
    <3>3. vjob'[v].pc = "config"
      BY <2>3, <2>4 DEF Hand, TypeOK
    <3>4. vjob'[v].obj.assigned /\ ver'[v].exists => ver'[v].assigned
      BY <1>0, <1>8, <1>9, <2>1, <2>2, <2>3, <2>4, <3>2, HandedOn
    <3>5. ver'[v].rv # 0
      <4>1. CASE UNCHANGED ver
        BY <3>1, <4>1
      <4>2. ASSUME NEW ok \in BOOLEAN, Submit(v, new, ok) PROVE Later(ver[v], ver'[v])
        BY <2>1, <2>2, <4>2, VersionCall
      <4>3. CASE Later(ver[v], ver'[v])
        BY <1>0, <3>1, <4>3 DEF Later, VersionObject
      <4> QED BY <2>3, <2>4, <4>1, <4>2, <4>3
    <3> QED BY <3>3, <3>4, <3>5
  <2> QED BY <1>4, <2>3, <2>4
<1>10. CASE ConfigModelDeployment(v)
  <2>1. PICK obj \in VersionObject : obj = vjob[v].obj /\ CopyOf(obj, ver[v])
    BY <1>0, <1>10 DEF CopiesOK, ConfigModelDeployment
  <2> DEFINE new == [obj EXCEPT !.configured =
                       IF obj.configured = "true" \/ obj.valid THEN "true" ELSE "false"]
  <2>2. new \in VersionObject /\ new.rv = obj.rv
    BY <2>1 DEF VersionObject, Condition
  <2>3. /\ vjob[v].pc = "config"
        /\ \/ UNCHANGED ver /\ Hand(v, "update", obj, FALSE)
           \/ \E ok \in BOOLEAN :
                Submit(v, new, ok) /\ Hand(v, "update", IF ok THEN ver'[v] ELSE obj, ~ok)
    BY <1>10, <2>1 DEF ConfigModelDeployment
  <2> HIDE DEF new
  <2>4. ver[v].rv # 0 /\ (obj.assigned /\ ver[v].exists => ver[v].assigned)
    BY <2>1, <2>3 DEF JobsSeen
  <2>5. vjob'[v].pc = "update"
    BY <2>3 DEF Hand, TypeOK
  <2>6. vjob'[v].obj.assigned /\ ver'[v].exists => ver'[v].assigned
    BY <1>0, <1>8, <1>10, <2>1, <2>2, <2>3, <2>4, HandedOn DEF VersionStep
  <2>7. ver'[v].rv # 0
    <3>1. CASE UNCHANGED ver
      BY <2>4, <3>1
    <3>2. ASSUME NEW ok \in BOOLEAN, Submit(v, new, ok) PROVE Later(ver[v], ver'[v])
      BY <2>1, <2>2, <3>2, VersionCall
    <3>3. CASE Later(ver[v], ver'[v])
      BY <1>0, <2>4, <3>3 DEF Later, VersionObject
    <3> QED BY <2>3, <3>1, <3>2, <3>3
  <2> QED BY <2>5, <2>6, <2>7
<1>11. CASE AssignVersion(v)
  <2> DEFINE new == [vjob[v].obj EXCEPT !.label = TRUE,
                       !.owner = IF vjob[v].obj.owner = "none" THEN "template"
                                                               ELSE vjob[v].obj.owner]
  <2>1. /\ new \in VersionObject /\ new.rv = vjob[v].obj.rv
    BY <1>0 DEF VersionObject, Owner
  <2>2. /\ vjob[v].pc = "update" /\ vjob'[v].pc \notin {"config", "update", "count"}
        /\ UNCHANGED ver \/ Submit(v, new, TRUE) \/ Submit(v, new, FALSE)
    <3>1. /\ vjob[v].pc = "update"
          /\ UNCHANGED ver \/ Submit(v, new, TRUE) \/ Submit(v, new, FALSE)
      BY <1>11 DEF AssignVersion
    <3>2. ASSUME NEW failed, EndVersion(v, failed) PROVE vjob'[v].pc = "idle"
      BY <3>2 DEF EndVersion, IdleV, TypeOK
    <3>3. ASSUME NEW obj, vjob' = [vjob EXCEPT ![v] = [pc |-> "status", obj |-> obj,
                            n |-> counter[TemplateOf[v]] + 1, failed |-> vjob[v].failed]]
          PROVE  vjob'[v].pc = "status"
      BY <3>3 DEF TypeOK
    <3>4. vjob'[v].pc = "idle" \/ vjob'[v].pc = "status"
      BY <1>11, <3>2, <3>3 DEF AssignVersion
    <3> QED BY <3>1, <3>4
  <2> HIDE DEF new
  <2>3. ver[v].rv # 0 /\ CopyOf(vjob[v].obj, ver[v])
    BY <2>2 DEF JobsSeen, CopiesOK
  <2>4. Later(ver[v], ver'[v])
    BY <1>0, <2>1, <2>2, <2>3, VersionCall DEF Later
  <2> QED BY <1>0, <2>2, <2>3, <2>4 DEF Later, VersionObject
<1>12. CASE StoreVersionNumber(v)
  <2>1. /\ vjob[v].pc = "status"
        /\ \/ vjob'[v].pc = "idle"
           \/ vjob'[v].pc = "count" /\ Numbered(v)'
    BY <1>12, StoreGives
  <2>2. ver[v].rv # 0
    BY <2>1 DEF JobsSeen
  <2>3. CopiesOK'
    BY CopiesStep
  <2>4. CASE Numbered(v)' /\ vjob'[v].pc = "count"
    BY <2>3, <2>4 DEF CopiesOK, Numbered
  <2> QED BY <1>2, <2>1, <2>4
<1>13. CASE CountVersion(v)
  BY <1>2, <1>13, CountEffect
<1>14. CASE Restart
  BY <1>2, <1>14, RestartEffect
<1>15. CASE UNCHANGED vars
  BY <1>4, <1>15 DEF vars
<1> QED BY <1>3, <1>5, <1>6, <1>7, <1>9, <1>10, <1>11, <1>12, <1>13, <1>14, <1>15
        DEF Next, VersionStep

\* A change that the cache has not heard of leaves nothing to show.
LEMMA UnseenVersion ==
  ASSUME TypeOK, TypeOK', CopiesOK, NEW v \in Versions,
         Later(ver[v], ver'[v]), vcache'[v] = vcache[v], vcache'[v] = ver'[v]
  PROVE  ver'[v] = ver[v]
<1>1. /\ ver[v] \in VersionObject /\ ver'[v] \in VersionObject /\ vcache[v] \in VersionObject
      /\ vcache[v].rv <= ver[v].rv
  BY DEF TypeOK, CopiesOK, CopyOf
<1> QED BY <1>1 DEF Later, VersionObject

LEMMA VersionsOwedStep ==
  ASSUME TypeOK, TypeOK', CopiesOK, JobsSeen, VersionsOwed, [Next]_vars
  PROVE  VersionsOwed'
<1> SUFFICES ASSUME NEW v \in Versions, ver'[v].exists, v \notin vqueue',
                    vcache'[v] = ver'[v], vjob'[v].pc = "idle"
             PROVE  ver'[v].assigned
  BY DEF VersionsOwed
<1>1. CASE /\ Later(ver[v], ver'[v]) /\ vcache'[v] = vcache[v] /\ vjob'[v] = vjob[v]
           /\ v \notin vqueue
  <2>1. ver'[v] = ver[v]
    BY <1>1, UnseenVersion
  <2> QED BY <1>1, <2>1 DEF VersionsOwed
<1>2. CASE UNCHANGED <<ver, vcache, vqueue, vjob>>
  BY <1>1, <1>2 DEF Later
<1>3. CASE UserStep
  <2>1. UNCHANGED <<vcache, vjob, vqueue>>
    BY <1>3 DEF UserStep, CreateTemplate, DeleteTemplate, ChooseDefault, CreateVersion,
                DeleteVersion, EditVersion
  <2> QED BY <1>1, <1>3, <2>1, UserEffect
<1>4. ASSUME NEW t \in Templates, SyncTemplate(t) \/ SetDefaultVersion(t) \/ TemplateStep(t)
      PROVE  ver'[v].assigned
  BY <1>2, <1>4 DEF SyncTemplate, SetDefaultVersion, TemplateStep, SyncLatestVersion,
                    AddFinalizer, DeleteLatestVersion
<1>5. ASSUME NEW u \in Versions, SyncVersion(u) PROVE ver'[v].assigned
  <2>1. u # v /\ v \notin vqueue /\ UNCHANGED <<ver, vjob>>
    BY <1>5 DEF SyncVersion
  <2>2. vcache'[v] = vcache[v]
    BY <1>5, <2>1 DEF SyncVersion, TypeOK
  <2> QED BY <1>1, <2>1, <2>2 DEF Later
<1>6. ASSUME NEW u \in Versions \ {v}, OnChange(u) \/ VersionStep(u)
      PROVE  ver'[v].assigned
  <2>1. vjob'[v] = vjob[v] /\ ver'[v] = ver[v] /\ vcache' = vcache
    BY <1>6, VersionStepOfOne
  <2>2. v \notin vqueue
    BY <1>6, VersionStepOfOne
  <2> QED BY <1>1, <2>1, <2>2 DEF Later
<1>7. CASE OnChange(v)
  <2>1. vcache' = vcache /\ UNCHANGED ver /\ ~vcache[v].exists
    BY <1>7 DEF OnChange, Hand, TypeOK
  <2> QED BY <2>1
<1>8. CASE ConfigModelDeployment(v)
  BY <1>8 DEF ConfigModelDeployment, Hand, TypeOK
<1>9. CASE AssignVersion(v)
  <2>1. vjob[v].pc = "update" /\ \A failed : EndVersion(v, failed) => ~failed
    BY <1>9 DEF AssignVersion, EndVersion
  <2>2. ASSUME NEW obj, vjob' = [vjob EXCEPT ![v] = [pc |-> "status", obj |-> obj,
                          n |-> counter[TemplateOf[v]] + 1, failed |-> vjob[v].failed]]
        PROVE  FALSE
    BY <2>2 DEF TypeOK
  <2>3. ~NeedsNumber(vjob[v].obj) /\ UNCHANGED ver
    BY <1>9, <2>1, <2>2 DEF AssignVersion
  <2> QED BY <2>1, <2>3 DEF JobsSeen, NeedsNumber
<1>10. CASE StoreVersionNumber(v)
  <2>1. CASE EndVersion(v, TRUE)
    BY <2>1 DEF EndVersion
  <2>2. CASE Hand(v, "count", NoVersion, FALSE)
    BY <2>2 DEF Hand, TypeOK
  <2> QED BY <1>10, <2>1, <2>2 DEF StoreVersionNumber
<1>11. CASE CountVersion(v)
  <2>1. UNCHANGED ver /\ vjob[v].pc = "count"
    BY <1>11 DEF CountVersion
  <2> QED BY <2>1 DEF JobsSeen
<1>12. CASE Restart
  BY <1>12 DEF Restart
<1>13. CASE UNCHANGED vars
  BY <1>2, <1>13 DEF vars
<1> QED BY <1>3, <1>4, <1>5, <1>6, <1>7, <1>8, <1>9, <1>10, <1>11, <1>12, <1>13
        DEF Next, VersionStep

\* The same for a template, whose key CountVersion queues too.
LEMMA UnseenTemplate ==
  ASSUME TypeOK, TypeOK', TemplateCopiesOK, NEW t \in Templates,
         Later(tmpl[t], tmpl'[t]), tcache'[t] = tcache[t], tcache'[t] = tmpl'[t]
  PROVE  tmpl'[t] = tmpl[t]
<1>1. /\ tmpl[t] \in TemplateObject /\ tmpl'[t] \in TemplateObject
      /\ tcache[t] \in TemplateObject /\ tcache[t].rv <= tmpl[t].rv
  BY DEF TypeOK, TemplateCopiesOK, CopyOf
<1> QED BY <1>1 DEF Later, TemplateObject

\* What a worker of another template, or none, leaves of it.
LEMMA OtherTemplate ==
  ASSUME TypeOK, TemplateCopiesOK, NEW t \in Templates, NEW u \in Templates \ {t},
         SetDefaultVersion(u) \/ TemplateStep(u)
  PROVE  /\ tmpl'[t] = tmpl[t] /\ tcache' = tcache /\ tjob'[t] = tjob[t]
         /\ counter'[t] = counter[t] /\ (t \in tqueue' <=> t \in tqueue)
<1>1. CASE SetDefaultVersion(u)
  <2>1. /\ tmpl'[t] = tmpl[t] /\ tcache' = tcache /\ tjob'[t] = tjob[t]
    BY <1>1, TemplateWorkerEffect DEF TemplateEffect
  <2>2. counter' = counter /\ tqueue' = tqueue \ {u}
    BY <1>1 DEF SetDefaultVersion, TakeTemplate
  <2> QED BY <2>1, <2>2
<1>2. CASE SyncLatestVersion(u)
  BY <1>2 DEF SyncLatestVersion, Skip, SubmitTemplate, HandTemplate, TypeOK
<1>3. CASE AddFinalizer(u)
  BY <1>3 DEF AddFinalizer, SubmitTemplate, EndTemplate, TypeOK
<1>4. CASE DeleteLatestVersion(u)
  BY <1>4 DEF DeleteLatestVersion, EndTemplate, TypeOK
<1> QED BY <1>1, <1>2, <1>3, <1>4 DEF TemplateStep

\* A change that is sent from the stored copy is accepted and seen as one.
LEMMA SentFromStored ==
  ASSUME TypeOK, NEW t \in Templates, NEW new \in TemplateObject, NEW ok \in BOOLEAN,
         tmpl[t].exists, new.rv = tmpl[t].rv, new # tmpl[t], SubmitTemplate(t, new, ok)
  PROVE  tmpl'[t] # tmpl[t]
<1>1. Accepts(tmpl[t], new) /\ tmpl[t] \in TemplateObject
  BY DEF Accepts, TypeOK
<1>2. tmpl'[t] = [new EXCEPT !.rv = tmpl[t].rv + 1]
  BY <1>1 DEF SubmitTemplate, Stored, TypeOK
<1>3. tmpl'[t].rv = tmpl[t].rv + 1
  BY <1>2 DEF TemplateObject
<1> QED BY <1>1, <1>3 DEF TemplateObject

LEMMA TemplatesOwedStep ==
  ASSUME TypeOK, TypeOK', TemplateCopiesOK, TemplatesOwed, [Next]_vars
  PROVE  TemplatesOwed'
<1> SUFFICES ASSUME NEW t \in Templates, tmpl'[t].exists, t \notin tqueue',
                    tcache'[t] = tmpl'[t]
             PROVE  /\ tjob'[t].pc = "idle"
                         => ~tmpl'[t].deleting /\ tmpl'[t].latest = counter'[t]
                    /\ tjob'[t].pc # "idle" => tjob'[t].obj = tmpl'[t]
                    /\ tjob'[t].pc = "lifecycle"
                         => tmpl'[t].deleting \/ tmpl'[t].latest = counter'[t]
  BY DEF TemplatesOwed
<1> DEFINE Goal == /\ tjob'[t].pc = "idle"
                        => ~tmpl'[t].deleting /\ tmpl'[t].latest = counter'[t]
                   /\ tjob'[t].pc # "idle" => tjob'[t].obj = tmpl'[t]
                   /\ tjob'[t].pc = "lifecycle"
                        => tmpl'[t].deleting \/ tmpl'[t].latest = counter'[t]
<1>1. CASE /\ Later(tmpl[t], tmpl'[t]) /\ tcache'[t] = tcache[t] /\ tjob'[t] = tjob[t]
           /\ t \notin tqueue /\ counter'[t] = counter[t]
  <2>1. tmpl'[t] = tmpl[t]
    BY <1>1, UnseenTemplate
  <2> QED BY <1>1, <2>1 DEF TemplatesOwed
<1>2. CASE UNCHANGED <<tmpl, tcache, tqueue, tjob, counter>>
  BY <1>1, <1>2 DEF Later
<1>3. CASE UserStep
  <2>1. UNCHANGED <<tqueue, counter>>
    BY <1>3 DEF UserStep, CreateTemplate, DeleteTemplate, ChooseDefault, CreateVersion,
                DeleteVersion, EditVersion
  <2> QED BY <1>1, <1>3, <2>1, TemplateUserEffect
<1>4. ASSUME NEW u \in Templates, SyncTemplate(u) PROVE Goal
  <2>1. u # t /\ t \notin tqueue /\ UNCHANGED <<tmpl, tjob, counter>>
    BY <1>4 DEF SyncTemplate
  <2>2. tcache'[t] = tcache[t]
    BY <1>4, <2>1 DEF SyncTemplate, TypeOK
  <2> QED BY <1>1, <2>1, <2>2 DEF Later
<1>5. ASSUME NEW u \in Templates \ {t}, SetDefaultVersion(u) \/ TemplateStep(u) PROVE Goal
  BY <1>1, <1>5, OtherTemplate DEF Later
<1>6. ASSUME SetDefaultVersion(t) \/ TemplateStep(t) PROVE tmpl'[t] = tmpl[t]
  <2>1. tcache' = tcache /\ Later(tmpl[t], tmpl'[t])
    BY <1>6, TemplateWorkerEffect DEF TemplateEffect, Later
  <2> QED BY <2>1, UnseenTemplate
<1>7. CASE SetDefaultVersion(t)
  <2>1. /\ tcache' = tcache /\ tcache[t] = tmpl[t] /\ tmpl'[t] = tmpl[t] /\ tcache[t].exists
        /\ tjob[t].pc = "idle"
    BY <1>6, <1>7 DEF SetDefaultVersion, TakeTemplate
  <2>2. \E obj \in {tcache[t], tmpl'[t]}, failed \in BOOLEAN :
          HandTemplate(t, "sync", obj, failed)
    BY <1>7, <2>1 DEF SetDefaultVersion, PickDefault, DefaultNotFound, RecordDefault, Skip
  <2>3. tjob'[t].pc = "sync" /\ tjob'[t].obj = tmpl'[t]
    BY <2>1, <2>2 DEF HandTemplate, TypeOK
  <2> QED BY <2>3
<1>8. CASE SyncLatestVersion(t)
  <2> DEFINE new == [tjob[t].obj EXCEPT !.latest = counter[t]]
  <2>1. /\ tcache' = tcache /\ tqueue' = tqueue /\ counter' = counter
        /\ tmpl'[t] = tmpl[t] /\ tjob[t].pc = "sync"
    BY <1>6, <1>8 DEF SyncLatestVersion, TemplateStep
  <2>2. tjob[t].obj = tmpl[t] /\ tmpl[t].exists /\ tmpl[t] \in TemplateObject
    BY <2>1 DEF TemplatesOwed, TypeOK
  <2>3. new \in TemplateObject /\ new.rv = tmpl[t].rv /\ new.latest = counter[t]
    BY <2>2 DEF TemplateObject, TypeOK
  <2>4. /\ \/ (tjob[t].obj.deleting \/ new = tjob[t].obj)
              /\ HandTemplate(t, "lifecycle", tjob[t].obj, FALSE)
           \/ new # tjob[t].obj /\ \E ok \in BOOLEAN : SubmitTemplate(t, new, ok)
    BY <1>8 DEF SyncLatestVersion, Skip
  <2> HIDE DEF new
  <2>5. /\ tjob[t].obj.deleting \/ new = tjob[t].obj
        /\ HandTemplate(t, "lifecycle", tjob[t].obj, FALSE)
    BY <2>1, <2>2, <2>3, <2>4, SentFromStored
  <2>6. tjob'[t].pc = "lifecycle" /\ tjob'[t].obj = tjob[t].obj
    BY <2>5 DEF HandTemplate, TypeOK
  <2> QED BY <2>1, <2>2, <2>3, <2>5, <2>6
<1>9. CASE AddFinalizer(t)
  <2> DEFINE new == [tjob[t].obj EXCEPT !.finalizer = TRUE]
  <2>1. /\ tcache' = tcache /\ counter' = counter /\ tmpl'[t] = tmpl[t]
        /\ tjob[t].pc = "lifecycle" /\ ~tjob[t].obj.deleting /\ t \notin tqueue
    BY <1>6, <1>9 DEF AddFinalizer, TemplateStep, EndTemplate
  <2>2. tjob[t].obj = tmpl[t] /\ tmpl[t].exists /\ tmpl[t].latest = counter[t]
    BY <2>1 DEF TemplatesOwed
  <2>3. tjob'[t].pc = "idle"
    BY <1>9 DEF AddFinalizer, EndTemplate, IdleT, TypeOK
  <2> QED BY <2>1, <2>2, <2>3
<1>10. CASE DeleteLatestVersion(t)
  <2>1. CASE EndTemplate(t, TRUE)
    BY <2>1 DEF EndTemplate
  <2>2. CASE tmpl' = [tmpl EXCEPT ![t] = Removed(tmpl[t])]
    <3>1. ~tmpl'[t].exists
      BY <2>2 DEF Removed, TypeOK, TemplateObject
    <3> QED BY <3>1
  <2> QED BY <1>10, <2>1, <2>2 DEF DeleteLatestVersion
<1>11. ASSUME NEW v \in Versions, CountVersion(v) PROVE Goal
  <2>1. UNCHANGED <<tmpl, tcache, tjob>> /\ t # TemplateOf[v] /\ t \notin tqueue
    BY <1>11 DEF CountVersion
  <2>2. counter'[t] = counter[t]
    BY <1>11, <2>1, TemplateOfAssumption, CountEffect DEF TypeOK
  <2> QED BY <1>1, <2>1, <2>2 DEF Later
<1>12. ASSUME NEW v \in Versions,
              \/ SyncVersion(v) \/ OnChange(v) \/ ConfigModelDeployment(v)
              \/ AssignVersion(v) \/ StoreVersionNumber(v)
       PROVE  Goal
  BY <1>2, <1>12 DEF SyncVersion, OnChange, ConfigModelDeployment, AssignVersion,
                     StoreVersionNumber
<1>13. CASE Restart
  BY <1>13 DEF Restart
<1>14. CASE UNCHANGED vars
  BY <1>2, <1>14 DEF vars
<1> QED BY <1>3, <1>4, <1>5, <1>7, <1>8, <1>9, <1>10, <1>11, <1>12, <1>13, <1>14
        DEF Next, TemplateStep, VersionStep

\* When nothing is queued, running or unseen, every version has its number and every
\* template shows the latest one: for any number of workers, restarts, lost replies and
\* deletions, neither controller forgets a key.
THEOREM NothingIsOwed == Spec => []NothingOwed
<1>1. Init => JobsSeen /\ VersionsOwed /\ TemplatesOwed
  <2> SUFFICES ASSUME Init PROVE JobsSeen /\ VersionsOwed /\ TemplatesOwed
    OBVIOUS
  <2>1. JobsSeen /\ VersionsOwed
    BY DEF Init, JobsSeen, VersionsOwed, NoVersion, IdleV
  <2>2. \A t \in Templates : tmpl[t].exists => t \in tqueue
    BY DEF Init, NoTemplate
  <2> QED BY <2>1, <2>2 DEF TemplatesOwed
<1>2. TypeOK /\ TypeOK' /\ CopiesOK /\ NumbersSeen /\ JobsSeen /\ [Next]_vars => JobsSeen'
  BY JobsSeenStep
<1>3. TypeOK /\ TypeOK' /\ CopiesOK /\ JobsSeen /\ VersionsOwed /\ [Next]_vars => VersionsOwed'
  BY VersionsOwedStep
<1>4. TypeOK /\ TypeOK' /\ TemplateCopiesOK /\ TemplatesOwed /\ [Next]_vars => TemplatesOwed'
  BY TemplatesOwedStep
<1>5. VersionsOwed /\ TemplatesOwed => NothingOwed
  BY DEF VersionsOwed, TemplatesOwed, NothingOwed, AtRest
<1> QED BY <1>1, <1>2, <1>3, <1>4, <1>5, DefaultsCorrect, PTL DEF Spec

-----------------------------------------------------------------------------
\* What the MLService controller sees of a version: it serves those that are configured.

ReadyAs(obj) ==
  IF ~obj.exists THEN "absent" ELSE IF obj.configured = "true" THEN "configured" ELSE "created"

Readiness(v) == INSTANCE VersionReadiness WITH version <- ReadyAs(ver[v])

NoVersionDeleted == "deleteVersion" \notin Disturbances

\* An object becomes another as far as VersionReadiness lets it.
Readies(old, new) ==
  \/ ReadyAs(new) = ReadyAs(old)
  \/ ReadyAs(old) = "absent" /\ ReadyAs(new) = "created"
  \/ ReadyAs(old) = "created" /\ ReadyAs(new) = "configured"

\* A call with a copy that keeps a condition that is true.
LEMMA CallReadies ==
  ASSUME TypeOK, NEW v \in Versions, NEW obj \in VersionObject, NEW new \in VersionObject,
         NEW ok, CopyOf(obj, ver[v]), Submit(v, new, ok), new.rv = obj.rv,
         new.exists = obj.exists, obj.configured = "true" => new.configured = "true"
  PROVE  Readies(ver[v], ver'[v])
<1>1. CASE ver'[v] = ver[v]
  BY <1>1 DEF Readies
<1>2. CASE ver'[v] # ver[v]
  <2>1. obj = ver[v] /\ ver'[v] = Changed(ver[v], new)
    BY <1>2, VersionCall
  <2>2. ver'[v].exists = obj.exists /\ ver'[v].configured = new.configured
    BY <2>1 DEF Changed, VersionObject
  <2> QED BY <2>1, <2>2 DEF Readies, ReadyAs
<1> QED BY <1>1, <1>2

\* What users do to a version.
LEMMA UserReadies ==
  ASSUME TypeOK, CopiesOK, NoVersionDeleted, NEW v \in Versions, UserStep
  PROVE  Readies(ver[v], ver'[v])
<1>1. CASE ver'[v] = ver[v]
  BY <1>1 DEF Readies
<1>2. ASSUME NEW valid \in SpecValidity, NEW tick \in Ticks, CreateVersion(v, valid, tick)
      PROVE  Readies(ver[v], ver'[v])
  <2>1. ~ver[v].exists
    BY <1>2 DEF CreateVersion, CopiesOK
  <2>2. ver'[v].exists /\ ver'[v].configured = "unset"
    BY <1>2 DEF CreateVersion, Changed, NoVersion, TypeOK
  <2> QED BY <2>1, <2>2 DEF Readies, ReadyAs
<1>3. ASSUME EditVersion(v)
      PROVE  Readies(ver[v], ver'[v])
  <2>1. PICK obj \in VersionObject : obj = ver[v]
    BY DEF TypeOK
  <2>2. ver'[v] = Changed(obj, [obj EXCEPT !.valid = ~obj.valid])
    BY <1>3, <2>1 DEF EditVersion, TypeOK
  <2>3. ver'[v].exists = obj.exists /\ ver'[v].configured = obj.configured
    BY <2>2 DEF Changed, VersionObject
  <2> QED BY <2>1, <2>3 DEF Readies, ReadyAs
<1>4. ASSUME NEW u \in Versions, DeleteVersion(u)
      PROVE  FALSE
  BY <1>4 DEF DeleteVersion, Disturb, NoVersionDeleted
<1>5. ASSUME NEW u \in Versions \ {v},
             \/ EditVersion(u)
             \/ \E valid \in SpecValidity, tick \in Ticks : CreateVersion(u, valid, tick)
      PROVE  ver'[v] = ver[v]
  BY <1>5 DEF EditVersion, CreateVersion, TypeOK
<1>6. ASSUME NEW t \in Templates,
             CreateTemplate(t) \/ DeleteTemplate(t) \/ \E u \in Versions : ChooseDefault(t, u)
      PROVE  ver'[v] = ver[v]
  BY <1>6 DEF CreateTemplate, DeleteTemplate, ChooseDefault
<1> QED BY <1>1, <1>2, <1>3, <1>4, <1>5, <1>6 DEF UserStep

\* What the handlers of its own key do to it, each with the copy it has.
LEMMA WorkerReadies ==
  ASSUME TypeOK, CopiesOK, NEW v \in Versions, OnChange(v) \/ VersionStep(v)
  PROVE  Readies(ver[v], ver'[v])
<1>1. CASE UNCHANGED ver
  BY <1>1 DEF Readies
<1>2. ASSUME NEW obj \in VersionObject, NEW o \in Owner, NEW ok, CopyOf(obj, ver[v]),
             Submit(v, [obj EXCEPT !.label = TRUE, !.owner = o], ok)
      PROVE  Readies(ver[v], ver'[v])
  <2> DEFINE new == [obj EXCEPT !.label = TRUE, !.owner = o]
  <2>1. new \in VersionObject
    BY LabelUpdate
  <2>2. new.rv = obj.rv /\ new.exists = obj.exists /\ new.configured = obj.configured
    BY DEF VersionObject
  <2>3. Submit(v, new, ok)
    BY <1>2
  <2> HIDE DEF new
  <2> QED BY <1>2, <2>1, <2>2, <2>3, CallReadies
<1>3. CASE OnChange(v)
  <2>1. PICK obj \in VersionObject : obj = vcache[v] /\ CopyOf(obj, ver[v])
    BY DEF TypeOK, CopiesOK
  <2> DEFINE o == IF obj.owner = "none" THEN "self" ELSE obj.owner
  <2>2. o \in Owner
    BY DEF VersionObject, Owner
  <2>3. UNCHANGED ver \/ \E ok \in BOOLEAN : Submit(v, [obj EXCEPT !.label = TRUE, !.owner = o], ok)
    BY <1>3, <2>1 DEF OnChange
  <2> HIDE DEF o
  <2> QED BY <1>1, <1>2, <2>1, <2>2, <2>3
<1>4. CASE ConfigModelDeployment(v)
  <2>1. PICK obj \in VersionObject : obj = vjob[v].obj /\ CopyOf(obj, ver[v])
    BY <1>4 DEF TypeOK, CopiesOK, ConfigModelDeployment, VersionJob
  <2> DEFINE c == IF obj.configured = "true" \/ obj.valid THEN "true" ELSE "false"
             new == [obj EXCEPT !.configured = c]
  <2>2. c \in Condition /\ (obj.configured = "true" => c = "true")
    BY DEF Condition
  <2>3. UNCHANGED ver \/ \E ok \in BOOLEAN : Submit(v, new, ok)
    BY <1>4, <2>1 DEF ConfigModelDeployment
  <2> HIDE DEF c
  <2>4. new \in VersionObject
    BY <2>2, ConfigUpdate
  <2>5. new.rv = obj.rv /\ new.exists = obj.exists /\ new.configured = c
    BY DEF VersionObject
  <2> HIDE DEF new
  <2>6. ASSUME NEW ok \in BOOLEAN, Submit(v, new, ok) PROVE Readies(ver[v], ver'[v])
    BY <2>1, <2>2, <2>4, <2>5, <2>6, CallReadies
  <2> QED BY <1>1, <2>3, <2>6
<1>5. CASE AssignVersion(v)
  <2>1. PICK obj \in VersionObject : obj = vjob[v].obj /\ CopyOf(obj, ver[v])
    BY <1>5 DEF TypeOK, CopiesOK, AssignVersion, VersionJob
  <2> DEFINE o == IF obj.owner = "none" THEN "template" ELSE obj.owner
  <2>2. o \in Owner
    BY DEF VersionObject, Owner
  <2>3. UNCHANGED ver \/ \E ok \in BOOLEAN : Submit(v, [obj EXCEPT !.label = TRUE, !.owner = o], ok)
    BY <1>5, <2>1 DEF AssignVersion
  <2> HIDE DEF o
  <2> QED BY <1>1, <1>2, <2>1, <2>2, <2>3
<1>6. CASE StoreVersionNumber(v)
  <2>1. PICK obj \in VersionObject, n \in Nat :
          obj = vjob[v].obj /\ n = vjob[v].n /\ CopyOf(obj, ver[v])
    BY <1>6 DEF TypeOK, CopiesOK, StoreVersionNumber, VersionJob
  <2> DEFINE new == [obj EXCEPT !.assigned = TRUE, !.version = n]
  <2>2. new \in VersionObject
    BY NumberUpdate
  <2>3. new.rv = obj.rv /\ new.exists = obj.exists /\ new.configured = obj.configured
    BY DEF VersionObject
  <2>4. PICK ok \in BOOLEAN : Submit(v, new, ok)
    BY <1>6, <2>1 DEF StoreVersionNumber
  <2> HIDE DEF new
  <2> QED BY <2>1, <2>2, <2>3, <2>4, CallReadies
<1>7. CASE CountVersion(v)
  BY <1>1, <1>7 DEF CountVersion
<1> QED BY <1>3, <1>4, <1>5, <1>6, <1>7 DEF VersionStep

LEMMA StepReadies ==
  ASSUME TypeOK, CopiesOK, NoVersionDeleted, NEW v \in Versions, [Next]_vars
  PROVE  Readies(ver[v], ver'[v])
<1>1. CASE ver'[v] = ver[v]
  BY <1>1 DEF Readies
<1>2. CASE UserStep
  BY <1>2, UserReadies
<1>3. ASSUME NEW t \in Templates, SyncTemplate(t) \/ SetDefaultVersion(t) \/ TemplateStep(t)
      PROVE  ver'[v] = ver[v]
  BY <1>3 DEF SyncTemplate, SetDefaultVersion, TemplateStep, SyncLatestVersion, AddFinalizer,
              DeleteLatestVersion
<1>4. ASSUME NEW u \in Versions, SyncVersion(u)
      PROVE  ver'[v] = ver[v]
  BY <1>4 DEF SyncVersion
<1>5. ASSUME NEW u \in Versions, OnChange(u) \/ VersionStep(u)
      PROVE  Readies(ver[v], ver'[v])
  <2>1. CASE u = v
    BY <1>5, <2>1, WorkerReadies
  <2>2. CASE u # v
    BY <1>1, <1>5, <2>2, VersionStepOfOne
  <2> QED BY <2>1, <2>2
<1>6. CASE Restart
  BY <1>1, <1>6 DEF Restart
<1>7. CASE UNCHANGED vars
  BY <1>1, <1>7 DEF vars
<1> QED BY <1>1, <1>2, <1>3, <1>4, <1>5, <1>6, <1>7 DEF Next

\* Each version is created and then configured for good, as MLService takes it to be:
\* no stale copy of a job and no UpdateStatus of AssignVersion takes the condition of a
\* version back, with any number of workers, failures and restarts, while no version is
\* deleted.
THEOREM VersionsBecomeReady ==
  ASSUME NoVersionDeleted, NEW v \in Versions
  PROVE  Spec => Readiness(v)!Spec
<1>1. Init => Readiness(v)!Init
  BY DEF Init, NoVersion, ReadyAs, Readiness!Init
<1>2. TypeOK /\ CopiesOK /\ [Next]_vars => [Readiness(v)!Advance]_(ReadyAs(ver[v]))
  <2> SUFFICES ASSUME TypeOK, CopiesOK, [Next]_vars
               PROVE  Readiness(v)!Advance \/ ReadyAs(ver[v])' = ReadyAs(ver[v])
    OBVIOUS
  <2>1. Readies(ver[v], ver'[v]) /\ ReadyAs(ver[v])' = ReadyAs(ver'[v])
    BY StepReadies DEF ReadyAs
  <2> QED BY <2>1 DEF Readies, Readiness!Advance, Readiness!Create, Readiness!Configure
<1> QED BY <1>1, <1>2, CopiesCorrect, PTL DEF Spec, Readiness!Spec
==============================================================================
