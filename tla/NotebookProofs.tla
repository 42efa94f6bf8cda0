--------------------------- MODULE NotebookProofs ---------------------------
(***************************************************************************)
(* Theorems about Notebook, for any notebooks, claims, workers and         *)
(* disturbances.                                                           *)
(*                                                                         *)
(* Beside the types the invariant says of every copy of a notebook, in the *)
(* cache or in a job, that it is the notebook or older (NotebookSafe), and *)
(* of a job that is about to write a spec back that it is the edit its     *)
(* notebook had.  A second invariant (Served), for NotebookServed and      *)
(* StateShown, says what a job has seen to by the time it is where it is.  *)
(***************************************************************************)
EXTENDS Notebook, VolumeClaimsProofs

Pcs == {"idle", "spec", "service", "type", "status", "claims"}

-----------------------------------------------------------------------------
\* Records.

LEMMA Records ==
  /\ NoSpec \in PodSpec /\ NoNotebook \in NotebookObject /\ NoStatefulSet \in StatefulSetObject
  /\ NoService \in ServiceObject /\ NoPod \in Pod /\ NoAnswer \in Answer
  /\ Idle \in Job /\ Idle.pc = "idle"
<1>1. NoSpec \in PodSpec
  BY DEF NoSpec, PodSpec
<1>2. /\ NoNotebook \in NotebookObject /\ NoStatefulSet \in StatefulSetObject
      /\ NoService \in ServiceObject /\ NoAnswer \in Answer
  <2>1. NoNotebook \in NotebookObject
    <3>1. "" \in States
      BY DEF States
    <3>2. "" \in ServiceTypes
      BY DEF ServiceTypes
    <3> QED BY <1>1, <3>1, <3>2 DEF NoNotebook, NotebookObject
  <2>2. NoStatefulSet \in StatefulSetObject
    BY <1>1 DEF NoStatefulSet, StatefulSetObject
  <2>3. NoService \in ServiceObject
    BY DEF NoService, ServiceObject, ServiceTypes
  <2>4. NoAnswer \in Answer
    BY <1>1 DEF NoAnswer, Answer
  <2> QED BY <2>1, <2>2, <2>3, <2>4
<1>3. NoPod \in Pod
  BY <1>1, PodAssumption DEF NoPod, Pod
<1>4. Idle \in Job /\ Idle.pc = "idle"
  BY <1>2 DEF Idle, Job
<1> QED BY <1>1, <1>2, <1>3, <1>4

LEMMA NotebookTypes ==
  ASSUME NEW cur \in NotebookObject, NEW new \in NotebookObject
  PROVE  /\ Changed(cur, new) \in NotebookObject /\ Stored(cur, new) \in NotebookObject
         /\ Removed(cur) \in NotebookObject
         /\ Changed(cur, new).spec = new.spec /\ Stored(cur, new).spec = new.spec
         /\ cur.rv < Changed(cur, new).rv /\ cur.rv < Removed(cur).rv
         /\ Stored(cur, new) = cur \/ cur.rv < Stored(cur, new).rv
         /\ ~Removed(cur).exists
<1>1. cur.rv + 1 \in Nat /\ cur.rv < cur.rv + 1
  BY DEF NotebookObject
<1>2. ASSUME NEW n \in Nat
      PROVE  /\ [new EXCEPT !.rv = n] \in NotebookObject
             /\ [new EXCEPT !.rv = n].spec = new.spec
             /\ [new EXCEPT !.rv = n].rv = n
  BY DEF NotebookObject
<1>3. ASSUME NEW n \in Nat
      PROVE  /\ [cur EXCEPT !.exists = FALSE, !.rv = n] \in NotebookObject
             /\ [cur EXCEPT !.exists = FALSE, !.rv = n].rv = n
             /\ ~[cur EXCEPT !.exists = FALSE, !.rv = n].exists
  BY DEF NotebookObject
<1> QED BY <1>1, <1>2, <1>3 DEF Changed, Stored, Removed

LEMMA StatefulSetTypes ==
  ASSUME NEW cur \in StatefulSetObject, NEW new \in StatefulSetObject
  PROVE  /\ Changed(cur, new) \in StatefulSetObject /\ Stored(cur, new) \in StatefulSetObject
         /\ Removed(cur) \in StatefulSetObject
         /\ Changed(cur, new).spec = new.spec /\ Stored(cur, new).spec = new.spec
<1>1. cur.rv + 1 \in Nat
  BY DEF StatefulSetObject
<1>2. ASSUME NEW n \in Nat
      PROVE  /\ [new EXCEPT !.rv = n] \in StatefulSetObject
             /\ [new EXCEPT !.rv = n].spec = new.spec
             /\ [cur EXCEPT !.exists = FALSE, !.rv = n] \in StatefulSetObject
  BY DEF StatefulSetObject
<1> QED BY <1>1, <1>2 DEF Changed, Stored, Removed

LEMMA ServiceObjectTypes ==
  ASSUME NEW cur \in ServiceObject, NEW new \in ServiceObject
  PROVE  /\ Changed(cur, new) \in ServiceObject /\ Stored(cur, new) \in ServiceObject
         /\ Removed(cur) \in ServiceObject
<1>1. cur.rv + 1 \in Nat
  BY DEF ServiceObject
<1>2. ASSUME NEW n \in Nat
      PROVE  /\ [new EXCEPT !.rv = n] \in ServiceObject
             /\ [cur EXCEPT !.exists = FALSE, !.rv = n] \in ServiceObject
  BY DEF ServiceObject
<1> QED BY <1>1, <1>2 DEF Changed, Stored, Removed

LEMMA DefaultedTypes ==
  ASSUME NEW spec \in PodSpec
  PROVE  Defaulted(spec) \in PodSpec /\ Defaulted(spec).edit = spec.edit
BY DEF Defaulted, PodSpec

LEMMA DefaultTypeTypes ==
  ASSUME NEW type \in ServiceTypes
  PROVE  DefaultType(type) \in ServiceTypes
BY DEF DefaultType, ServiceTypes

LEMMA DisturbType ==
  ASSUME NEW kind, disturbed \in 0..MaxDisturbances, Disturb(kind)
  PROVE  disturbed' \in 0..MaxDisturbances
BY NotebookBounds DEF Disturb

-----------------------------------------------------------------------------
\* What a job becomes.

LEMMA NextPc ==
  ASSUME NEW j \in Job, NEW pc \in Pcs
  PROVE  LET next == [j EXCEPT !.pc = pc]
         IN next \in Job /\ next.pc = pc /\ next.obj = j.obj
BY DEF Job, Pcs

LEMMA NextReturned ==
  ASSUME NEW j \in Job, NEW failed \in BOOLEAN
  PROVE  LET next == [j EXCEPT !.pc = "claims", !.ss = NoAnswer, !.failed = failed]
         IN next \in Job /\ next.pc = "claims" /\ next.obj = j.obj
BY Records DEF Job

LEMMA NextClaim ==
  ASSUME NEW j \in Job
  PROVE  LET next == [j EXCEPT !.next = @ + 1]
         IN next \in Job /\ next.pc = j.pc /\ next.obj = j.obj /\ next.ss = j.ss
<1>1. j.next + 1 \in Nat
  BY DEF Job
<1> QED BY <1>1 DEF Job

LEMMA NextFailed ==
  ASSUME NEW j \in Job, NEW obj \in NotebookObject
  PROVE  LET next == [j EXCEPT !.pc = "claims", !.obj = obj, !.failed = TRUE]
         IN next \in Job /\ next.pc = "claims" /\ next.obj = obj
BY DEF Job

\* The steps of n, as what they make of its job.
LEMMA PcUpdate ==
  ASSUME TypeOK, NEW n \in Notebooks, NEW pc
  PROVE  [job EXCEPT ![n].pc = pc] = [job EXCEPT ![n] = [job[n] EXCEPT !.pc = pc]]
BY DEF TypeOK

LEMMA ClaimUpdate ==
  ASSUME TypeOK, NEW n \in Notebooks
  PROVE  [job EXCEPT ![n].next = @ + 1] = [job EXCEPT ![n] = [job[n] EXCEPT !.next = @ + 1]]
BY DEF TypeOK

LEMMA ReturnedUpdate ==
  ASSUME TypeOK, NEW n \in Notebooks, NEW pc, NEW ss, NEW failed
  PROVE  [job EXCEPT ![n].pc = pc, ![n].ss = ss, ![n].failed = failed]
           = [job EXCEPT ![n] = [job[n] EXCEPT !.pc = pc, !.ss = ss, !.failed = failed]]
BY DEF TypeOK

LEMMA AnsweredUpdate ==
  ASSUME TypeOK, NEW n \in Notebooks, NEW pc, NEW obj, NEW ss
  PROVE  [job EXCEPT ![n].pc = pc, ![n].obj = obj, ![n].ss = ss]
           = [job EXCEPT ![n] = [job[n] EXCEPT !.pc = pc, !.obj = obj, !.ss = ss]]
BY DEF TypeOK

LEMMA FailedUpdate ==
  ASSUME TypeOK, NEW n \in Notebooks, NEW pc, NEW obj, NEW failed
  PROVE  [job EXCEPT ![n].pc = pc, ![n].obj = obj, ![n].failed = failed]
           = [job EXCEPT ![n] = [job[n] EXCEPT !.pc = pc, !.obj = obj, !.failed = failed]]
BY DEF TypeOK

LEMMA JobKept ==
  ASSUME TypeOK, NEW n \in Notebooks, NEW next \in Job, job' = [job EXCEPT ![n] = next]
  PROVE  job' \in [Notebooks -> Job]
BY DEF TypeOK

-----------------------------------------------------------------------------
\* The invariant.

Older(copy, cur) == copy.rv <= cur.rv /\ (copy.rv = cur.rv => copy = cur)

NotebookSafe(n) ==
  /\ nb[n].rv = 0 => ~nb[n].exists
  /\ Older(nbcache[n], nb[n])
  /\ job[n].pc # "idle" => Older(job[n].obj, nb[n])
  /\ job[n].pc = "spec" => job[n].ss.spec.edit = job[n].obj.spec.edit

IInv == TypeOK /\ \A n \in Notebooks : NotebookSafe(n)

\* A step that stores notebook n or nothing, and changes its job.
Effect(n, kept, next) ==
  /\ nb' = [nb EXCEPT ![n] = kept]
  /\ kept = nb[n] \/ nb[n].rv < kept.rv
  /\ job' = [job EXCEPT ![n] = next]
  /\ \/ next.pc = "idle"
     \/ next.obj = nbcache[n]
     \/ job[n].pc # "idle" /\ next.obj = job[n].obj
  /\ next.pc = "spec" => next.ss.spec.edit = next.obj.spec.edit

LEMMA EffectSafe ==
  ASSUME IInv, NEW n \in Notebooks, NEW kept \in NotebookObject, NEW next \in Job,
         Effect(n, kept, next), UNCHANGED nbcache
  PROVE  /\ nb' \in [Notebooks -> NotebookObject] /\ job' \in [Notebooks -> Job]
         /\ \A m \in Notebooks : NotebookSafe(m)'
<1>1. nb' \in [Notebooks -> NotebookObject] /\ job' \in [Notebooks -> Job]
  BY DEF Effect, IInv, TypeOK
<1>2. ASSUME NEW m \in Notebooks, m # n
      PROVE  NotebookSafe(m)'
  <2>1. nb'[m] = nb[m] /\ job'[m] = job[m]
    BY <1>2 DEF Effect, IInv, TypeOK
  <2> QED BY <2>1 DEF NotebookSafe, Older, IInv
<1>3. NotebookSafe(n)'
  <2>1. nb'[n] = kept /\ job'[n] = next
    BY DEF Effect, IInv, TypeOK
  <2>2. ASSUME NEW copy \in NotebookObject, Older(copy, nb[n])
        PROVE  Older(copy, kept)
    BY <2>2 DEF Effect, Older, IInv, TypeOK, NotebookObject
  <2>3. nbcache[n] \in NotebookObject /\ job[n].obj \in NotebookObject /\ NotebookSafe(n)
    BY DEF IInv, TypeOK, Job
  <2>4. Older(nbcache[n], kept)
    BY <2>2, <2>3 DEF NotebookSafe
  <2>5. next.pc # "idle" => Older(next.obj, kept)
    BY <2>2, <2>3, <2>4 DEF NotebookSafe, Effect
  <2>6. kept.rv = 0 => ~kept.exists
    <3>1. nb[n].rv \in Nat /\ kept.rv \in Nat
      BY DEF IInv, TypeOK, NotebookObject
    <3>2. kept = nb[n] \/ nb[n].rv < kept.rv
      BY DEF Effect
    <3> QED BY <2>3, <3>1, <3>2 DEF NotebookSafe
  <2> QED BY <2>1, <2>4, <2>5, <2>6 DEF NotebookSafe, Effect
<1> QED BY <1>1, <1>2, <1>3

\* The two special cases: the job alone, or the notebook alone.
LEMMA JobSafe ==
  ASSUME IInv, NEW n \in Notebooks, NEW next \in Job,
         UNCHANGED <<nb, nbcache>>, job' = [job EXCEPT ![n] = next],
         \/ next.pc = "idle"
         \/ next.obj = nbcache[n]
         \/ job[n].pc # "idle" /\ next.obj = job[n].obj,
         next.pc = "spec" => next.ss.spec.edit = next.obj.spec.edit
  PROVE  job' \in [Notebooks -> Job] /\ \A m \in Notebooks : NotebookSafe(m)'
<1>1. nb[n] \in NotebookObject /\ nb' = [nb EXCEPT ![n] = nb[n]]
  BY DEF IInv, TypeOK
<1> QED BY <1>1, EffectSafe DEF Effect

LEMMA NotebookChanged ==
  ASSUME IInv, NEW n \in Notebooks, NEW new \in NotebookObject, nb[n].rv < new.rv,
         nb' = [nb EXCEPT ![n] = new], UNCHANGED <<nbcache, job>>
  PROVE  /\ nb' \in [Notebooks -> NotebookObject]
         /\ \A m \in Notebooks : NotebookSafe(m)'
<1>1. job[n] \in Job /\ job' = [job EXCEPT ![n] = job[n]]
  BY DEF IInv, TypeOK
<1>2. job[n].pc = "spec" => job[n].ss.spec.edit = job[n].obj.spec.edit
  BY DEF IInv, NotebookSafe
<1> QED BY <1>1, <1>2, EffectSafe DEF Effect

LEMMA NothingChanged ==
  ASSUME IInv, UNCHANGED <<nb, nbcache, job>>
  PROVE  \A m \in Notebooks : NotebookSafe(m)'
BY DEF IInv, NotebookSafe, Older

LEMMA Initially == Init => IInv
<1> SUFFICES ASSUME Init PROVE IInv
  OBVIOUS
<1>1. disturbed \in 0..MaxDisturbances
  BY NotebookBounds DEF Init
<1>2. TypeOK
  <2>1. nb \in [Notebooks -> NotebookObject] /\ sset \in [Notebooks -> StatefulSetObject]
    BY Records DEF Init
  <2>2. service \in [Notebooks -> ServiceObject] /\ claim \in [Claims -> ClaimObject(Notebooks)]
    BY Records, NoClaimType DEF Init
  <2>3. pod \in [Notebooks -> Pod] /\ job \in [Notebooks -> Job]
    BY Records DEF Init
  <2> QED BY <1>1, <2>1, <2>2, <2>3 DEF Init, TypeOK
<1>3. ASSUME NEW n \in Notebooks
      PROVE  NotebookSafe(n)
  <2>1. /\ nbcache[n] = nb[n] /\ job[n].pc = "idle" /\ nb[n].rv \in Nat
        /\ ~nb[n].exists
    BY <1>2, Records DEF Init, TypeOK, NotebookObject, NoNotebook
  <2> QED BY <2>1 DEF NotebookSafe, Older
<1> QED BY <1>2, <1>3 DEF IInv

-----------------------------------------------------------------------------
\* Users, and what reports pods.

LEMMA CreateStep ==
  ASSUME IInv, NEW n \in Notebooks, NEW type \in Types, CreateNotebook(n, type)
  PROVE  IInv'
<1> DEFINE made == [NoNotebook EXCEPT !.exists = TRUE, !.spec.edit = 1, !.type = type,
                                      !.size = 1]
<1>1. made \in NotebookObject
  <2>1. type \in ServiceTypes /\ "" \in States
    BY TypesAssumption DEF States
  <2> QED BY <2>1 DEF NoNotebook, NoSpec, NotebookObject, PodSpec
<1>2. nb' = [nb EXCEPT ![n] = Changed(nb[n], made)]
  BY DEF CreateNotebook
<1> HIDE DEF made
<1>3. Changed(nb[n], made) \in NotebookObject /\ nb[n].rv < Changed(nb[n], made).rv
  BY <1>1, NotebookTypes DEF IInv, TypeOK
<1>4. UNCHANGED <<sset, service, claim, pod, caches, queue, job, disturbed>>
  BY DEF CreateNotebook
<1>5. nb' \in [Notebooks -> NotebookObject] /\ \A m \in Notebooks : NotebookSafe(m)'
  BY <1>2, <1>3, <1>4, NotebookChanged DEF caches
<1> QED BY <1>4, <1>5 DEF IInv, TypeOK, caches

\* An edit of a user: what it makes, and that the edits are counted.
LEMMA EditEffect ==
  ASSUME IInv, NEW n \in Notebooks, EditNotebook(n)
  PROVE  \E new \in NotebookObject :
           /\ nb' = [nb EXCEPT ![n] = Changed(nb[n], new)]
           /\ nb[n].spec.edit <= new.spec.edit
           /\ disturbed' \in 0..MaxDisturbances
           /\ UNCHANGED <<sset, service, claim, pod, caches, queue, job>>
<1>1. nb[n] \in NotebookObject /\ disturbed \in 0..MaxDisturbances
  BY DEF IInv, TypeOK
<1>2. ASSUME NEW kind, NEW new \in NotebookObject, Edit(n, kind, new),
             nb[n].spec.edit <= new.spec.edit
      PROVE  \E made \in NotebookObject :
               /\ nb' = [nb EXCEPT ![n] = Changed(nb[n], made)]
               /\ nb[n].spec.edit <= made.spec.edit
               /\ disturbed' \in 0..MaxDisturbances
               /\ UNCHANGED <<sset, service, claim, pod, caches, queue, job>>
  BY <1>1, <1>2, DisturbType DEF Edit
<1>3. ASSUME NEW form \in {"raw", nb[n].spec.form},
             Edit(n, "editSpec",
                  [nb[n] EXCEPT !.spec = [edit |-> @.edit + 1, form |-> form]])
      PROVE  \E made \in NotebookObject :
               /\ nb' = [nb EXCEPT ![n] = Changed(nb[n], made)]
               /\ nb[n].spec.edit <= made.spec.edit
               /\ disturbed' \in 0..MaxDisturbances
               /\ UNCHANGED <<sset, service, claim, pod, caches, queue, job>>
  <2> DEFINE made == [nb[n] EXCEPT !.spec = [edit |-> nb[n].spec.edit + 1, form |-> form]]
  <2>1. nb[n].spec.edit \in Nat /\ nb[n].spec.edit + 1 \in Nat
        /\ form \in {"raw", "server", "full"}
    BY <1>1, <1>3 DEF NotebookObject, PodSpec
  <2>2. made \in NotebookObject /\ made.spec.edit = nb[n].spec.edit + 1
    BY <1>1, <2>1 DEF NotebookObject, PodSpec
  <2>3. Edit(n, "editSpec", made)
    BY <1>3
  <2> HIDE DEF made
  <2> QED BY <1>2, <2>1, <2>2, <2>3
<1>4. ASSUME NEW type \in Types, Edit(n, "editType", [nb[n] EXCEPT !.type = type])
      PROVE  \E made \in NotebookObject :
               /\ nb' = [nb EXCEPT ![n] = Changed(nb[n], made)]
               /\ nb[n].spec.edit <= made.spec.edit
               /\ disturbed' \in 0..MaxDisturbances
               /\ UNCHANGED <<sset, service, claim, pod, caches, queue, job>>
  <2> DEFINE made == [nb[n] EXCEPT !.type = type]
  <2>1. nb[n].spec.edit <= nb[n].spec.edit /\ type \in ServiceTypes
    BY <1>1, TypesAssumption DEF NotebookObject, PodSpec
  <2>2. made \in NotebookObject /\ made.spec = nb[n].spec
    BY <1>1, <2>1 DEF NotebookObject
  <2>3. Edit(n, "editType", made)
    BY <1>4
  <2> HIDE DEF made
  <2> QED BY <1>2, <2>1, <2>2, <2>3
<1>5. ASSUME Edit(n, "editVolumes", [nb[n] EXCEPT !.size = @ + 1])
      PROVE  \E made \in NotebookObject :
               /\ nb' = [nb EXCEPT ![n] = Changed(nb[n], made)]
               /\ nb[n].spec.edit <= made.spec.edit
               /\ disturbed' \in 0..MaxDisturbances
               /\ UNCHANGED <<sset, service, claim, pod, caches, queue, job>>
  <2> DEFINE made == [nb[n] EXCEPT !.size = nb[n].size + 1]
  <2>1. nb[n].spec.edit <= nb[n].spec.edit /\ nb[n].size + 1 \in Nat
    BY <1>1 DEF NotebookObject, PodSpec
  <2>2. made \in NotebookObject /\ made.spec = nb[n].spec
    BY <1>1, <2>1 DEF NotebookObject
  <2>3. Edit(n, "editVolumes", made)
    BY <1>5
  <2> HIDE DEF made
  <2> QED BY <1>2, <2>1, <2>2, <2>3
<1> QED BY <1>3, <1>4, <1>5 DEF EditNotebook

LEMMA EditStep ==
  ASSUME IInv, NEW n \in Notebooks, EditNotebook(n)
  PROVE  IInv'
<1>1. PICK new \in NotebookObject :
        /\ nb' = [nb EXCEPT ![n] = Changed(nb[n], new)]
        /\ disturbed' \in 0..MaxDisturbances
        /\ UNCHANGED <<sset, service, claim, pod, caches, queue, job>>
  BY EditEffect
<1>2. Changed(nb[n], new) \in NotebookObject /\ nb[n].rv < Changed(nb[n], new).rv
  BY NotebookTypes DEF IInv, TypeOK
<1>3. nb' \in [Notebooks -> NotebookObject] /\ \A m \in Notebooks : NotebookSafe(m)'
  BY <1>1, <1>2, NotebookChanged DEF caches
<1> QED BY <1>1, <1>3 DEF IInv, TypeOK, caches

LEMMA DeleteStep ==
  ASSUME IInv, NEW n \in Notebooks, DeleteNotebook(n)
  PROVE  IInv'
<1>1. Removed(nb[n]) \in NotebookObject /\ nb[n].rv < Removed(nb[n]).rv
  BY NotebookTypes DEF IInv, TypeOK
<1>2. nb' \in [Notebooks -> NotebookObject] /\ \A m \in Notebooks : NotebookSafe(m)'
  BY <1>1, NotebookChanged DEF DeleteNotebook, caches
<1>3. disturbed' \in 0..MaxDisturbances
  BY DisturbType DEF DeleteNotebook, IInv, TypeOK
<1> QED BY <1>2, <1>3 DEF DeleteNotebook, IInv, TypeOK, caches

LEMMA PodSteps ==
  ASSUME IInv, NEW n \in Notebooks, ReportPod(n) \/ ReplacePod(n)
  PROVE  IInv'
<1>1. Len(PodStates) \in Nat /\ pod[n] \in Pod /\ sset[n].spec \in PodSpec
  BY PodAssumption DEF IInv, TypeOK, StatefulSetObject
<1>2. CASE ReportPod(n)
  <2> DEFINE new == [at |-> pod[n].at + 1,
                     spec |-> IF pod[n].at = 0 THEN sset[n].spec ELSE pod[n].spec]
  <2>1. new \in Pod
    BY <1>1, <1>2 DEF Pod, ReportPod
  <2>2. pod' = [pod EXCEPT ![n] = new]
    BY <1>2 DEF ReportPod
  <2> HIDE DEF new
  <2>3. pod' \in [Notebooks -> Pod]
    BY <2>1, <2>2 DEF IInv, TypeOK
  <2>4. UNCHANGED <<nb, sset, service, claim, caches, queue, job, disturbed>>
    BY <1>2 DEF ReportPod
  <2> QED BY <2>3, <2>4, NothingChanged DEF IInv, TypeOK, caches
<1>3. CASE ReplacePod(n)
  <2>1. [at |-> 1, spec |-> sset[n].spec] \in Pod
    BY <1>1, <1>3 DEF ReplacePod, Replaceable, Pod
  <2>2. pod' \in [Notebooks -> Pod]
    BY <1>3, <2>1 DEF ReplacePod, IInv, TypeOK
  <2> QED BY <1>3, <2>2, NothingChanged DEF ReplacePod, IInv, TypeOK, caches
<1> QED BY <1>2, <1>3

LEMMA StatefulSetSteps ==
  ASSUME IInv, NEW n \in Notebooks, ReportReady(n) \/ Collect(n)
  PROVE  IInv'
<1>1. CASE ReportReady(n)
  <2> DEFINE new == [sset[n] EXCEPT !.ready = ~@]
  <2>1. new \in StatefulSetObject
    BY DEF IInv, TypeOK, StatefulSetObject
  <2>2. sset' = [sset EXCEPT ![n] = Changed(sset[n], new)]
    BY <1>1 DEF ReportReady
  <2> HIDE DEF new
  <2>3. Changed(sset[n], new) \in StatefulSetObject
    BY <2>1, StatefulSetTypes DEF IInv, TypeOK
  <2>4. sset' \in [Notebooks -> StatefulSetObject]
    BY <2>2, <2>3 DEF IInv, TypeOK
  <2>5. UNCHANGED <<nb, service, claim, pod, caches, queue, job, disturbed>>
    BY <1>1 DEF ReportReady
  <2> QED BY <2>4, <2>5, NothingChanged DEF IInv, TypeOK, caches
<1>2. CASE Collect(n)
  <2>1. sset' \in [Notebooks -> StatefulSetObject]
    BY <1>2, StatefulSetTypes DEF Collect, IInv, TypeOK
  <2>2. service' \in [Notebooks -> ServiceObject]
    BY <1>2, ServiceObjectTypes DEF Collect, IInv, TypeOK
  <2>3. pod' \in [Notebooks -> Pod]
    BY <1>2, Records DEF Collect, IInv, TypeOK
  <2> QED BY <1>2, <2>1, <2>2, <2>3, NothingChanged DEF Collect, IInv, TypeOK, caches
<1> QED BY <1>1, <1>2

-----------------------------------------------------------------------------
\* The informers.

LEMMA InformerStep ==
  ASSUME IInv, NEW n \in Notebooks, Informer(n)
  PROVE  IInv'
<1>1. CASE SyncNotebook(n)
  <2>1. ASSUME NEW m \in Notebooks
        PROVE  NotebookSafe(m)'
    <3>1. nbcache'[m] \in {nbcache[m], nb[m]} /\ nb[m].rv \in Nat
      BY <1>1 DEF SyncNotebook, IInv, TypeOK, NotebookObject
    <3>2. UNCHANGED <<nb, job>> /\ NotebookSafe(m)
      BY <1>1 DEF SyncNotebook, stores, IInv
    <3> QED BY <3>1, <3>2 DEF NotebookSafe, Older
  <2>2. TypeOK'
    BY <1>1 DEF SyncNotebook, stores, IInv, TypeOK
  <2> QED BY <2>1, <2>2 DEF IInv
<1>2. CASE SyncPod(n)
  BY <1>2, NothingChanged DEF SyncPod, PodOwner, stores, IInv, TypeOK
<1>3. CASE SyncStatefulSet(n)
  BY <1>3, NothingChanged DEF SyncStatefulSet, stores, IInv, TypeOK
<1>4. CASE SyncService(n)
  BY <1>4, NothingChanged DEF SyncService, stores, IInv, TypeOK
<1> QED BY <1>1, <1>2, <1>3, <1>4 DEF Informer

LEMMA SyncClaimStep ==
  ASSUME IInv, NEW c \in Claims, SyncClaim(c)
  PROVE  IInv'
BY NothingChanged DEF SyncClaim, stores, IInv, TypeOK

-----------------------------------------------------------------------------
\* The handlers.

\* What a call can leave in the counter.
LEMMA CallKinds ==
  ASSUME NEW old, NEW new, NEW possible, NEW stored, NEW ok, Call(old, new, possible, stored, ok)
  PROVE  UNCHANGED disturbed \/ Disturb("lostCall")
BY DEF Call

LEMMA AnsweredNext ==
  ASSUME IInv, NEW n \in Notebooks, NEW ss \in StatefulSetObject, Answered(n, ss),
         ss.spec = nbcache[n].spec \/ ss.spec.edit = nbcache[n].spec.edit
  PROVE  \E next \in Job :
           /\ job' = [job EXCEPT ![n] = next] /\ next.obj = nbcache[n]
           /\ next.pc = "spec" => next.ss.spec.edit = next.obj.spec.edit
<1> DEFINE pc == IF ss.spec = nbcache[n].spec THEN "service" ELSE "spec"
           answer == [spec |-> ss.spec, ready |-> ss.ready]
           next == [job[n] EXCEPT !.pc = pc, !.obj = nbcache[n], !.ss = answer]
<1>1. /\ pc \in Pcs /\ answer \in Answer /\ answer.spec = ss.spec
      /\ nbcache[n] \in NotebookObject /\ job[n] \in Job
  BY DEF Pcs, Answer, StatefulSetObject, IInv, TypeOK
<1>2. job' = [job EXCEPT ![n].pc = pc, ![n].obj = nbcache[n], ![n].ss = answer]
  BY DEF Answered
<1>3. pc = "spec" => ss.spec.edit = nbcache[n].spec.edit
  OBVIOUS
<1> HIDE DEF pc, answer
<1>4. job' = [job EXCEPT ![n] = next]
  BY <1>2, AnsweredUpdate DEF IInv
<1>5. next \in Job /\ next.pc = pc /\ next.obj = nbcache[n] /\ next.ss = answer
  <2>1. PICK j \in Job : j = job[n]
    BY <1>1
  <2>2. PICK obj \in NotebookObject : obj = nbcache[n]
    BY <1>1
  <2>3. next = [j EXCEPT !.pc = pc, !.obj = obj, !.ss = answer]
    BY <2>1, <2>2
  <2> HIDE DEF next
  <2>4. next \in Job /\ next.pc = pc /\ next.obj = obj /\ next.ss = answer
    BY <1>1, <2>3 DEF Job, Pcs
  <2> QED BY <2>2, <2>4
<1> HIDE DEF next
<1> QED BY <1>1, <1>3, <1>4, <1>5

LEMMA FailedNext ==
  ASSUME IInv, NEW n \in Notebooks, Failed(n)
  PROVE  \E next \in Job :
           /\ job' = [job EXCEPT ![n] = next] /\ next.obj = nbcache[n]
           /\ next.pc = "spec" => next.ss.spec.edit = next.obj.spec.edit
<1> DEFINE next == [job[n] EXCEPT !.pc = "claims", !.obj = nbcache[n], !.failed = TRUE]
<1>1. nbcache[n] \in NotebookObject /\ job[n] \in Job
  BY DEF IInv, TypeOK
<1>2. job' = [job EXCEPT ![n] = next]
  BY FailedUpdate DEF Failed, IInv
<1>3. next \in Job /\ next.pc = "claims" /\ next.obj = nbcache[n]
  BY <1>1, NextFailed
<1> HIDE DEF next
<1> QED BY <1>2, <1>3

\* Goto and Return keep the object of the job.
LEMMA GotoNext ==
  ASSUME IInv, NEW n \in Notebooks, NEW pc \in Pcs \ {"spec"},
         Goto(n, pc) \/ \E ok \in BOOLEAN : Return(n, ok)
  PROVE  \E next \in Job :
           job' = [job EXCEPT ![n] = next] /\ next.obj = job[n].obj /\ next.pc # "spec"
<1>1. job[n] \in Job
  BY DEF IInv, TypeOK
<1>2. CASE Goto(n, pc)
  <2> DEFINE next == [job[n] EXCEPT !.pc = pc]
  <2>1. job' = [job EXCEPT ![n] = next]
    BY <1>2, PcUpdate DEF Goto, IInv
  <2>2. next \in Job /\ next.pc = pc /\ next.obj = job[n].obj
    BY <1>1, NextPc
  <2> HIDE DEF next
  <2> QED BY <2>1, <2>2
<1>3. ASSUME NEW ok \in BOOLEAN, Return(n, ok)
      PROVE  \E next \in Job :
               job' = [job EXCEPT ![n] = next] /\ next.obj = job[n].obj /\ next.pc # "spec"
  <2> DEFINE failed == ~ok
             next == [job[n] EXCEPT !.pc = "claims", !.ss = NoAnswer, !.failed = failed]
  <2>1. failed \in BOOLEAN /\ job' = [job EXCEPT ![n].pc = "claims", ![n].ss = NoAnswer,
                                                 ![n].failed = failed]
    BY <1>3 DEF Return
  <2> HIDE DEF failed
  <2>2. job' = [job EXCEPT ![n] = next]
    BY <2>1, ReturnedUpdate DEF IInv
  <2>3. next \in Job /\ next.pc = "claims" /\ next.obj = job[n].obj
    BY <1>1, <2>1, NextReturned
  <2> HIDE DEF next
  <2> QED BY <2>2, <2>3
<1> QED BY <1>2, <1>3

LEMMA EnsureEffect ==
  ASSUME IInv, NEW n \in Notebooks, EnsureStatefulSet(n)
  PROVE  /\ sset' \in [Notebooks -> StatefulSetObject]
         /\ disturbed' \in 0..MaxDisturbances
         /\ \E next \in Job :
              /\ job' = [job EXCEPT ![n] = next] /\ next.obj = nbcache[n]
              /\ next.pc = "spec" => next.ss.spec.edit = next.obj.spec.edit
<1> DEFINE old == sset[n]
           exists == sscache[n].exists
           made == [NoStatefulSet EXCEPT !.exists = TRUE,
                      !.spec = [edit |-> nbcache[n].spec.edit, form |-> "full"]]
           created == Changed(old, made)
           copy == [sscache[n] EXCEPT !.spec = Defaulted(nbcache[n].spec)]
           new == IF exists THEN Stored(old, copy) ELSE created
           possible == IF exists THEN Accepts(old, copy) ELSE ~old.exists
<1>1. /\ old \in StatefulSetObject /\ sscache[n] \in StatefulSetObject
      /\ nbcache[n].spec \in PodSpec /\ disturbed \in 0..MaxDisturbances
  BY DEF IInv, TypeOK, NotebookObject
<1>2. new \in StatefulSetObject /\ new.spec.edit = nbcache[n].spec.edit
  <2>1. made \in StatefulSetObject /\ made.spec.edit = nbcache[n].spec.edit
    BY <1>1 DEF NoStatefulSet, StatefulSetObject, PodSpec
  <2>2. copy \in StatefulSetObject /\ copy.spec.edit = nbcache[n].spec.edit
    <3>1. Defaulted(nbcache[n].spec) \in PodSpec
          /\ Defaulted(nbcache[n].spec).edit = nbcache[n].spec.edit
      BY <1>1, DefaultedTypes
    <3> QED BY <1>1, <3>1 DEF StatefulSetObject
  <2> HIDE DEF made, copy, exists
  <2>3. created \in StatefulSetObject /\ created.spec = made.spec
    BY <1>1, <2>1, StatefulSetTypes
  <2>4. Stored(old, copy) \in StatefulSetObject /\ Stored(old, copy).spec = copy.spec
    BY <1>1, <2>2, StatefulSetTypes
  <2> HIDE DEF created, old
  <2> QED BY <2>1, <2>2, <2>3, <2>4
<1>3. \/ /\ sscache[n].spec = nbcache[n].spec
         /\ Answered(n, sscache[n])
         /\ UNCHANGED <<sset, disturbed>>
      \/ \E ok \in BOOLEAN, kept \in {old, new} :
           /\ Call(old, new, possible, kept, ok)
           /\ sset' = [sset EXCEPT ![n] = kept]
           /\ IF ok THEN Answered(n, kept) ELSE Failed(n)
  BY DEF EnsureStatefulSet
<1>4. CASE /\ sscache[n].spec = nbcache[n].spec
           /\ Answered(n, sscache[n])
           /\ UNCHANGED <<sset, disturbed>>
  <2>1. sset' \in [Notebooks -> StatefulSetObject] /\ disturbed' \in 0..MaxDisturbances
    BY <1>4 DEF IInv, TypeOK
  <2> QED BY <1>1, <1>4, <2>1, AnsweredNext
<1>5. CASE \E ok \in BOOLEAN, kept \in {old, new} :
             /\ Call(old, new, possible, kept, ok)
             /\ sset' = [sset EXCEPT ![n] = kept]
             /\ IF ok THEN Answered(n, kept) ELSE Failed(n)
  <2> HIDE DEF new, possible
  <2>1. PICK ok \in BOOLEAN, kept \in {old, new} :
          /\ UNCHANGED disturbed \/ Disturb("lostCall")
          /\ ok => kept = new
          /\ sset' = [sset EXCEPT ![n] = kept]
          /\ IF ok THEN Answered(n, kept) ELSE Failed(n)
    BY <1>5 DEF Call
  <2>2. disturbed' \in 0..MaxDisturbances
    BY <1>1, <2>1, DisturbType
  <2>3. sset' \in [Notebooks -> StatefulSetObject]
    BY <1>1, <1>2, <2>1 DEF IInv, TypeOK
  <2>4. CASE ok
    BY <1>2, <2>1, <2>2, <2>3, <2>4, AnsweredNext
  <2>5. CASE ~ok
    BY <2>1, <2>2, <2>3, <2>5, FailedNext
  <2> QED BY <2>4, <2>5
<1> QED BY <1>3, <1>4, <1>5

LEMMA OnChangedStep ==
  ASSUME IInv, NEW n \in Notebooks, OnChanged(n)
  PROVE  IInv'
<1>1. UNCHANGED <<nb, service, claim, pod, caches>> /\ queue' \subseteq Notebooks
  BY DEF OnChanged, IInv, TypeOK
<1>2. CASE nbcache[n].exists
  <2>1. /\ sset' \in [Notebooks -> StatefulSetObject]
        /\ disturbed' \in 0..MaxDisturbances
    BY <1>2, EnsureEffect DEF OnChanged
  <2>2. PICK next \in Job :
          /\ job' = [job EXCEPT ![n] = next] /\ next.obj = nbcache[n]
          /\ next.pc = "spec" => next.ss.spec.edit = next.obj.spec.edit
    BY <1>2, EnsureEffect DEF OnChanged
  <2>3. job' \in [Notebooks -> Job] /\ \A m \in Notebooks : NotebookSafe(m)'
    BY <1>1, <2>2, JobSafe DEF caches
  <2> QED BY <1>1, <2>1, <2>3 DEF IInv, TypeOK, caches
<1>3. CASE ~nbcache[n].exists
  BY <1>1, <1>3, NothingChanged DEF OnChanged, IInv, TypeOK, caches
<1> QED BY <1>2, <1>3

\* A write of the notebook by its job, either way: only the job's own copy is ever
\* written, with another spec or another status.
LEMMA WriteStep ==
  ASSUME IInv, NEW n \in Notebooks, NEW copy \in NotebookObject,
         NEW kept \in {nb[n], Stored(nb[n], copy)}, nb' = [nb EXCEPT ![n] = kept],
         job[n].pc # "idle", NEW pc \in Pcs \ {"spec"},
         Goto(n, pc) \/ \E ok \in BOOLEAN : Return(n, ok),
         UNCHANGED disturbed \/ Disturb("lostCall"),
         UNCHANGED <<sset, service, claim, pod, caches, queue>>
  PROVE  IInv'
<1>1. nb[n] \in NotebookObject
  BY DEF IInv, TypeOK
<1>2. kept \in NotebookObject /\ (kept = nb[n] \/ nb[n].rv < kept.rv)
  BY <1>1, NotebookTypes
<1>3. PICK next \in Job :
        job' = [job EXCEPT ![n] = next] /\ next.obj = job[n].obj /\ next.pc # "spec"
  BY GotoNext
<1>4. /\ nb' \in [Notebooks -> NotebookObject] /\ job' \in [Notebooks -> Job]
      /\ \A m \in Notebooks : NotebookSafe(m)'
  BY <1>2, <1>3, EffectSafe DEF Effect, caches
<1>5. disturbed' \in 0..MaxDisturbances
  BY DisturbType DEF IInv, TypeOK
<1> QED BY <1>4, <1>5 DEF IInv, TypeOK, caches

LEMMA SpecCopyType ==
  ASSUME IInv, NEW n \in Notebooks
  PROVE  SpecCopy(n) \in NotebookObject /\ SpecCopy(n).rv = job[n].obj.rv
         /\ SpecCopy(n).spec = job[n].ss.spec
<1>1. PICK obj \in NotebookObject, spec \in PodSpec : obj = job[n].obj /\ spec = job[n].ss.spec
  BY DEF IInv, TypeOK, Job, Answer
<1>2. SpecCopy(n) = [obj EXCEPT !.spec = spec]
  BY <1>1 DEF SpecCopy
<1>3. LET copy == [obj EXCEPT !.spec = spec]
      IN copy \in NotebookObject /\ copy.rv = obj.rv /\ copy.spec = spec
  BY DEF NotebookObject
<1> QED BY <1>1, <1>2, <1>3

LEMMA SyncTemplateStep ==
  ASSUME IInv, NEW n \in Notebooks, SyncTemplateSpec(n)
  PROVE  IInv'
<1> DEFINE copy == SpecCopy(n)
           new == Stored(nb[n], copy)
<1>1. PICK ok \in BOOLEAN, kept \in {nb[n], new} :
        /\ UNCHANGED disturbed \/ Disturb("lostCall")
        /\ nb' = [nb EXCEPT ![n] = kept]
        /\ IF ok THEN Goto(n, "service") ELSE Return(n, FALSE)
  BY CallKinds DEF SyncTemplateSpec
<1>2. copy \in NotebookObject
  BY SpecCopyType
<1>3. /\ job[n].pc # "idle" /\ "service" \in Pcs \ {"spec"}
      /\ UNCHANGED <<sset, service, claim, pod, caches, queue>>
  BY DEF SyncTemplateSpec, Pcs
<1>4. Goto(n, "service") \/ \E k \in BOOLEAN : Return(n, k)
  BY <1>1
<1> HIDE DEF copy
<1> QED BY <1>1, <1>2, <1>3, <1>4, WriteStep

\* The copy that UpdateNotebookStatus may send.
StatusCopy(n) ==
  [job[n].obj EXCEPT !.state = IF podcache[n].at = 0 THEN job[n].obj.state
                               ELSE ContainerState(podcache[n]),
                     !.ready = job[n].ss.ready]

LEMMA StatusCopyType ==
  ASSUME IInv, NEW n \in Notebooks
  PROVE  /\ StatusCopy(n) \in NotebookObject /\ StatusCopy(n).rv = job[n].obj.rv
         /\ StatusCopy(n).spec = job[n].obj.spec
<1>1. job[n].obj \in NotebookObject /\ job[n].ss.ready \in BOOLEAN
  BY DEF IInv, TypeOK, Job, Answer
<1>2. podcache[n].at # 0 => ContainerState(podcache[n]) \in States
  <2>1. podcache[n].at \in 0..Len(PodStates) /\ Len(PodStates) \in Nat
        /\ DOMAIN PodStates = 1..Len(PodStates)
    BY PodAssumption DEF IInv, TypeOK, Pod
  <2>2. podcache[n].at # 0 => podcache[n].at \in DOMAIN PodStates
    BY <2>1
  <2>3. "" \in States /\ \A i \in DOMAIN PodStates : PodStates[i] \in States
    BY DEF States
  <2> QED BY <2>2, <2>3 DEF ContainerState
<1>3. job[n].obj.state \in States
  BY <1>1 DEF NotebookObject
<1> QED BY <1>1, <1>2, <1>3 DEF StatusCopy, NotebookObject

LEMMA UpdateStatusStep ==
  ASSUME IInv, NEW n \in Notebooks, UpdateNotebookStatus(n)
  PROVE  IInv'
<1> DEFINE copy == StatusCopy(n)
           new == Stored(nb[n], copy)
<1>1. \/ UNCHANGED <<nb, disturbed>> /\ Return(n, TRUE)
      \/ \E ok \in BOOLEAN, kept \in {nb[n], new} :
           /\ UNCHANGED disturbed \/ Disturb("lostCall")
           /\ nb' = [nb EXCEPT ![n] = kept]
           /\ Return(n, ok)
  BY CallKinds DEF UpdateNotebookStatus, StatusOutcome, StatusCopy
<1>2. copy \in NotebookObject /\ nb[n] \in NotebookObject
  BY StatusCopyType DEF IInv, TypeOK
<1>3. /\ job[n].pc # "idle" /\ "service" \in Pcs \ {"spec"}
      /\ UNCHANGED <<sset, service, claim, pod, caches, queue>>
  BY DEF UpdateNotebookStatus, Pcs
<1> HIDE DEF copy
<1>4. CASE UNCHANGED <<nb, disturbed>> /\ Return(n, TRUE)
  <2>1. nb' = [nb EXCEPT ![n] = nb[n]] /\ nb[n] \in {nb[n], new}
    BY <1>4 DEF IInv, TypeOK
  <2> QED BY <1>2, <1>3, <1>4, <2>1, WriteStep
<1>5. ASSUME NEW ok \in BOOLEAN, NEW kept \in {nb[n], new},
             UNCHANGED disturbed \/ Disturb("lostCall"),
             nb' = [nb EXCEPT ![n] = kept], Return(n, ok)
      PROVE  IInv'
  BY <1>2, <1>3, <1>5, WriteStep
<1> QED BY <1>1, <1>4, <1>5

\* A step of a job that leaves the notebook alone.
LEMMA ServiceStep ==
  ASSUME IInv, NEW n \in Notebooks, service' \in [Notebooks -> ServiceObject],
         job[n].pc # "idle", NEW pc \in Pcs \ {"spec"},
         Goto(n, pc) \/ \E ok \in BOOLEAN : Return(n, ok),
         UNCHANGED disturbed \/ Disturb("lostCall"),
         UNCHANGED <<nb, sset, claim, pod, caches, queue>>
  PROVE  IInv'
<1>1. PICK next \in Job :
        job' = [job EXCEPT ![n] = next] /\ next.obj = job[n].obj /\ next.pc # "spec"
  BY GotoNext
<1>2. job' \in [Notebooks -> Job] /\ \A m \in Notebooks : NotebookSafe(m)'
  BY <1>1, JobSafe DEF caches
<1>3. disturbed' \in 0..MaxDisturbances
  BY DisturbType DEF IInv, TypeOK
<1> QED BY <1>2, <1>3 DEF IInv, TypeOK, caches

LEMMA ServiceKept ==
  ASSUME TypeOK, NEW n \in Notebooks, NEW kept \in ServiceObject,
         service' = [service EXCEPT ![n] = kept]
  PROVE  service' \in [Notebooks -> ServiceObject]
BY DEF TypeOK

LEMMA GenerateStep ==
  ASSUME IInv, NEW n \in Notebooks, GenerateService(n)
  PROVE  IInv'
<1> DEFINE old == service[n]
           type == DefaultType(job[n].obj.type)
           exists == svccache[n].exists
           copy == [svccache[n] EXCEPT !.type = type]
           made == [NoService EXCEPT !.exists = TRUE, !.type = type]
           new == IF exists THEN Stored(old, copy) ELSE Changed(old, made)
           after == IF exists \/ type = job[n].obj.type THEN "status" ELSE "type"
<1>1. /\ old \in ServiceObject /\ svccache[n] \in ServiceObject /\ type \in ServiceTypes
      /\ after \in Pcs \ {"spec"} /\ "status" \in Pcs \ {"spec"} /\ TypeOK
  BY DefaultTypeTypes DEF IInv, TypeOK, Job, NotebookObject, Pcs
<1>2. new \in ServiceObject
  <2> HIDE DEF type
  <2>1. copy \in ServiceObject /\ made \in ServiceObject
    BY <1>1 DEF NoService, ServiceObject
  <2> HIDE DEF copy, made, old, exists
  <2> QED BY <1>1, <2>1, ServiceObjectTypes
<1>3. /\ job[n].pc # "idle" /\ UNCHANGED <<nb, sset, claim, pod, caches, queue>>
      /\ \/ Goto(n, "status") /\ UNCHANGED <<service, disturbed>>
         \/ \E ok \in BOOLEAN, kept \in {old, new} :
              /\ UNCHANGED disturbed \/ Disturb("lostCall")
              /\ service' = [service EXCEPT ![n] = kept]
              /\ IF ok THEN Goto(n, after) ELSE Return(n, FALSE)
  BY CallKinds DEF GenerateService
<1> HIDE DEF after, new
<1>4. CASE Goto(n, "status") /\ UNCHANGED <<service, disturbed>>
  BY <1>1, <1>3, <1>4, ServiceStep DEF TypeOK
<1>5. ASSUME NEW ok \in BOOLEAN, NEW kept \in {old, new},
             UNCHANGED disturbed \/ Disturb("lostCall"),
             service' = [service EXCEPT ![n] = kept],
             IF ok THEN Goto(n, after) ELSE Return(n, FALSE)
      PROVE  IInv'
  <2>1. service' \in [Notebooks -> ServiceObject]
    BY <1>1, <1>2, <1>5, ServiceKept
  <2>2. Goto(n, after) \/ \E k \in BOOLEAN : Return(n, k)
    BY <1>5
  <2> QED BY <1>1, <1>3, <1>5, <2>1, <2>2, ServiceStep
<1> QED BY <1>3, <1>4, <1>5

LEMMA UpdateNewStep ==
  ASSUME IInv, NEW n \in Notebooks, UpdateNewService(n)
  PROVE  IInv'
<1> DEFINE old == service[n]
           type == DefaultType(job[n].obj.type)
           copy == [old EXCEPT !.type = type]
           new == Stored(old, copy)
<1>1. old \in ServiceObject /\ type \in ServiceTypes /\ "status" \in Pcs \ {"spec"} /\ TypeOK
  BY DefaultTypeTypes DEF IInv, TypeOK, Job, NotebookObject, Pcs
<1>2. new \in ServiceObject
  <2> HIDE DEF type, old
  <2>1. copy \in ServiceObject
    BY <1>1 DEF ServiceObject
  <2> HIDE DEF copy
  <2> QED BY <1>1, <2>1, ServiceObjectTypes
<1>3. /\ job[n].pc # "idle" /\ UNCHANGED <<nb, sset, claim, pod, caches, queue>>
      /\ \E ok \in BOOLEAN, kept \in {old, new} :
           /\ UNCHANGED disturbed \/ Disturb("lostCall")
           /\ service' = [service EXCEPT ![n] = kept]
           /\ IF ok THEN Goto(n, "status") ELSE Return(n, FALSE)
  BY CallKinds DEF UpdateNewService
<1> HIDE DEF new
<1>4. PICK ok \in BOOLEAN, kept \in {old, new} :
        /\ UNCHANGED disturbed \/ Disturb("lostCall")
        /\ service' = [service EXCEPT ![n] = kept]
        /\ IF ok THEN Goto(n, "status") ELSE Return(n, FALSE)
  BY <1>3
<1>5. service' \in [Notebooks -> ServiceObject]
  BY <1>1, <1>2, <1>4, ServiceKept
<1>6. Goto(n, "status") \/ \E k \in BOOLEAN : Return(n, k)
  BY <1>4
<1> QED BY <1>1, <1>3, <1>4, <1>5, <1>6, ServiceStep

LEMMA ClaimsStep ==
  ASSUME IInv, NEW n \in Notebooks, CreateNoteBookPVC(n)
  PROVE  IInv'
<1> DEFINE c == VolumesOf[n][job[n].next]
           size == job[n].obj.size
           new == ClaimStored(claim[c], claimcache[c], size, n)
           stays == UNCHANGED <<claim, disturbed>>
           calls == /\ job[n].next \in DOMAIN VolumesOf[n]
                    /\ UNCHANGED disturbed \/ Disturb("lostCall")
                    /\ claim' = [claim EXCEPT ![c] = claim[c]]
                         \/ claim' = [claim EXCEPT ![c] = new]
           goes == job' = [job EXCEPT ![n].next = @ + 1] /\ UNCHANGED queue
           ends == /\ job' = [job EXCEPT ![n] = Idle]
                   /\ queue' = queue \cup {n} \/ queue' = queue
<1>1. /\ job[n].pc = "claims" /\ UNCHANGED <<nb, sset, service, pod, caches>>
      /\ stays \/ calls
      /\ goes \/ ends
  BY CallKinds DEF CreateNoteBookPVC
<1>2. job[n] \in Job /\ job[n].obj.size \in Nat
  BY DEF IInv, TypeOK, Job, NotebookObject
<1>3. claim' \in [Claims -> ClaimObject(Notebooks)] /\ disturbed' \in 0..MaxDisturbances
  <2>1. CASE stays
    BY <2>1 DEF IInv, TypeOK
  <2>2. CASE calls
    <3>1. c \in Claims
      BY <2>2, VolumesAssumption
    <3>2. claim[c] \in ClaimObject(Notebooks) /\ claimcache[c] \in ClaimObject(Notebooks)
      BY <3>1 DEF IInv, TypeOK
    <3>3. new \in ClaimObject(Notebooks)
      BY <1>2, <3>2, StoredClaim
    <3> HIDE DEF c, new
    <3>4. claim' \in [Claims -> ClaimObject(Notebooks)]
      BY <2>2, <3>1, <3>2, <3>3 DEF IInv, TypeOK
    <3> QED BY <2>2, <3>4, DisturbType DEF IInv, TypeOK
  <2> QED BY <1>1, <2>1, <2>2
<1>4. /\ job' \in [Notebooks -> Job] /\ queue' \subseteq Notebooks
      /\ \A m \in Notebooks : NotebookSafe(m)'
  <2>1. CASE goes
    <3> DEFINE next == [job[n] EXCEPT !.next = @ + 1]
    <3>1. job' = [job EXCEPT ![n] = next]
      BY <2>1, ClaimUpdate DEF IInv
    <3>2. next \in Job /\ next.pc = job[n].pc /\ next.obj = job[n].obj
      BY <1>2, NextClaim
    <3> HIDE DEF next
    <3>3. job' \in [Notebooks -> Job] /\ \A m \in Notebooks : NotebookSafe(m)'
      BY <1>1, <3>1, <3>2, JobSafe DEF caches
    <3> QED BY <2>1, <3>3 DEF IInv, TypeOK
  <2>2. CASE ends
    <3>1. job' \in [Notebooks -> Job] /\ \A m \in Notebooks : NotebookSafe(m)'
      BY <1>1, <2>2, Records, JobSafe DEF caches
    <3> QED BY <2>2, <3>1 DEF IInv, TypeOK
  <2> QED BY <1>1, <2>1, <2>2
<1> QED BY <1>1, <1>3, <1>4 DEF IInv, TypeOK, caches

LEMMA CollectClaimStep ==
  ASSUME IInv, NEW c \in Claims, CollectClaim(c)
  PROVE  IInv'
<1> DEFINE new == ClaimCollected(claim[c])
<1>1. claim' = [claim EXCEPT ![c] = new]
      /\ UNCHANGED <<nb, sset, service, pod, caches, queue, job, disturbed>>
  BY DEF CollectClaim
<1>2. new \in ClaimObject(Notebooks)
  BY NoClaimType, ClaimTypes DEF ClaimCollected, IInv, TypeOK
<1> HIDE DEF new
<1> QED BY <1>1, <1>2, NothingChanged DEF caches, IInv, TypeOK

LEMMA RestartStep ==
  ASSUME IInv, Restart
  PROVE  IInv'
<1>1. disturbed' \in 0..MaxDisturbances
  BY DisturbType DEF Restart, IInv, TypeOK
<1>2. job' \in [Notebooks -> Job] /\ \A n \in Notebooks : job'[n].pc = "idle"
  BY Records DEF Restart
<1>3. TypeOK'
  BY <1>1, <1>2 DEF Restart, stores, IInv, TypeOK
<1>4. ASSUME NEW n \in Notebooks
      PROVE  NotebookSafe(n)'
  <2>1. nb'[n].rv \in Nat /\ nbcache' = nb' /\ nb' = nb
    BY <1>3 DEF TypeOK, NotebookObject, Restart, stores
  <2>2. nb[n].rv = 0 => ~nb[n].exists
    BY DEF IInv, NotebookSafe
  <2> QED BY <1>2, <2>1, <2>2 DEF NotebookSafe, Older
<1> QED BY <1>3, <1>4 DEF IInv

-----------------------------------------------------------------------------
LEMMA Step == IInv /\ [Next]_vars => IInv'
<1> SUFFICES ASSUME IInv, [Next]_vars PROVE IInv'
  OBVIOUS
<1>1. ASSUME NEW n \in Notebooks, NEW type \in Types, CreateNotebook(n, type)
      PROVE  IInv'
  BY <1>1, CreateStep
<1>2. ASSUME NEW n \in Notebooks, EditNotebook(n) \/ DeleteNotebook(n)
      PROVE  IInv'
  BY <1>2, EditStep, DeleteStep
<1>3. ASSUME NEW n \in Notebooks,
             ReportPod(n) \/ ReplacePod(n) \/ ReportReady(n) \/ Collect(n)
      PROVE  IInv'
  BY <1>3, PodSteps, StatefulSetSteps
<1>4. ASSUME NEW n \in Notebooks, Informer(n) \/ OnChanged(n)
      PROVE  IInv'
  BY <1>4, InformerStep, OnChangedStep
<1>5. ASSUME NEW n \in Notebooks, NotebookStep(n)
      PROVE  IInv'
  BY <1>5, SyncTemplateStep, GenerateStep, UpdateNewStep, UpdateStatusStep, ClaimsStep
     DEF NotebookStep
<1>6. ASSUME NEW c \in Claims, CollectClaim(c) \/ SyncClaim(c)
      PROVE  IInv'
  BY <1>6, CollectClaimStep, SyncClaimStep
<1>7. CASE Restart
  BY <1>7, RestartStep
<1>8. CASE UNCHANGED vars
  BY <1>8, NothingChanged DEF vars, stores, caches, IInv, TypeOK
<1> QED BY <1>1, <1>2, <1>3, <1>4, <1>5, <1>6, <1>7, <1>8 DEF Next

LEMMA Inductive == Spec => []IInv
BY Initially, Step, PTL DEF Spec

-----------------------------------------------------------------------------
\* The objects of OnChanged and createNoteBookPVC, their copies and the jobs hold what
\* TypeOK says.
THEOREM NotebookTypesHold == Spec => []TypeOK
<1>1. IInv => TypeOK
  BY DEF IInv
<1> QED BY <1>1, Inductive, PTL

\* A write of a job that is accepted carries no older edit.
LEMMA WriteKeepsEdit ==
  ASSUME IInv, NEW n \in Notebooks, NEW copy \in NotebookObject,
         copy.rv = job[n].obj.rv, copy.spec.edit = job[n].obj.spec.edit, job[n].pc # "idle",
         Accepts(nb[n], copy)
  PROVE  nb[n].spec.edit = Stored(nb[n], copy).spec.edit
<1>1. nb[n] \in NotebookObject /\ Older(job[n].obj, nb[n])
  BY DEF IInv, TypeOK, NotebookSafe
<1>2. nb[n].spec.edit = copy.spec.edit
  BY <1>1 DEF Accepts, Older
<1> QED BY <1>1, <1>2, NotebookTypes

\* OnChanged never replaces what a user wrote into a notebook by an older edit.
THEOREM NoEditIsLost == Spec => EditsSurvive
<1> DEFINE Kept == \A n \in Notebooks : (nb[n].exists /\ nb'[n].exists) =>
                     nb[n].spec.edit <= nb'[n].spec.edit
<1>1. IInv /\ [Next]_vars => [Kept]_vars
  <2> SUFFICES ASSUME IInv, Next,
                      NEW m \in Notebooks, nb[m].exists, nb'[m].exists
               PROVE  nb[m].spec.edit <= nb'[m].spec.edit
    BY DEF vars
  <2>0. nb[m].spec.edit <= nb[m].spec.edit
    BY DEF IInv, TypeOK, NotebookObject, PodSpec
  <2>1. CASE UNCHANGED nb
    BY <2>0, <2>1
  <2>2. ASSUME NEW n \in Notebooks, NEW new \in NotebookObject,
               nb' = [nb EXCEPT ![n] = new],
               nb[n].exists /\ new.exists => nb[n].spec.edit <= new.spec.edit
        PROVE  nb[m].spec.edit <= nb'[m].spec.edit
    BY <2>0, <2>2 DEF IInv, TypeOK
  <2>3. ASSUME NEW n \in Notebooks, NEW type \in Types, CreateNotebook(n, type)
        PROVE  nb[m].spec.edit <= nb'[m].spec.edit
    <3>1. nb[n].rv = 0 /\ \A k \in Notebooks : k # n => nb'[k] = nb[k]
      BY <2>3 DEF CreateNotebook, IInv, TypeOK
    <3>2. ~nb[n].exists
      BY <3>1 DEF IInv, NotebookSafe
    <3> QED BY <2>0, <3>1, <3>2
  <2>4. ASSUME NEW n \in Notebooks, EditNotebook(n)
        PROVE  nb[m].spec.edit <= nb'[m].spec.edit
    <3>1. PICK new \in NotebookObject :
            /\ nb' = [nb EXCEPT ![n] = Changed(nb[n], new)]
            /\ nb[n].spec.edit <= new.spec.edit
      BY <2>4, EditEffect
    <3>2. Changed(nb[n], new) \in NotebookObject /\ Changed(nb[n], new).spec = new.spec
      BY NotebookTypes DEF IInv, TypeOK
    <3> QED BY <2>2, <3>1, <3>2
  <2>5. ASSUME NEW n \in Notebooks, DeleteNotebook(n)
        PROVE  nb[m].spec.edit <= nb'[m].spec.edit
    <3>1. Removed(nb[n]) \in NotebookObject /\ ~Removed(nb[n]).exists
      BY NotebookTypes DEF IInv, TypeOK
    <3> QED BY <2>2, <2>5, <3>1 DEF DeleteNotebook
  <2>6. ASSUME NEW n \in Notebooks, NEW copy \in NotebookObject,
               copy.rv = job[n].obj.rv, copy.spec.edit = job[n].obj.spec.edit,
               job[n].pc # "idle",
               \E kept \in {nb[n], Stored(nb[n], copy)}, ok \in BOOLEAN :
                 /\ Call(nb[n], Stored(nb[n], copy), Accepts(nb[n], copy), kept, ok)
                 /\ nb' = [nb EXCEPT ![n] = kept]
        PROVE  nb[m].spec.edit <= nb'[m].spec.edit
    <3>1. nb[n] \in NotebookObject /\ Stored(nb[n], copy) \in NotebookObject
      BY <2>6, NotebookTypes DEF IInv, TypeOK
    <3>2. \/ nb' = [nb EXCEPT ![n] = nb[n]]
          \/ Accepts(nb[n], copy) /\ nb' = [nb EXCEPT ![n] = Stored(nb[n], copy)]
      BY <2>6 DEF Call
    <3>3. CASE nb' = [nb EXCEPT ![n] = nb[n]]
      BY <2>0, <3>3 DEF IInv, TypeOK
    <3>4. CASE Accepts(nb[n], copy) /\ nb' = [nb EXCEPT ![n] = Stored(nb[n], copy)]
      <4>1. nb[n].spec.edit = Stored(nb[n], copy).spec.edit /\ nb[n].spec.edit \in Nat
        BY <2>6, <3>1, <3>4, WriteKeepsEdit DEF NotebookObject, PodSpec
      <4>2. nb[n].spec.edit <= Stored(nb[n], copy).spec.edit
        BY <4>1
      <4> HIDE DEF Kept
      <4> QED BY <2>2, <3>1, <3>4, <4>2
    <3> QED BY <3>2, <3>3, <3>4
  <2>7. ASSUME NEW n \in Notebooks, SyncTemplateSpec(n)
        PROVE  nb[m].spec.edit <= nb'[m].spec.edit
    <3>1. /\ SpecCopy(n) \in NotebookObject /\ SpecCopy(n).rv = job[n].obj.rv
          /\ SpecCopy(n).spec.edit = job[n].obj.spec.edit /\ job[n].pc # "idle"
      BY <2>7, SpecCopyType DEF SyncTemplateSpec, IInv, NotebookSafe
    <3>2. \E kept \in {nb[n], Stored(nb[n], SpecCopy(n))}, ok \in BOOLEAN :
            /\ Call(nb[n], Stored(nb[n], SpecCopy(n)), Accepts(nb[n], SpecCopy(n)), kept, ok)
            /\ nb' = [nb EXCEPT ![n] = kept]
      BY <2>7 DEF SyncTemplateSpec
    <3> QED BY <2>6, <3>1, <3>2
  <2>8. ASSUME NEW n \in Notebooks, UpdateNotebookStatus(n)
        PROVE  nb[m].spec.edit <= nb'[m].spec.edit
    <3>1. /\ StatusCopy(n) \in NotebookObject /\ StatusCopy(n).rv = job[n].obj.rv
          /\ StatusCopy(n).spec.edit = job[n].obj.spec.edit /\ job[n].pc # "idle"
      BY <2>8, StatusCopyType DEF UpdateNotebookStatus
    <3>2. \/ UNCHANGED nb
          \/ \E kept \in {nb[n], Stored(nb[n], StatusCopy(n))}, ok \in BOOLEAN :
               /\ Call(nb[n], Stored(nb[n], StatusCopy(n)), Accepts(nb[n], StatusCopy(n)),
                       kept, ok)
               /\ nb' = [nb EXCEPT ![n] = kept]
      BY <2>8 DEF UpdateNotebookStatus, StatusCopy
    <3> QED BY <2>1, <2>6, <3>1, <3>2
  <2> QED BY <2>1, <2>3, <2>4, <2>5, <2>7, <2>8 DEF Next, ReportPod, ReplacePod, ReportReady,
             Collect, Informer, SyncNotebook, SyncPod, SyncStatefulSet, SyncService,
             OnChanged, NotebookStep, GenerateService, UpdateNewService, CreateNoteBookPVC,
             CollectClaim, SyncClaim, Restart, stores
<1> QED BY <1>1, Inductive, PTL DEF Spec, EditsSurvive

-----------------------------------------------------------------------------
(***************************************************************************)
(* NotebookServed and StateShown speak of the states in which nothing is   *)
(* queued or running.  What makes them true there is what each step of a   *)
(* job has already seen to: the second invariant says it of every state.   *)
(***************************************************************************)

\* A claim is there, of that size or larger, or it may have gone with a notebook that
\* named it, one of lost.
ClaimKept(made, lost, c, size) == c \in lost \/ (made[c].exists /\ size <= made[c].size)

\* The first k - 1 volumes of a notebook have their claims.
VolumesMade(made, lost, n, k, size) ==
  \A i \in DOMAIN VolumesOf[n] : i < k => ClaimKept(made, lost, VolumesOf[n][i], size)

\* Nothing was made for a notebook that never was.  While there is one, what was made
\* stays, and a job that got beyond a call has made it.
Lasting(n) ==
  /\ nb[n].rv = 0 => /\ ~sset[n].exists /\ ~service[n].exists
                     /\ ~sscache[n].exists /\ ~svccache[n].exists
  /\ nb[n].exists => /\ sscache[n].exists => sset[n].exists
                     /\ svccache[n].exists => service[n].exists
                     /\ job[n].pc \in {"spec", "service", "type", "status"} => sset[n].exists
                     /\ job[n].pc \in {"type", "status"} => service[n].exists
                     /\ (job[n].pc = "claims" /\ ~job[n].failed) =>
                          sset[n].exists /\ service[n].exists

\* A job works on the notebook in the cache, or its key is queued again; it has made the
\* claims it has passed.
Working(n) ==
  /\ job[n].pc # "idle" => job[n].obj.exists /\ (n \in queue \/ job[n].obj = nbcache[n])
  /\ job[n].next # 0 /\ (job[n].pc # "claims" => job[n].next = 1)
  /\ job[n].pc = "claims" => VolumesMade(claim, NamedByGone, n, job[n].next, job[n].obj.size)

\* A key that is neither queued nor held was served.
Rested(n) ==
  (job[n].pc = "idle" /\ n \notin queue /\ nbcache[n].exists /\ nb[n].exists) =>
    /\ sset[n].exists /\ service[n].exists
    /\ VolumesMade(claim, NamedByGone, n, Len(VolumesOf[n]) + 1, nbcache[n].size)

\* The state is written before the claims are made.  A notebook whose cached copy is old
\* will be queued again.
Shown(n) ==
  (/\ job[n].pc = "idle" \/ (job[n].pc = "claims" /\ ~job[n].failed)
   /\ n \notin queue /\ nbcache[n].exists /\ podcache[n].at # 0) =>
    nbcache[n].rv # nb[n].rv \/ nbcache[n].state = ContainerState(podcache[n])

Served(n) == Lasting(n) /\ Working(n) /\ Rested(n) /\ Shown(n)

\* A cached claim is the claim or an older version, and claims only grow; the notebooks
\* that own one name it.
Claimed(c) ==
  /\ ClaimSafe(claim[c], claimcache[c])
  /\ claimcache[c].exists => ClaimKept(claim, NamedByGone, c, claimcache[c].size)
  /\ \A n \in claim[c].owners : \E i \in DOMAIN VolumesOf[n] : c = VolumesOf[n][i]

SInv == IInv /\ (\A n \in Notebooks : Served(n)) /\ (\A c \in Claims : Claimed(c))

\* What was named by a notebook that is gone was.
GoneStays == NamedByGone \subseteq NamedByGone'

\* A step removes no claim of another notebook, and makes none smaller.
ClaimsGrow ==
  /\ GoneStays
  /\ \A c \in Claims : claim[c].exists => ClaimKept(claim', NamedByGone', c, claim[c].size)

-----------------------------------------------------------------------------
\* A name is used once.
LEMMA GoneStay ==
  ASSUME IInv, [Next]_vars
  PROVE  GoneStays
<1>1. CASE UNCHANGED nb
  BY <1>1 DEF GoneStays, NamedByGone, Gone
<1>2. ASSUME NEW n \in Notebooks, NEW new, nb' = [nb EXCEPT ![n] = new],
             nb[n].rv = 0 \/ nb[n].exists \/ new = nb[n]
      PROVE  GoneStays
  <2>1. Gone \subseteq Gone'
    BY <1>2 DEF Gone, IInv, TypeOK
  <2> QED BY <2>1 DEF GoneStays, NamedByGone
<1>3. ASSUME NEW n \in Notebooks, NEW type \in Types, CreateNotebook(n, type)
      PROVE  GoneStays
  BY <1>2, <1>3 DEF CreateNotebook
<1>4. ASSUME NEW n \in Notebooks, EditNotebook(n) \/ DeleteNotebook(n)
      PROVE  GoneStays
  <2>1. nb[n].exists /\ \E new : nb' = [nb EXCEPT ![n] = new]
    BY <1>4 DEF EditNotebook, Edit, DeleteNotebook
  <2> QED BY <1>2, <2>1
<1>5. ASSUME NEW n \in Notebooks, SyncTemplateSpec(n) \/ UpdateNotebookStatus(n)
      PROVE  GoneStays
  <2>1. UNCHANGED nb \/ \E new : /\ nb' = [nb EXCEPT ![n] = new]
                                 /\ nb[n].exists \/ new = nb[n]
    BY <1>5 DEF SyncTemplateSpec, UpdateNotebookStatus, Call, Accepts
  <2> QED BY <1>1, <1>2, <2>1
<1> QED BY <1>1, <1>3, <1>4, <1>5 DEF Next, ReportPod, ReplacePod, ReportReady, Collect,
           Informer, SyncNotebook, SyncPod, SyncStatefulSet, SyncService, OnChanged,
           NotebookStep, GenerateService, UpdateNewService, CreateNoteBookPVC, CollectClaim,
           SyncClaim, Restart, stores, vars

LEMMA VolumeClaim ==
  ASSUME NEW n \in Notebooks
  PROVE  /\ Len(VolumesOf[n]) \in Nat /\ DOMAIN VolumesOf[n] = 1..Len(VolumesOf[n])
         /\ \A i \in DOMAIN VolumesOf[n] : VolumesOf[n][i] \in Claims
BY VolumesAssumption

LEMMA ClaimsUnchanged ==
  ASSUME SInv, UNCHANGED <<claim, claimcache>>, GoneStays
  PROVE  ClaimsGrow /\ \A c \in Claims : Claimed(c)'
<1>1. \A c \in Claims : claim[c].size \in Nat
  BY DEF SInv, IInv, TypeOK, ClaimObject
<1>2. ClaimsGrow
  BY <1>1 DEF ClaimsGrow, ClaimKept
<1>3. ASSUME NEW c \in Claims
      PROVE  Claimed(c)'
  BY DEF SInv, Claimed, ClaimSafe, ClaimKept, GoneStays
<1> QED BY <1>2, <1>3

LEMMA VolumesStayMade ==
  ASSUME SInv, IInv', ClaimsGrow, NEW n \in Notebooks, NEW k \in Nat, NEW size \in Nat,
         VolumesMade(claim, NamedByGone, n, k, size)
  PROVE  VolumesMade(claim', NamedByGone', n, k, size)
<1> SUFFICES ASSUME NEW i \in DOMAIN VolumesOf[n], i < k
             PROVE  ClaimKept(claim', NamedByGone', VolumesOf[n][i], size)
  BY DEF VolumesMade
<1> DEFINE c == VolumesOf[n][i]
<1>1. c \in Claims
  BY VolumeClaim
<1>2. claim[c].size \in Nat /\ claim'[c].size \in Nat
  BY <1>1 DEF SInv, IInv, TypeOK, ClaimObject
<1>3. ClaimKept(claim, NamedByGone, c, size)
  BY DEF VolumesMade
<1> HIDE DEF c
<1>4. ClaimKept(claim', NamedByGone', c, size)
  BY <1>1, <1>2, <1>3 DEF ClaimsGrow, GoneStays, ClaimKept
<1> QED BY <1>4 DEF c

\* What a step leaves alone of notebook m.
Untouched(m) ==
  /\ nb'[m] = nb[m] /\ nbcache'[m] = nbcache[m] /\ podcache'[m] = podcache[m]
  /\ sset'[m].exists = sset[m].exists /\ sscache'[m].exists = sscache[m].exists
  /\ service'[m].exists = service[m].exists /\ svccache'[m].exists = svccache[m].exists
  /\ job'[m] = job[m] /\ (m \in queue' <=> m \in queue)

LEMMA UntouchedServed ==
  ASSUME SInv, IInv', ClaimsGrow, NEW m \in Notebooks, Untouched(m)
  PROVE  Served(m)'
<1>1. Served(m)
  BY DEF SInv
<1>2. /\ Len(VolumesOf[m]) + 1 \in Nat /\ nbcache[m].size \in Nat
      /\ job[m].next \in Nat /\ job[m].obj.size \in Nat
  <2>1. nbcache[m] \in NotebookObject /\ job[m] \in Job
    BY DEF SInv, IInv, TypeOK
  <2>2. job[m].next \in Nat /\ job[m].obj \in NotebookObject
    BY <2>1 DEF Job
  <2>3. \A o \in NotebookObject : o.size \in Nat
    BY DEF NotebookObject
  <2> QED BY <2>1, <2>2, <2>3, VolumeClaim
<1>3. Lasting(m)'
  BY <1>1 DEF Served, Lasting, Untouched
<1>4. Working(m)'
  <2>1. VolumesMade(claim, NamedByGone, m, job[m].next, job[m].obj.size) =>
          VolumesMade(claim', NamedByGone', m, job[m].next, job[m].obj.size)
    BY <1>2, VolumesStayMade
  <2> QED BY <1>1, <2>1 DEF Served, Working, Untouched
<1>5. Rested(m)'
  <2>1. VolumesMade(claim, NamedByGone, m, Len(VolumesOf[m]) + 1, nbcache[m].size) =>
          VolumesMade(claim', NamedByGone', m, Len(VolumesOf[m]) + 1, nbcache[m].size)
    BY <1>2, VolumesStayMade
  <2> QED BY <1>1, <2>1 DEF Served, Rested, Untouched
<1>6. Shown(m)'
  BY <1>1 DEF Served, Shown, Untouched
<1> QED BY <1>3, <1>4, <1>5, <1>6 DEF Served

\* Such a step, of notebook n alone.
LEMMA ServedBut ==
  ASSUME SInv, IInv', GoneStays, NEW n \in Notebooks, UNCHANGED <<claim, claimcache>>,
         \A m \in Notebooks \ {n} : Untouched(m), Served(n)'
  PROVE  SInv'
<1>1. ClaimsGrow /\ \A c \in Claims : Claimed(c)'
  BY ClaimsUnchanged
<1>2. \A m \in Notebooks : Served(m)'
  BY <1>1, UntouchedServed
<1> QED BY <1>1, <1>2 DEF SInv

\* What a step that changes no claim needs to be carried over.
LEMMA MadeKept ==
  ASSUME SInv, UNCHANGED claim, GoneStays, NEW n, NEW k, NEW size,
         VolumesMade(claim, NamedByGone, n, k, size)
  PROVE  VolumesMade(claim', NamedByGone', n, k, size)
BY DEF VolumesMade, ClaimKept, GoneStays

LEMMA ServedFacts ==
  ASSUME SInv, NEW n \in Notebooks
  PROVE  /\ Lasting(n) /\ Working(n) /\ Rested(n) /\ Shown(n) /\ NotebookSafe(n)
         /\ nb[n] \in NotebookObject /\ nbcache[n] \in NotebookObject
         /\ nb[n].rv \in Nat /\ nbcache[n].rv \in Nat
         /\ job[n] \in Job /\ job[n].obj \in NotebookObject /\ job[n].obj.rv \in Nat
         /\ nbcache[n].exists => nb[n].rv # 0
         /\ job[n].pc # "idle" => nb[n].rv # 0
<1>1. Lasting(n) /\ Working(n) /\ Rested(n) /\ Shown(n) /\ NotebookSafe(n)
  BY DEF SInv, IInv, Served
<1>2. /\ nb[n] \in NotebookObject /\ nbcache[n] \in NotebookObject
      /\ nb[n].rv \in Nat /\ nbcache[n].rv \in Nat
      /\ job[n] \in Job /\ job[n].obj \in NotebookObject /\ job[n].obj.rv \in Nat
  BY DEF SInv, IInv, TypeOK, NotebookObject, Job
<1>3. nbcache[n].exists => nb[n].rv # 0
  BY <1>1, <1>2 DEF NotebookSafe, Older
<1>4. job[n].pc # "idle" => nb[n].rv # 0
  BY <1>1, <1>2 DEF NotebookSafe, Older, Working
<1> QED BY <1>1, <1>2, <1>3, <1>4

-----------------------------------------------------------------------------
\* Users and pods.

\* A notebook that was there is changed or deleted.
LEMMA ChangedServed ==
  ASSUME SInv, IInv', GoneStays, NEW n \in Notebooks, NEW new \in NotebookObject,
         nb' = [nb EXCEPT ![n] = new], nb[n].rv < new.rv,
         nb[n].exists, UNCHANGED <<sset, service, claim, pod, caches, queue, job>>
  PROVE  SInv'
<1>1. nb'[n] = new /\ \A m \in Notebooks \ {n} : nb'[m] = nb[m]
  BY DEF SInv, IInv, TypeOK
<1>2. \A m \in Notebooks \ {n} : Untouched(m)
  BY <1>1 DEF Untouched, caches
<1>3. /\ Lasting(n) /\ Working(n) /\ Rested(n) /\ Shown(n) /\ NotebookSafe(n)
      /\ nb[n].rv \in Nat /\ nbcache[n].rv \in Nat /\ new.rv \in Nat
  BY ServedFacts DEF NotebookObject
<1>4. Lasting(n)' /\ Working(n)' /\ Rested(n)'
  BY <1>1, <1>3, MadeKept DEF Lasting, Working, Rested, caches
<1>5. Shown(n)'
  BY <1>1, <1>3 DEF Shown, NotebookSafe, Older, caches
<1> QED BY <1>2, <1>4, <1>5, ServedBut DEF Served, caches

LEMMA CreateServed ==
  ASSUME SInv, IInv', GoneStays, NEW n \in Notebooks, NEW type \in Types, CreateNotebook(n, type)
  PROVE  SInv'
<1>1. /\ nb[n].rv = 0 /\ \A m \in Notebooks \ {n} : nb'[m] = nb[m]
      /\ UNCHANGED <<sset, service, claim, pod, caches, queue, job, disturbed>>
  BY DEF CreateNotebook, SInv, IInv, TypeOK
<1>2. \A m \in Notebooks \ {n} : Untouched(m)
  BY <1>1 DEF Untouched, caches
<1>3. Working(n) /\ Lasting(n) /\ ~nbcache[n].exists /\ job[n].pc = "idle"
  BY <1>1, ServedFacts
<1>4. Lasting(n)' /\ Working(n)' /\ Rested(n)' /\ Shown(n)'
  <2>1. Lasting(n)'
    BY <1>1, <1>3 DEF Lasting, caches
  <2>2. Working(n)'
    BY <1>1, <1>3 DEF Working, caches
  <2>3. Rested(n)' /\ Shown(n)'
    BY <1>1, <1>3 DEF Rested, Shown, caches
  <2> QED BY <2>1, <2>2, <2>3
<1> QED BY <1>1, <1>2, <1>4, ServedBut DEF Served, caches

LEMMA UsersServed ==
  ASSUME SInv, IInv', GoneStays, NEW n \in Notebooks, EditNotebook(n) \/ DeleteNotebook(n)
  PROVE  SInv'
<1>1. CASE EditNotebook(n)
  <2>1. PICK new \in NotebookObject :
          /\ nb' = [nb EXCEPT ![n] = Changed(nb[n], new)]
          /\ UNCHANGED <<sset, service, claim, pod, caches, queue, job>>
    BY <1>1, EditEffect DEF SInv
  <2>2. nb[n].exists
    BY <1>1 DEF EditNotebook, Edit
  <2>3. Changed(nb[n], new) \in NotebookObject /\ nb[n].rv < Changed(nb[n], new).rv
    BY NotebookTypes, ServedFacts
  <2> QED BY <2>1, <2>2, <2>3, ChangedServed
<1>2. CASE DeleteNotebook(n)
  <2>1. Removed(nb[n]) \in NotebookObject /\ nb[n].rv < Removed(nb[n]).rv
    BY NotebookTypes, ServedFacts
  <2> QED BY <1>2, <2>1, ChangedServed DEF DeleteNotebook
<1> QED BY <1>1, <1>2

LEMMA PodsServed ==
  ASSUME SInv, IInv', GoneStays, NEW n \in Notebooks, ReportPod(n) \/ ReplacePod(n) \/ ReportReady(n)
  PROVE  SInv'
<1>1. \A m \in Notebooks : sset'[m].exists = sset[m].exists
  <2>1. CASE UNCHANGED sset
    BY <2>1
  <2>2. CASE ReportReady(n)
    <3> DEFINE new == Changed(sset[n], [sset[n] EXCEPT !.ready = ~@])
    <3>1. new.exists = sset[n].exists
      BY DEF Changed, SInv, IInv, TypeOK, StatefulSetObject
    <3>2. sset' = [sset EXCEPT ![n] = new]
      BY <2>2 DEF ReportReady
    <3> HIDE DEF new
    <3> QED BY <3>1, <3>2 DEF SInv, IInv, TypeOK
  <2> QED BY <2>1, <2>2 DEF ReportPod, ReplacePod
<1>2. UNCHANGED <<nb, service, claim, caches, queue, job>>
  BY DEF ReportPod, ReplacePod, ReportReady
<1>3. \A m \in Notebooks : Untouched(m)
  BY <1>1, <1>2 DEF Untouched, caches
<1>4. ClaimsGrow /\ \A c \in Claims : Claimed(c)'
  BY <1>2, ClaimsUnchanged DEF caches
<1> QED BY <1>3, <1>4, UntouchedServed DEF SInv

LEMMA CollectServed ==
  ASSUME SInv, IInv', GoneStays, NEW n \in Notebooks, Collect(n)
  PROVE  SInv'
<1>1. /\ ~nb[n].exists /\ sset[n].exists /\ UNCHANGED <<nb, claim, caches, queue, job>>
      /\ \A m \in Notebooks \ {n} : sset'[m] = sset[m] /\ service'[m] = service[m]
  BY DEF Collect, SInv, IInv, TypeOK
<1>2. \A m \in Notebooks \ {n} : Untouched(m)
  BY <1>1 DEF Untouched, caches
<1>3. Lasting(n) /\ Working(n) /\ Shown(n) /\ nb[n].rv # 0
  BY <1>1, ServedFacts DEF Lasting
<1>4. Lasting(n)' /\ Working(n)' /\ Rested(n)' /\ Shown(n)'
  <2>1. Lasting(n)' /\ Rested(n)'
    BY <1>1, <1>3 DEF Lasting, Rested
  <2>2. Working(n)' /\ Shown(n)'
    BY <1>1, <1>3, MadeKept DEF Working, Shown, caches
  <2> QED BY <2>1, <2>2
<1> QED BY <1>1, <1>2, <1>4, ServedBut DEF Served, caches

-----------------------------------------------------------------------------
\* The informers: a notebook or a pod that is delivered queues the key.

LEMMA InformersServed ==
  ASSUME SInv, IInv', GoneStays, NEW n \in Notebooks, Informer(n)
  PROVE  SInv'
<1>1. /\ UNCHANGED <<nb, sset, service, claim, claimcache, job>>
      /\ \A m \in Notebooks \ {n} :
           /\ nbcache'[m] = nbcache[m] /\ podcache'[m] = podcache[m]
           /\ sscache'[m] = sscache[m] /\ svccache'[m] = svccache[m]
           /\ m \in queue' <=> m \in queue
  BY DEF Informer, SyncNotebook, SyncPod, PodOwner, SyncStatefulSet, SyncService, stores,
         SInv, IInv, TypeOK
<1>2. \A m \in Notebooks \ {n} : Untouched(m)
  BY <1>1 DEF Untouched
<1>3. Lasting(n) /\ Working(n) /\ Rested(n) /\ Shown(n) /\ NotebookSafe(n)
  BY ServedFacts
<1>4. CASE SyncNotebook(n) \/ SyncPod(n)
  <2>1. n \in queue' /\ UNCHANGED <<sscache, svccache>>
    BY <1>4 DEF SyncNotebook, SyncPod, PodOwner
  <2>2. Lasting(n)' /\ Working(n)'
    BY <1>1, <1>3, <2>1, MadeKept DEF Lasting, Working
  <2>3. Rested(n)' /\ Shown(n)'
    BY <2>1 DEF Rested, Shown
  <2> QED BY <1>1, <1>2, <2>2, <2>3, ServedBut DEF Served
<1>5. CASE SyncStatefulSet(n) \/ SyncService(n)
  <2>1. /\ UNCHANGED <<nbcache, podcache, queue>>
        /\ sscache'[n] \in {sscache[n], sset[n]} /\ svccache'[n] \in {svccache[n], service[n]}
    BY <1>5 DEF SyncStatefulSet, SyncService, SInv, IInv, TypeOK
  <2>2. Lasting(n)'
    BY <1>1, <1>3, <2>1 DEF Lasting
  <2>3. Working(n)' /\ Rested(n)' /\ Shown(n)'
    BY <1>1, <1>3, <2>1, MadeKept DEF Working, Rested, Shown
  <2> QED BY <1>1, <1>2, <2>2, <2>3, ServedBut DEF Served
<1> QED BY <1>4, <1>5 DEF Informer

LEMMA SyncClaimServed ==
  ASSUME SInv, IInv', GoneStays, NEW c \in Claims, SyncClaim(c)
  PROVE  SInv'
<1>1. /\ UNCHANGED <<stores, nbcache, sscache, svccache, podcache, queue, job>>
      /\ claimcache' = [claimcache EXCEPT ![c] = claim[c]]
  BY DEF SyncClaim
<1>2. \A d \in Claims : claim[d].size \in Nat /\ claim[d].rv \in Nat
  BY DEF SInv, IInv, TypeOK, ClaimObject
<1>3. ClaimsGrow
  BY <1>1, <1>2 DEF ClaimsGrow, ClaimKept, stores
<1>4. \A m \in Notebooks : Untouched(m)
  BY <1>1 DEF Untouched, stores
<1>5. ASSUME NEW d \in Claims
      PROVE  Claimed(d)'
  <2>1. claim'[d] = claim[d] /\ claimcache'[d] \in {claimcache[d], claim[d]}
    BY <1>1 DEF stores, SInv, IInv, TypeOK
  <2>2. Claimed(d)
    BY DEF SInv
  <2> QED BY <1>2, <2>1, <2>2 DEF Claimed, ClaimSafe, ClaimKept, GoneStays
<1> QED BY <1>3, <1>4, <1>5, UntouchedServed DEF SInv

\* Of a claim that is removed the owner is gone.
LEMMA CollectClaimServed ==
  ASSUME SInv, IInv', GoneStays, NEW c \in Claims, CollectClaim(c)
  PROVE  SInv'
<1> DEFINE new == ClaimCollected(claim[c])
<1>1. /\ claim' = [claim EXCEPT ![c] = new]
      /\ claim[c].owners # {} /\ claim[c].owners \subseteq Gone
      /\ UNCHANGED <<nb, sset, service, pod, caches, queue, job>>
  BY DEF CollectClaim, Collectable
<1>2. /\ claim[c] \in ClaimObject(Notebooks) /\ claimcache[c] \in ClaimObject(Notebooks)
      /\ Claimed(c)
  BY DEF SInv, IInv, TypeOK
<1>3. ClaimSafe(new, claimcache[c]) /\ new.owners = {}
  BY <1>2, CollectedClaim DEF Claimed
<1> HIDE DEF new
<1>4. claim'[c] = new /\ \A d \in Claims \ {c} : claim'[d] = claim[d]
  BY <1>1 DEF SInv, IInv, TypeOK
<1>5. c \in NamedByGone
  BY <1>1, <1>2 DEF Claimed, NamedByGone
<1>6. \A d \in Claims : claim[d].size \in Nat
  BY DEF SInv, IInv, TypeOK, ClaimObject
<1>7. ClaimsGrow
  BY <1>4, <1>5, <1>6 DEF ClaimsGrow, ClaimKept, GoneStays
<1>8. ASSUME NEW d \in Claims
      PROVE  Claimed(d)'
  <2>1. Claimed(d) /\ claimcache' = claimcache
    BY <1>1 DEF SInv, caches
  <2>2. CASE d = c
    BY <1>3, <1>4, <1>5, <2>1, <2>2 DEF Claimed, ClaimKept, GoneStays
  <2>3. CASE d # c
    BY <1>4, <2>1, <2>3 DEF Claimed, ClaimSafe, ClaimKept, GoneStays
  <2> QED BY <2>2, <2>3
<1>9. \A m \in Notebooks : Untouched(m)
  BY <1>1 DEF Untouched, caches
<1> QED BY <1>7, <1>8, <1>9, UntouchedServed DEF SInv

-----------------------------------------------------------------------------
\* The handlers.  What a job becomes:

JobBecomes(n, pc, failed) ==
  /\ job'[n].pc = pc /\ job'[n].failed = failed
  /\ job'[n].obj = job[n].obj /\ job'[n].next = job[n].next
  /\ \A m \in Notebooks \ {n} : job'[m] = job[m]

LEMMA GotoBecomes ==
  ASSUME SInv, NEW n \in Notebooks, NEW pc, Goto(n, pc)
  PROVE  JobBecomes(n, pc, job[n].failed)
BY DEF Goto, JobBecomes, SInv, IInv, TypeOK, Job

LEMMA ReturnBecomes ==
  ASSUME SInv, NEW n \in Notebooks, NEW ok \in BOOLEAN, Return(n, ok)
  PROVE  JobBecomes(n, "claims", ~ok)
BY DEF Return, JobBecomes, SInv, IInv, TypeOK, Job

\* OnChanged takes the key: the job works on the notebook in the cache.
JobStarts(n, pc, failed) ==
  /\ job'[n].pc = pc /\ job'[n].failed = failed
  /\ job'[n].obj = nbcache[n] /\ job'[n].next = job[n].next
  /\ \A m \in Notebooks \ {n} : job'[m] = job[m]

LEMMA AnsweredStarts ==
  ASSUME SInv, NEW n \in Notebooks, NEW ss, Answered(n, ss)
  PROVE  \E pc \in {"spec", "service"} : JobStarts(n, pc, job[n].failed)
BY DEF Answered, JobStarts, SInv, IInv, TypeOK, Job

LEMMA FailedStarts ==
  ASSUME SInv, NEW n \in Notebooks, Failed(n)
  PROVE  JobStarts(n, "claims", TRUE)
BY DEF Failed, JobStarts, SInv, IInv, TypeOK, Job

\* A stateful set that is answered is there, unless the notebook is not any more.
LEMMA EnsureStarts ==
  ASSUME SInv, NEW n \in Notebooks, nbcache[n].exists, EnsureStatefulSet(n)
  PROVE  /\ sset[n].exists => sset'[n].exists
         /\ \A m \in Notebooks \ {n} : sset'[m] = sset[m]
         /\ \/ JobStarts(n, "claims", TRUE)
            \/ /\ nb[n].exists => sset'[n].exists
               /\ \E pc \in {"spec", "service"} : JobStarts(n, pc, job[n].failed)
<1> DEFINE old == sset[n]
           exists == sscache[n].exists
           made == [NoStatefulSet EXCEPT !.exists = TRUE,
                      !.spec = [edit |-> nbcache[n].spec.edit, form |-> "full"]]
           copy == [sscache[n] EXCEPT !.spec = Defaulted(nbcache[n].spec)]
           new == IF exists THEN Stored(old, copy) ELSE Changed(old, made)
           possible == IF exists THEN Accepts(old, copy) ELSE ~old.exists
<1>1. Lasting(n) /\ old \in StatefulSetObject /\ sscache[n] \in StatefulSetObject
  BY ServedFacts DEF SInv, IInv, TypeOK
<1>2. new.exists
  <2>1. CASE exists
    <3>1. copy.exists
      BY <1>1, <2>1 DEF StatefulSetObject
    <3>2. [copy EXCEPT !.rv = old.rv + 1].exists = copy.exists
      BY <1>1 DEF StatefulSetObject
    <3> HIDE DEF copy
    <3> QED BY <2>1, <3>1, <3>2 DEF Stored
  <2>2. CASE ~exists
    <3>1. made.exists /\ [made EXCEPT !.rv = old.rv + 1].exists = made.exists
      BY DEF NoStatefulSet
    <3> HIDE DEF made
    <3> QED BY <2>2, <3>1 DEF Changed
  <2> QED BY <2>1, <2>2
<1>3. \/ exists /\ Answered(n, sscache[n]) /\ UNCHANGED sset
      \/ \E ok \in BOOLEAN, kept \in {old, new} :
           /\ Call(old, new, possible, kept, ok)
           /\ sset' = [sset EXCEPT ![n] = kept]
           /\ IF ok THEN Answered(n, kept) ELSE Failed(n)
  BY DEF EnsureStatefulSet
<1>4. CASE exists /\ Answered(n, sscache[n]) /\ UNCHANGED sset
  <2>1. nb[n].exists => sset'[n].exists
    BY <1>1, <1>4 DEF Lasting
  <2> QED BY <1>4, <2>1, AnsweredStarts
<1>5. CASE \E ok \in BOOLEAN, kept \in {old, new} :
             /\ Call(old, new, possible, kept, ok)
             /\ sset' = [sset EXCEPT ![n] = kept]
             /\ IF ok THEN Answered(n, kept) ELSE Failed(n)
  <2> HIDE DEF new, possible
  <2>1. PICK ok \in BOOLEAN, kept \in {old, new} :
          /\ ok => kept = new
          /\ sset' = [sset EXCEPT ![n] = kept]
          /\ IF ok THEN Answered(n, kept) ELSE Failed(n)
    BY <1>5 DEF Call
  <2>2. sset'[n] = kept /\ \A m \in Notebooks \ {n} : sset'[m] = sset[m]
    BY <2>1 DEF SInv, IInv, TypeOK
  <2> QED BY <1>2, <2>1, <2>2, AnsweredStarts, FailedStarts
<1> QED BY <1>3, <1>4, <1>5

LEMMA OnChangedServed ==
  ASSUME SInv, IInv', GoneStays, NEW n \in Notebooks, OnChanged(n)
  PROVE  SInv'
<1>1. /\ job[n].pc = "idle" /\ queue' = queue \ {n}
      /\ UNCHANGED <<nb, service, claim, pod, caches>>
  BY DEF OnChanged
<1>2. /\ Lasting(n) /\ Working(n) /\ (nbcache[n].exists => nb[n].rv # 0)
      /\ nbcache[n].size \in Nat
  BY ServedFacts DEF NotebookObject
<1>3. CASE nbcache[n].exists
  <2>1. EnsureStatefulSet(n)
    BY <1>3 DEF OnChanged
  <2>2. /\ sset[n].exists => sset'[n].exists
        /\ \A m \in Notebooks \ {n} : sset'[m] = sset[m]
        /\ \/ JobStarts(n, "claims", TRUE)
           \/ /\ nb[n].exists => sset'[n].exists
              /\ \E pc \in {"spec", "service"} : JobStarts(n, pc, job[n].failed)
    BY <1>3, <2>1, EnsureStarts
  <2>3. /\ job'[n].obj = nbcache[n] /\ job'[n].next = 1
        /\ \A m \in Notebooks \ {n} : job'[m] = job[m]
        /\ \/ job'[n].pc = "claims" /\ job'[n].failed
           \/ job'[n].pc \in {"spec", "service"} /\ (nb[n].exists => sset'[n].exists)
    BY <1>1, <1>2, <2>2 DEF JobStarts, Working
  <2>4. \A m \in Notebooks \ {n} : Untouched(m)
    BY <1>1, <2>2, <2>3 DEF Untouched, caches
  <2>5. Lasting(n)'
    BY <1>1, <1>2, <1>3, <2>2, <2>3 DEF Lasting, caches
  <2>6. Working(n)'
    <3>1. VolumesMade(claim', NamedByGone', n, 1, nbcache[n].size)
      BY VolumeClaim DEF VolumesMade
    <3> QED BY <1>1, <1>3, <2>3, <3>1 DEF Working, caches
  <2>7. Rested(n)' /\ Shown(n)'
    BY <2>3 DEF Rested, Shown
  <2> QED BY <1>1, <2>4, <2>5, <2>6, <2>7, ServedBut DEF Served, caches
<1>4. CASE ~nbcache[n].exists
  <2>1. UNCHANGED <<sset, job>>
    BY <1>4 DEF OnChanged
  <2>2. \A m \in Notebooks \ {n} : Untouched(m)
    BY <1>1, <2>1 DEF Untouched, caches
  <2>3. Lasting(n)'
    BY <1>1, <1>2, <2>1 DEF Lasting, caches
  <2>4. Working(n)'
    BY <1>1, <1>2, <2>1 DEF Working, caches
  <2>5. Rested(n)' /\ Shown(n)'
    BY <1>1, <1>4 DEF Rested, Shown, caches
  <2> QED BY <1>1, <2>2, <2>3, <2>4, <2>5, ServedBut DEF Served, caches
<1> QED BY <1>3, <1>4

\* A call that writes the notebook: what is kept is the notebook, or newer; it is never
\* made again.
LEMMA CallWrites ==
  ASSUME SInv, NEW n \in Notebooks, NEW copy \in NotebookObject, NEW kept, NEW ok,
         Call(nb[n], Stored(nb[n], copy), Accepts(nb[n], copy), kept, ok)
  PROVE  /\ kept.exists => nb[n].exists
         /\ kept.rv \in Nat /\ nb[n].rv <= kept.rv
         /\ ok => Accepts(nb[n], copy) /\ kept = Stored(nb[n], copy)
<1>1. nb[n] \in NotebookObject /\ nb[n].rv \in Nat
  BY ServedFacts
<1>2. /\ Stored(nb[n], copy) \in NotebookObject
      /\ Stored(nb[n], copy) = nb[n] \/ nb[n].rv < Stored(nb[n], copy).rv
  BY <1>1, NotebookTypes
<1>3. Stored(nb[n], copy).rv \in Nat /\ nb[n].rv <= Stored(nb[n], copy).rv
  BY <1>1, <1>2 DEF NotebookObject
<1>4. nb[n].rv <= nb[n].rv
  BY <1>1
<1> HIDE DEF Stored
<1> QED BY <1>1, <1>3, <1>4 DEF Call, Accepts

\* A job that goes on from a call that may have written the notebook and the service.
LEMMA GoesOn ==
  ASSUME SInv, IInv', GoneStays, NEW n \in Notebooks, NEW pc, NEW failed,
         UNCHANGED <<sset, claim, pod, caches, queue>>,
         job[n].pc \notin {"idle", "claims"}, JobBecomes(n, pc, failed),
         pc \in {"service", "type", "status", "claims"},
         nb'[n].exists => nb[n].exists, nb'[n].rv \in Nat, nb[n].rv <= nb'[n].rv,
         service[n].exists => service'[n].exists,
         \A m \in Notebooks \ {n} : nb'[m] = nb[m] /\ service'[m] = service[m],
         \/ pc = "service"
         \/ pc = "claims" /\ failed
         \/ nb[n].exists => service'[n].exists,
         (pc = "claims" /\ ~failed) => Shown(n)'
  PROVE  SInv'
<1>1. \A m \in Notebooks \ {n} : Untouched(m)
  BY DEF Untouched, caches, JobBecomes
<1>2. /\ Lasting(n) /\ Working(n) /\ nb[n].rv # 0 /\ nb[n].rv \in Nat
      /\ job[n].pc \in {"spec", "service", "type", "status"}
      /\ job[n].obj.size \in Nat
  BY ServedFacts DEF Job, NotebookObject
<1>3. nb'[n].rv # 0
  BY <1>2
<1>4. Lasting(n)'
  BY <1>2, <1>3 DEF Lasting, caches, JobBecomes
<1>5. Working(n)'
  <2>1. VolumesMade(claim', NamedByGone', n, 1, job[n].obj.size)
    BY VolumeClaim DEF VolumesMade
  <2> QED BY <1>2, <2>1 DEF Working, caches, JobBecomes
<1>6. Rested(n)'
  BY DEF Rested, JobBecomes
<1>7. Shown(n)'
  <2>1. CASE pc = "claims" /\ ~failed
    BY <2>1
  <2>2. CASE ~(pc = "claims" /\ ~failed)
    BY <2>2 DEF Shown, JobBecomes
  <2> QED BY <2>1, <2>2
<1> QED BY <1>1, <1>4, <1>5, <1>6, <1>7, ServedBut DEF Served, caches

LEMMA SyncTemplateServed ==
  ASSUME SInv, IInv', GoneStays, NEW n \in Notebooks, SyncTemplateSpec(n)
  PROVE  SInv'
<1> DEFINE copy == SpecCopy(n)
           new == Stored(nb[n], copy)
<1>1. PICK ok \in BOOLEAN, kept \in {nb[n], new} :
        /\ Call(nb[n], new, Accepts(nb[n], copy), kept, ok)
        /\ nb' = [nb EXCEPT ![n] = kept]
        /\ IF ok THEN Goto(n, "service") ELSE Return(n, FALSE)
  BY DEF SyncTemplateSpec
<1>2. copy \in NotebookObject
  BY SpecCopyType DEF SInv
<1> HIDE DEF copy
<1>3. (kept.exists => nb[n].exists) /\ kept.rv \in Nat /\ nb[n].rv <= kept.rv
  BY <1>1, <1>2, CallWrites
<1>4. nb'[n] = kept /\ \A m \in Notebooks \ {n} : nb'[m] = nb[m]
  BY <1>1 DEF SInv, IInv, TypeOK
<1>5. job[n].pc = "spec" /\ UNCHANGED <<sset, service, claim, pod, caches, queue>>
  BY DEF SyncTemplateSpec
<1>6. CASE ok
  <2>1. JobBecomes(n, "service", job[n].failed)
    BY <1>1, <1>6, GotoBecomes
  <2> QED BY <1>3, <1>4, <1>5, <2>1, GoesOn
<1>7. CASE ~ok
  <2>1. JobBecomes(n, "claims", TRUE)
    BY <1>1, <1>7, ReturnBecomes
  <2> QED BY <1>3, <1>4, <1>5, <2>1, GoesOn
<1> QED BY <1>6, <1>7

\* The service of a notebook, after a call for it was answered.
LEMMA GenerateServed ==
  ASSUME SInv, IInv', GoneStays, NEW n \in Notebooks, GenerateService(n)
  PROVE  SInv'
<1> DEFINE old == service[n]
           type == DefaultType(job[n].obj.type)
           exists == svccache[n].exists
           copy == [svccache[n] EXCEPT !.type = type]
           made == [NoService EXCEPT !.exists = TRUE, !.type = type]
           new == IF exists THEN Stored(old, copy) ELSE Changed(old, made)
           after == IF exists \/ type = job[n].obj.type THEN "status" ELSE "type"
<1>1. /\ job[n].pc = "service" /\ UNCHANGED <<nb, sset, claim, pod, caches, queue>>
      /\ \/ exists /\ Goto(n, "status") /\ UNCHANGED service
         \/ \E ok \in BOOLEAN, kept \in {old, new} :
              /\ ok => kept = new
              /\ service' = [service EXCEPT ![n] = kept]
              /\ IF ok THEN Goto(n, after) ELSE Return(n, FALSE)
  BY DEF GenerateService, Call
<1>2. new.exists
  <2>1. svccache[n] \in ServiceObject
    BY DEF SInv, IInv, TypeOK
  <2>2. CASE exists
    <3>1. copy.exists /\ [copy EXCEPT !.rv = old.rv + 1].exists = copy.exists
      BY <2>1, <2>2 DEF ServiceObject
    <3> HIDE DEF copy
    <3> QED BY <2>2, <3>1 DEF Stored
  <2>3. CASE ~exists
    <3>1. made.exists /\ [made EXCEPT !.rv = old.rv + 1].exists = made.exists
      BY DEF NoService
    <3> HIDE DEF made
    <3> QED BY <2>3, <3>1 DEF Changed
  <2> QED BY <2>2, <2>3
<1>3. /\ nb[n].rv \in Nat /\ nb[n].rv <= nb[n].rv /\ Lasting(n)
  BY ServedFacts
<1>4. after \in {"type", "status"}
  OBVIOUS
<1>5. CASE exists /\ Goto(n, "status") /\ UNCHANGED service
  <2>1. nb[n].exists => service'[n].exists
    BY <1>3, <1>5 DEF Lasting
  <2>2. JobBecomes(n, "status", job[n].failed)
    BY <1>5, GotoBecomes
  <2> HIDE DEF new, after, exists
  <2> QED BY <1>1, <1>3, <1>5, <2>1, <2>2, GoesOn
<1> HIDE DEF new, after, exists
<1>6. ASSUME NEW ok \in BOOLEAN, NEW kept \in {old, new}, ok => kept = new,
             service' = [service EXCEPT ![n] = kept],
             IF ok THEN Goto(n, after) ELSE Return(n, FALSE)
      PROVE  SInv'
  <2>1. service'[n] = kept /\ \A m \in Notebooks \ {n} : service'[m] = service[m]
    BY <1>6 DEF SInv, IInv, TypeOK
  <2>2. service[n].exists => service'[n].exists
    BY <1>2, <1>6, <2>1
  <2>3. CASE ok
    <3>1. JobBecomes(n, after, job[n].failed)
      BY <1>6, <2>3, GotoBecomes
    <3> QED BY <1>1, <1>2, <1>3, <1>4, <1>6, <2>1, <2>2, <2>3, <3>1, GoesOn
  <2>4. CASE ~ok
    <3>1. JobBecomes(n, "claims", TRUE)
      BY <1>6, <2>4, ReturnBecomes
    <3> QED BY <1>1, <1>3, <1>6, <2>1, <2>2, <3>1, GoesOn
  <2> QED BY <2>3, <2>4
<1> QED BY <1>1, <1>5, <1>6

LEMMA UpdateNewServed ==
  ASSUME SInv, IInv', GoneStays, NEW n \in Notebooks, UpdateNewService(n)
  PROVE  SInv'
<1> DEFINE old == service[n]
           copy == [old EXCEPT !.type = DefaultType(job[n].obj.type)]
           new == Stored(old, copy)
<1>1. PICK ok \in BOOLEAN, kept \in {old, new} :
        /\ ok => kept = new
        /\ ok => old.exists
        /\ service' = [service EXCEPT ![n] = kept]
        /\ IF ok THEN Goto(n, "status") ELSE Return(n, FALSE)
  BY DEF UpdateNewService, Call
<1>2. job[n].pc = "type" /\ UNCHANGED <<nb, sset, claim, pod, caches, queue>>
  BY DEF UpdateNewService
<1>3. new.exists = old.exists
  <2>1. copy.exists = old.exists
    BY DEF SInv, IInv, TypeOK, ServiceObject
  <2>2. [copy EXCEPT !.rv = old.rv + 1].exists = copy.exists
    BY DEF SInv, IInv, TypeOK, ServiceObject
  <2> HIDE DEF copy
  <2> QED BY <2>1, <2>2 DEF Stored
<1> HIDE DEF new
<1>4. service'[n] = kept /\ \A m \in Notebooks \ {n} : service'[m] = service[m]
  BY <1>1 DEF SInv, IInv, TypeOK
<1>5. service[n].exists => service'[n].exists
  BY <1>1, <1>3, <1>4
<1>6. nb[n].rv \in Nat /\ nb[n].rv <= nb[n].rv
  BY ServedFacts
<1>7. CASE ok
  <2>1. JobBecomes(n, "status", job[n].failed)
    BY <1>1, <1>7, GotoBecomes
  <2> QED BY <1>1, <1>2, <1>3, <1>4, <1>5, <1>6, <1>7, <2>1, GoesOn
<1>8. CASE ~ok
  <2>1. JobBecomes(n, "claims", TRUE)
    BY <1>1, <1>8, ReturnBecomes
  <2> QED BY <1>2, <1>4, <1>5, <1>6, <2>1, GoesOn
<1> QED BY <1>7, <1>8

\* The status is as it should be, or written, or the key is queued again.
LEMMA UpdateStatusServed ==
  ASSUME SInv, IInv', GoneStays, NEW n \in Notebooks, UpdateNotebookStatus(n)
  PROVE  SInv'
<1> DEFINE copy == StatusCopy(n)
           new == Stored(nb[n], copy)
<1>1. /\ job[n].pc = "status" /\ UNCHANGED <<sset, service, claim, pod, caches, queue>>
      /\ \/ /\ podcache[n].at = 0 \/ copy = job[n].obj
            /\ UNCHANGED nb /\ Return(n, TRUE)
         \/ \E ok \in BOOLEAN, kept \in {nb[n], new} :
              /\ copy # job[n].obj
              /\ Call(nb[n], new, Accepts(nb[n], copy), kept, ok)
              /\ nb' = [nb EXCEPT ![n] = kept]
              /\ Return(n, ok)
  BY DEF UpdateNotebookStatus, StatusOutcome, StatusCopy
<1>2. /\ copy \in NotebookObject /\ copy.rv = job[n].obj.rv
      /\ nb[n].rv \in Nat /\ nb[n].rv <= nb[n].rv /\ nb[n] \in NotebookObject
      /\ Working(n) /\ NotebookSafe(n) /\ nbcache[n].rv \in Nat /\ Lasting(n)
  BY StatusCopyType, ServedFacts DEF SInv
<1>3. nb[n].exists => service[n].exists
  BY <1>1, <1>2 DEF Lasting
<1>4. CASE (podcache[n].at = 0 \/ copy = job[n].obj) /\ UNCHANGED nb /\ Return(n, TRUE)
  <2>1. JobBecomes(n, "claims", FALSE)
    BY <1>4, ReturnBecomes
  <2>2. Shown(n)'
    <3>1. CASE podcache[n].at = 0
      BY <1>1, <3>1 DEF Shown, caches
    <3>2. CASE podcache[n].at # 0 /\ copy = job[n].obj
      <4>1. copy.state = ContainerState(podcache[n])
        BY <3>2, ServedFacts DEF StatusCopy, NotebookObject
      <4>2. n \notin queue => job[n].obj = nbcache[n]
        BY <1>1, <1>2 DEF Working
      <4> QED BY <1>1, <3>2, <4>1, <4>2 DEF Shown, caches
    <3> QED BY <1>4, <3>1, <3>2
  <2> HIDE DEF copy
  <2> QED BY <1>1, <1>2, <1>3, <1>4, <2>1, <2>2, GoesOn
<1> HIDE DEF copy
<1>5. ASSUME NEW ok \in BOOLEAN, NEW kept \in {nb[n], new}, copy # job[n].obj,
             Call(nb[n], new, Accepts(nb[n], copy), kept, ok),
             nb' = [nb EXCEPT ![n] = kept], Return(n, ok)
      PROVE  SInv'
  <2>1. /\ kept.exists => nb[n].exists
        /\ kept.rv \in Nat /\ nb[n].rv <= kept.rv
        /\ ok => Accepts(nb[n], copy) /\ kept = new
    BY <1>2, <1>5, CallWrites
  <2>2. nb'[n] = kept /\ \A m \in Notebooks \ {n} : nb'[m] = nb[m]
    BY <1>5 DEF SInv, IInv, TypeOK
  <2>3. JobBecomes(n, "claims", ~ok)
    BY <1>5, ReturnBecomes
  <2>4. CASE ok
    <3>1. job[n].obj = nb[n]
      BY <1>1, <1>2, <2>1, <2>4 DEF Accepts, NotebookSafe, Older
    <3>2. new.rv = nb[n].rv + 1
      BY <1>2, <1>5, <3>1 DEF Stored, NotebookObject
    <3>3. nbcache'[n].rv # nb'[n].rv
      BY <1>1, <1>2, <2>1, <2>2, <2>4, <3>2 DEF NotebookSafe, Older, caches
    <3>4. Shown(n)'
      BY <3>3 DEF Shown
    <3> QED BY <1>1, <1>2, <1>3, <2>1, <2>2, <2>3, <2>4, <3>4, GoesOn
  <2>5. CASE ~ok
    <3> HIDE DEF new
    <3> QED BY <1>1, <1>2, <1>3, <2>1, <2>2, <2>3, <2>5, GoesOn
  <2> QED BY <2>4, <2>5
<1> QED BY <1>1, <1>4, <1>5

LEMMA ClaimChanged ==
  ASSUME SInv, GoneStays, NEW c \in Claims, NEW new \in ClaimObject(Notebooks), new.exists,
         claim[c].size <= new.size, ClaimSafe(new, claimcache[c]),
         NEW n \in Notebooks, new.owners \subseteq claim[c].owners \cup {n},
         \E i \in DOMAIN VolumesOf[n] : c = VolumesOf[n][i],
         claim' = [claim EXCEPT ![c] = new], UNCHANGED claimcache
  PROVE  ClaimsGrow /\ \A d \in Claims : Claimed(d)'
<1>1. claim'[c] = new /\ \A d \in Claims \ {c} : claim'[d] = claim[d]
  BY DEF SInv, IInv, TypeOK
<1>2. \A d \in Claims : claim[d].size \in Nat /\ claimcache[d].size \in Nat /\ Claimed(d)
  BY DEF SInv, IInv, TypeOK, ClaimObject
<1>3. new.size \in Nat
  BY DEF ClaimObject
<1>4. ClaimsGrow
  BY <1>1, <1>2, <1>3 DEF ClaimsGrow, ClaimKept, GoneStays
<1>5. Claimed(c)'
  <2>1. claimcache[c].exists => ClaimKept(claim', NamedByGone', c, claimcache[c].size)
    BY <1>1, <1>2, <1>3 DEF Claimed, ClaimKept, GoneStays
  <2>2. \A m \in claim'[c].owners : \E i \in DOMAIN VolumesOf[m] : c = VolumesOf[m][i]
    BY <1>1, <1>2 DEF Claimed
  <2> QED BY <1>1, <2>1, <2>2 DEF Claimed
<1>6. ASSUME NEW d \in Claims \ {c}
      PROVE  Claimed(d)'
  BY <1>1, <1>2 DEF Claimed, ClaimSafe, ClaimKept, GoneStays
<1> QED BY <1>4, <1>5, <1>6

LEMMA ClaimsServed ==
  ASSUME SInv, IInv', GoneStays, NEW n \in Notebooks, CreateNoteBookPVC(n)
  PROVE  SInv'
<1> DEFINE k == job[n].next
           c == VolumesOf[n][k]
           size == job[n].obj.size
           new == ClaimStored(claim[c], claimcache[c], size, n)
           next == job' = [job EXCEPT ![n].next = @ + 1] /\ UNCHANGED queue
           end(failed) == /\ job' = [job EXCEPT ![n] = Idle]
                          /\ queue' = IF failed THEN queue \cup {n} ELSE queue
<1>1. /\ job[n].pc = "claims" /\ UNCHANGED <<nb, sset, service, pod, caches>>
      /\ \/ k \notin DOMAIN VolumesOf[n] /\ end(job[n].failed) /\ UNCHANGED claim
         \/ /\ k \in DOMAIN VolumesOf[n] /\ Satisfied(claimcache[c], size)
            /\ next /\ UNCHANGED claim
         \/ /\ k \in DOMAIN VolumesOf[n] /\ ~Satisfied(claimcache[c], size)
            /\ \E ok \in BOOLEAN, kept \in {claim[c], new} :
                 /\ Call(claim[c], new, ClaimAccepted(claim[c], claimcache[c]), kept, ok)
                 /\ claim' = [claim EXCEPT ![c] = kept]
                 /\ IF ok THEN next ELSE end(TRUE)
  BY DEF CreateNoteBookPVC
<1>2. /\ Lasting(n) /\ Working(n) /\ Shown(n) /\ size \in Nat /\ k \in Nat /\ k # 0
      /\ job[n] \in Job
  BY ServedFacts DEF Job, NotebookObject, Working
<1>3. k \in DOMAIN VolumesOf[n] =>
        /\ c \in Claims /\ claim[c] \in ClaimObject(Notebooks) /\ claimcache[c] \in ClaimObject(Notebooks)
        /\ claim[c].size \in Nat /\ claimcache[c].size \in Nat /\ Claimed(c)
        /\ new \in ClaimObject(Notebooks)
  <2> SUFFICES ASSUME k \in DOMAIN VolumesOf[n]
               PROVE  /\ c \in Claims /\ claim[c] \in ClaimObject(Notebooks)
                      /\ claimcache[c] \in ClaimObject(Notebooks)
                      /\ claim[c].size \in Nat /\ claimcache[c].size \in Nat /\ Claimed(c)
                      /\ new \in ClaimObject(Notebooks)
    OBVIOUS
  <2>1. c \in Claims
    BY VolumeClaim
  <2> HIDE DEF c
  <2>2. claim[c] \in ClaimObject(Notebooks) /\ claimcache[c] \in ClaimObject(Notebooks) /\ Claimed(c)
    BY <2>1 DEF SInv, IInv, TypeOK
  <2>3. new \in ClaimObject(Notebooks)
    BY <1>2, <2>2, StoredClaim
  <2> HIDE DEF new
  <2> QED BY <2>1, <2>2, <2>3 DEF ClaimObject
<1>4. ASSUME end(TRUE) \/ end(FALSE)
      PROVE  /\ job'[n].pc = "idle" /\ job'[n].next = 1
             /\ \A m \in Notebooks \ {n} : job'[m] = job[m] /\ (m \in queue' <=> m \in queue)
  BY <1>4, Records DEF Idle, SInv, IInv, TypeOK
<1>5. ASSUME next
      PROVE  /\ job'[n].pc = "claims" /\ job'[n].next = k + 1
             /\ job'[n].obj = job[n].obj /\ job'[n].failed = job[n].failed
             /\ \A m \in Notebooks \ {n} : job'[m] = job[m]
             /\ queue' = queue
  BY <1>1, <1>2, <1>5 DEF SInv, IInv, TypeOK, Job
<1>6. ASSUME ClaimsGrow, \A d \in Claims : Claimed(d)',
             \A m \in Notebooks \ {n} : job'[m] = job[m] /\ (m \in queue' <=> m \in queue),
             Served(n)'
      PROVE  SInv'
  <2>1. \A m \in Notebooks \ {n} : Untouched(m)
    BY <1>1, <1>6 DEF Untouched, caches
  <2> QED BY <1>6, <2>1, UntouchedServed DEF SInv
<1>7. ASSUME ClaimsGrow, \A d \in Claims : Claimed(d)', end(TRUE)
      PROVE  SInv'
  <2>1. /\ job'[n].pc = "idle" /\ job'[n].next = 1 /\ n \in queue'
        /\ \A m \in Notebooks \ {n} : job'[m] = job[m] /\ (m \in queue' <=> m \in queue)
    BY <1>4, <1>7
  <2>2. Lasting(n)'
    BY <1>1, <1>2, <2>1 DEF Lasting, caches
  <2>3. Working(n)' /\ Rested(n)' /\ Shown(n)'
    BY <2>1 DEF Working, Rested, Shown
  <2> QED BY <1>6, <1>7, <2>1, <2>2, <2>3 DEF Served
<1>8. ASSUME ClaimsGrow, \A d \in Claims : Claimed(d)', next, k \in DOMAIN VolumesOf[n],
             ClaimKept(claim', NamedByGone', c, size)
      PROVE  SInv'
  <2>1. /\ job'[n].pc = "claims" /\ job'[n].next = k + 1
        /\ job'[n].obj = job[n].obj /\ job'[n].failed = job[n].failed
        /\ \A m \in Notebooks \ {n} : job'[m] = job[m] /\ (m \in queue' <=> m \in queue)
        /\ queue' = queue
    BY <1>5, <1>8
  <2>2. VolumesMade(claim', NamedByGone', n, k + 1, size)
    <3>1. VolumesMade(claim', NamedByGone', n, k, size)
      <4> HIDE DEF k, size
      <4> QED BY <1>1, <1>2, <1>8, VolumesStayMade DEF Working, k, size
    <3>2. ASSUME NEW i \in DOMAIN VolumesOf[n], i < k + 1
          PROVE  i < k \/ i = k
      BY <1>2, <3>2, VolumeClaim
    <3> QED BY <1>8, <3>1, <3>2 DEF VolumesMade, c
  <2>3. Lasting(n)'
    BY <1>1, <1>2, <2>1 DEF Lasting, caches
  <2>4. Working(n)'
    <3>1. job'[n].next # 0
      BY <1>2, <2>1
    <3> HIDE DEF k, size
    <3>2. VolumesMade(claim', NamedByGone', n, job'[n].next, job'[n].obj.size)
      BY <2>1, <2>2 DEF size
    <3> QED BY <1>1, <1>2, <2>1, <3>1, <3>2 DEF Working, caches
  <2>5. Rested(n)' /\ Shown(n)'
    BY <1>1, <1>2, <2>1 DEF Rested, Shown, caches
  <2> QED BY <1>6, <1>8, <2>1, <2>3, <2>4, <2>5 DEF Served
<1>9. CASE k \notin DOMAIN VolumesOf[n] /\ end(job[n].failed) /\ UNCHANGED claim
  <2>1. CASE job[n].failed
    BY <1>1, <1>7, <1>9, <2>1, ClaimsUnchanged DEF caches
  <2>2. CASE ~job[n].failed
    <3>1. /\ job'[n].pc = "idle" /\ job'[n].next = 1 /\ queue' = queue
          /\ \A m \in Notebooks \ {n} : job'[m] = job[m] /\ (m \in queue' <=> m \in queue)
      BY <1>4, <1>9, <2>2
    <3>2. VolumesMade(claim', NamedByGone', n, Len(VolumesOf[n]) + 1, size)
      <4>1. VolumesMade(claim, NamedByGone, n, k, size)
        BY <1>1, <1>2 DEF Working
      <4>2. \A i \in DOMAIN VolumesOf[n] : i < k
        BY <1>2, <1>9, VolumeClaim
      <4> QED BY <1>9, <4>1, <4>2 DEF VolumesMade, ClaimKept, GoneStays
    <3>3. Lasting(n)'
      BY <1>1, <1>2, <3>1 DEF Lasting, caches
    <3>4. Working(n)'
      BY <3>1 DEF Working
    <3>5. Rested(n)'
      <4>1. n \notin queue => job[n].obj = nbcache[n]
        BY <1>1, <1>2 DEF Working
      <4>2. nb[n].exists => sset[n].exists /\ service[n].exists
        BY <1>1, <1>2, <2>2 DEF Lasting
      <4> QED BY <1>1, <3>1, <3>2, <4>1, <4>2 DEF Rested, caches
    <3>6. Shown(n)'
      BY <1>1, <1>2, <2>2, <3>1 DEF Shown, caches
    <3>7. ClaimsGrow /\ \A d \in Claims : Claimed(d)'
      BY <1>1, <1>9, ClaimsUnchanged DEF caches
    <3> QED BY <1>6, <3>1, <3>3, <3>4, <3>5, <3>6, <3>7 DEF Served
  <2> QED BY <2>1, <2>2
<1>10. CASE /\ k \in DOMAIN VolumesOf[n] /\ Satisfied(claimcache[c], size)
            /\ next /\ UNCHANGED claim
  <2>1. ClaimKept(claim', NamedByGone', c, size)
    <3> HIDE DEF c, size
    <3> QED BY <1>2, <1>3, <1>10 DEF Claimed, Satisfied, ClaimKept, GoneStays
  <2> QED BY <1>1, <1>8, <1>10, <2>1, ClaimsUnchanged DEF caches
<1>11. ASSUME k \in DOMAIN VolumesOf[n], ~Satisfied(claimcache[c], size),
              NEW ok \in BOOLEAN, NEW kept \in {claim[c], new},
              Call(claim[c], new, ClaimAccepted(claim[c], claimcache[c]), kept, ok),
              claim' = [claim EXCEPT ![c] = kept],
              IF ok THEN next ELSE end(TRUE)
       PROVE  SInv'
  <2>1. \/ kept = claim[c] /\ ~ok
        \/ kept = new /\ ClaimAccepted(claim[c], claimcache[c])
    BY <1>11 DEF Call
  <2>2. CASE kept = claim[c] /\ ~ok
    <3>1. UNCHANGED claim
      BY <1>11, <2>2 DEF SInv, IInv, TypeOK
    <3> QED BY <1>1, <1>7, <1>11, <2>2, <3>1, ClaimsUnchanged DEF caches
  <2>3. CASE kept = new /\ ClaimAccepted(claim[c], claimcache[c])
    <3>1. /\ ClaimSafe(new, claimcache[c]) /\ claim[c].size <= new.size
          /\ new.exists /\ new.size = size /\ new.owners \subseteq claim[c].owners \cup {n}
      <4> HIDE DEF c, size
      <4> QED BY <1>2, <1>3, <1>11, <2>3, AcceptedClaim, StoredClaim DEF Claimed
    <3>0. \E i \in DOMAIN VolumesOf[n] : c = VolumesOf[n][i]
      BY <1>11
    <3> HIDE DEF new
    <3>2. ClaimsGrow /\ \A d \in Claims : Claimed(d)'
      <4> HIDE DEF c
      <4> QED BY <1>1, <1>3, <1>11, <2>3, <3>0, <3>1, ClaimChanged DEF caches
    <3>3. claim'[c] = new
      <4> HIDE DEF c
      <4> QED BY <1>3, <1>11, <2>3 DEF SInv, IInv, TypeOK
    <3>4. ClaimKept(claim', NamedByGone', c, size)
      <4> HIDE DEF c, size
      <4> QED BY <1>2, <3>1, <3>3 DEF ClaimKept
    <3> QED BY <1>7, <1>8, <1>11, <3>2, <3>4
  <2> QED BY <2>1, <2>2, <2>3
<1> QED BY <1>1, <1>9, <1>10, <1>11

\* A new leader queues every notebook there is.
LEMMA RestartServed ==
  ASSUME SInv, IInv', GoneStays, Restart
  PROVE  SInv'
<1>1. /\ UNCHANGED stores /\ nbcache' = nb /\ sscache' = sset /\ svccache' = service
      /\ claimcache' = claim /\ \A n \in Notebooks : job'[n] = Idle
      /\ \A n \in Notebooks : nb[n].exists => n \in queue'
  BY DEF Restart
<1>2. ASSUME NEW n \in Notebooks
      PROVE  Served(n)'
  <2>1. Lasting(n)
    BY ServedFacts
  <2>2. job'[n].pc = "idle" /\ job'[n].next = 1
    BY <1>1 DEF Idle
  <2>3. Lasting(n)'
    BY <1>1, <2>1, <2>2 DEF Lasting, stores
  <2>4. Working(n)' /\ Rested(n)' /\ Shown(n)'
    BY <1>1, <2>2 DEF Working, Rested, Shown
  <2> QED BY <2>3, <2>4 DEF Served
<1>3. ASSUME NEW c \in Claims
      PROVE  Claimed(c)'
  <2>1. claim[c].rv \in Nat /\ claim[c].size \in Nat /\ Claimed(c)
    BY DEF SInv, IInv, TypeOK, ClaimObject
  <2> QED BY <1>1, <2>1 DEF Claimed, ClaimSafe, ClaimKept, stores
<1> QED BY <1>2, <1>3 DEF SInv

LEMMA ServedInitially == Init => SInv
<1> SUFFICES ASSUME Init PROVE SInv
  OBVIOUS
<1>1. IInv
  BY Initially
<1>2. ASSUME NEW n \in Notebooks
      PROVE  Served(n)
  <2>1. /\ ~nb[n].exists /\ nbcache = nb /\ sscache = sset /\ svccache = service
        /\ ~sset[n].exists /\ ~service[n].exists
        /\ job[n].pc = "idle" /\ job[n].next = 1
    BY DEF Init, NoNotebook, NoStatefulSet, NoService, Idle
  <2> QED BY <2>1 DEF Served, Lasting, Working, Rested, Shown
<1>3. ASSUME NEW c \in Claims
      PROVE  Claimed(c)
  <2>1. claim[c].rv \in Nat /\ claim[c] = NoClaim /\ claimcache = claim
    BY <1>1 DEF Init, IInv, TypeOK, ClaimObject
  <2> QED BY <2>1, NoClaimType DEF Claimed, ClaimSafe
<1> QED BY <1>1, <1>2, <1>3 DEF SInv

LEMMA ServedStep == SInv /\ [Next]_vars => SInv'
<1> SUFFICES ASSUME SInv, [Next]_vars PROVE SInv'
  OBVIOUS
<1>0. IInv' /\ GoneStays
  BY Step, GoneStay DEF SInv
<1>1. ASSUME NEW n \in Notebooks, NEW type \in Types, CreateNotebook(n, type)
      PROVE  SInv'
  BY <1>0, <1>1, CreateServed
<1>2. ASSUME NEW n \in Notebooks,
             \/ EditNotebook(n) \/ DeleteNotebook(n) \/ ReportPod(n) \/ ReplacePod(n)
             \/ ReportReady(n) \/ Collect(n)
      PROVE  SInv'
  BY <1>0, <1>2, UsersServed, PodsServed, CollectServed
<1>3. ASSUME NEW n \in Notebooks, Informer(n) \/ OnChanged(n)
      PROVE  SInv'
  BY <1>0, <1>3, InformersServed, OnChangedServed
<1>4. ASSUME NEW n \in Notebooks, NotebookStep(n)
      PROVE  SInv'
  BY <1>0, <1>4, SyncTemplateServed, GenerateServed, UpdateNewServed, UpdateStatusServed,
     ClaimsServed DEF NotebookStep
<1>5. ASSUME NEW c \in Claims, CollectClaim(c) \/ SyncClaim(c)
      PROVE  SInv'
  BY <1>0, <1>5, CollectClaimServed, SyncClaimServed
<1>6. CASE Restart
  BY <1>0, <1>6, RestartServed
<1>7. CASE UNCHANGED vars
  <2>1. \A n \in Notebooks : Untouched(n)
    BY <1>7 DEF vars, stores, caches, Untouched
  <2>2. ClaimsGrow /\ \A c \in Claims : Claimed(c)'
    BY <1>0, <1>7, ClaimsUnchanged DEF vars, stores, caches
  <2> QED BY <1>0, <2>1, <2>2, UntouchedServed DEF SInv
<1> QED BY <1>1, <1>2, <1>3, <1>4, <1>5, <1>6, <1>7 DEF Next

LEMMA ServedInductive == Spec => []SInv
BY ServedInitially, ServedStep, PTL DEF Spec

\* When OnChanged and createNoteBookPVC have nothing left to do, every notebook has its
\* stateful set, its service and its claims, whichever of their calls failed before.
\* Notebooks may share a claim; it is the first one's, and once a notebook that named it is
\* removed nothing is said of it.
THEOREM NotebooksAreServed == Spec => []NotebookServed
<1>1. SInv => NotebookServed
  <2> SUFFICES ASSUME SInv, AtRest, NEW n \in Notebooks, nb[n].exists
               PROVE  /\ sset[n].exists /\ service[n].exists
                      /\ \A i \in DOMAIN VolumesOf[n] :
                           ClaimKept(claim, NamedByGone, VolumesOf[n][i], nb[n].size)
    BY DEF NotebookServed, ClaimKept
  <2>1. nbcache[n] = nb[n] /\ job[n].pc = "idle" /\ n \notin queue
    BY DEF AtRest
  <2>2. /\ sset[n].exists /\ service[n].exists
        /\ VolumesMade(claim, NamedByGone, n, Len(VolumesOf[n]) + 1, nb[n].size)
    BY <2>1, ServedFacts DEF Rested
  <2>3. \A i \in DOMAIN VolumesOf[n] : i < Len(VolumesOf[n]) + 1
    BY VolumeClaim
  <2> QED BY <2>2, <2>3 DEF VolumesMade
<1> QED BY <1>1, ServedInductive, PTL

\* When OnChanged has nothing left to do, a notebook shows the state of the container with
\* its name, or none when its pod has no such container, although the status is often sent
\* with an outdated resource version and refused.
THEOREM StatesAreShown == Spec => []StateShown
<1>1. SInv => StateShown
  <2> SUFFICES ASSUME SInv, AtRest, NEW n \in Notebooks, nb[n].exists, pod[n].at # 0
               PROVE  nb[n].state = ContainerState(pod[n])
    BY DEF StateShown
  <2>1. /\ nbcache[n] = nb[n] /\ podcache[n] = pod[n] /\ job[n].pc = "idle"
        /\ n \notin queue
    BY DEF AtRest
  <2> QED BY <2>1, ServedFacts DEF Shown
<1> QED BY <1>1, ServedInductive, PTL
==============================================================================
