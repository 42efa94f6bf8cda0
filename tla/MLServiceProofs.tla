--------------------------- MODULE MLServiceProofs ---------------------------
(***************************************************************************)
(* Theorems about MLService, for any services, namespaces, specs, workers  *)
(* and disturbances.                                                       *)
(*                                                                         *)
(* The invariant (Safe) ties together what the two handlers read of one    *)
(* service: the service, its cached copy, its RayService with the cached   *)
(* copy of that, and the job.  Of the spec of a RayService it says         *)
(* nothing: what that mounts is the matter of a second invariant, Mounts,  *)
(* what a further update changes in it that of a third, Whole, and which   *)
(* spec of the service it serves that of a fourth, Runs.  What a service   *)
(* shows of the status is the last, Shows.                                 *)
(***************************************************************************)
EXTENDS MLService, FiniteSetTheorems, WellFoundedInduction, TLAPS

\* A service that was deleted; its name is not used again.
Gone(v) == ~v.exists /\ v.rv # 0

\* A copy of a service is no newer, and one of the same version has the same status.
Older(copy, v) == copy.rv <= v.rv /\ (copy.rv = v.rv => copy.status = v.status)

\* For the service v, its cached copy c, its RayService r, the cached copy k of that and
\* the job j: whoever says that the RayService was created is right until the service is
\* deleted, and the recorded status is one the cached RayService has gone past.
Safe(v, c, r, k, j) ==
  /\ Older(c, v) /\ Older(k, r)
  /\ j.pc # "idle" => Older(j.obj, v)
  /\ (v.exists \/ c.exists \/ r.exists \/ j.pc # "idle") => v.rv # 0
  /\ "true" \in {v.created, c.created, j.obj.created, j.cond} => r.exists \/ Gone(v)
  /\ Gone(v) \/ /\ v.status <= k.status /\ k.status <= r.status
                /\ r.exists \/ r.status = 0

ServiceSafe(s) == Safe(svc[s], scache[s], ray[s], raycache[s], job[s])

\* A RayService, whatever its spec.
IsRay(r) == r \in [exists : BOOLEAN, rv : Nat, spec : {r.spec}, status : Nat]

Types ==
  /\ svc \in [Services -> ServiceObject] /\ scache \in [Services -> ServiceObject]
  /\ job \in [Services -> Job]
  /\ ray = [s \in Services |-> ray[s]] /\ raycache = [s \in Services |-> raycache[s]]
  /\ \A s \in Services : IsRay(ray[s]) /\ IsRay(raycache[s])

IInv == Types /\ \A s \in Services : ServiceSafe(s)

-----------------------------------------------------------------------------
\* Records.

LEMMA ServiceTypes ==
  ASSUME NEW v \in ServiceObject
  PROVE  /\ v.rv \in Nat /\ v.status \in Nat /\ v.exists \in BOOLEAN
         /\ \A n \in Nat :
              LET new == [v EXCEPT !.rv = n]
              IN /\ new \in ServiceObject /\ new.rv = n /\ new.exists = v.exists
                 /\ new.created = v.created /\ new.status = v.status
         /\ \A cond \in Created :
              LET new == [v EXCEPT !.created = cond]
              IN /\ new \in ServiceObject /\ new.rv = v.rv /\ new.exists = v.exists
                 /\ new.created = cond /\ new.status = v.status
         /\ \A st \in Nat, ready \in {"unset", "true", "false"}, pending \in BOOLEAN :
              LET new == [v EXCEPT !.status = st, !.ready = ready, !.pending = pending]
              IN /\ new \in ServiceObject /\ new.rv = v.rv /\ new.exists = v.exists
                 /\ new.created = v.created /\ new.status = st
         /\ \A n \in Nat :
              LET new == [v EXCEPT !.exists = FALSE, !.rv = n]
              IN /\ new \in ServiceObject /\ new.rv = n /\ ~new.exists
                 /\ new.created = v.created /\ new.status = v.status
<1>1. v.rv \in Nat /\ v.status \in Nat /\ v.exists \in BOOLEAN
  BY DEF ServiceObject
<1>2. ASSUME NEW n \in Nat
      PROVE  LET new == [v EXCEPT !.rv = n]
             IN /\ new \in ServiceObject /\ new.rv = n /\ new.exists = v.exists
                /\ new.created = v.created /\ new.status = v.status
  BY DEF ServiceObject
<1>3. ASSUME NEW cond \in Created
      PROVE  LET new == [v EXCEPT !.created = cond]
             IN /\ new \in ServiceObject /\ new.rv = v.rv /\ new.exists = v.exists
                /\ new.created = cond /\ new.status = v.status
  BY DEF ServiceObject
<1>4. ASSUME NEW st \in Nat, NEW ready \in {"unset", "true", "false"}, NEW pending \in BOOLEAN
      PROVE  LET new == [v EXCEPT !.status = st, !.ready = ready, !.pending = pending]
             IN /\ new \in ServiceObject /\ new.rv = v.rv /\ new.exists = v.exists
                /\ new.created = v.created /\ new.status = st
  BY DEF ServiceObject
<1>5. ASSUME NEW n \in Nat
      PROVE  LET new == [v EXCEPT !.exists = FALSE, !.rv = n]
             IN /\ new \in ServiceObject /\ new.rv = n /\ ~new.exists
                /\ new.created = v.created /\ new.status = v.status
  BY DEF ServiceObject
<1>6. /\ \A n \in Nat :
           LET new == [v EXCEPT !.rv = n]
           IN /\ new \in ServiceObject /\ new.rv = n /\ new.exists = v.exists
              /\ new.created = v.created /\ new.status = v.status
      /\ \A n \in Nat :
           LET new == [v EXCEPT !.exists = FALSE, !.rv = n]
           IN /\ new \in ServiceObject /\ new.rv = n /\ ~new.exists
              /\ new.created = v.created /\ new.status = v.status
  BY <1>2, <1>5, Zenon
<1>7. \A cond \in Created :
        LET new == [v EXCEPT !.created = cond]
        IN /\ new \in ServiceObject /\ new.rv = v.rv /\ new.exists = v.exists
           /\ new.created = cond /\ new.status = v.status
  BY <1>3, Zenon
<1>8. \A st \in Nat, ready \in {"unset", "true", "false"}, pending \in BOOLEAN :
        LET new == [v EXCEPT !.status = st, !.ready = ready, !.pending = pending]
        IN /\ new \in ServiceObject /\ new.rv = v.rv /\ new.exists = v.exists
           /\ new.created = v.created /\ new.status = st
  BY <1>4, Zenon
<1> QED BY <1>1, <1>6, <1>7, <1>8, Zenon

LEMMA ServiceSpec ==
  ASSUME NEW v \in ServiceObject, NEW spec \in Specs
  PROVE  LET new == [v EXCEPT !.spec = spec]
         IN /\ new \in ServiceObject /\ new.rv = v.rv /\ new.exists = v.exists
            /\ new.created = v.created /\ new.status = v.status
BY DEF ServiceObject

LEMMA ServiceWrites ==
  ASSUME NEW v \in ServiceObject, NEW new \in ServiceObject
  PROVE  /\ LET w == Changed(v, new)
            IN /\ w \in ServiceObject /\ w.rv = v.rv + 1 /\ w.exists = new.exists
               /\ w.created = new.created /\ w.status = new.status
         /\ LET w == Removed(v)
            IN /\ w \in ServiceObject /\ w.rv = v.rv + 1 /\ ~w.exists
               /\ w.created = v.created /\ w.status = v.status
         /\ LET w == Stored(v, new)
            IN /\ w \in ServiceObject /\ w.exists = new.exists
               /\ w.created = new.created /\ w.status = new.status
               /\ w = v \/ w.rv = v.rv + 1
<1>1. v.rv + 1 \in Nat
  BY DEF ServiceObject
<1>2. LET w == [new EXCEPT !.rv = v.rv + 1]
      IN /\ w \in ServiceObject /\ w.rv = v.rv + 1 /\ w.exists = new.exists
         /\ w.created = new.created /\ w.status = new.status
  BY <1>1, ServiceTypes
<1>3. LET w == [v EXCEPT !.exists = FALSE, !.rv = v.rv + 1]
      IN /\ w \in ServiceObject /\ w.rv = v.rv + 1 /\ ~w.exists
         /\ w.created = v.created /\ w.status = v.status
  BY <1>1, ServiceTypes
<1> QED BY <1>2, <1>3 DEF Changed, Removed, Stored

LEMMA RayTypes ==
  ASSUME NEW r, IsRay(r)
  PROVE  /\ r.rv \in Nat /\ r.status \in Nat /\ r.exists \in BOOLEAN
         /\ \A n \in Nat :
              LET new == [r EXCEPT !.rv = n]
              IN IsRay(new) /\ new.rv = n /\ new.exists = r.exists /\ new.status = r.status
         /\ \A n \in Nat :
              LET new == [r EXCEPT !.status = n]
              IN IsRay(new) /\ new.rv = r.rv /\ new.exists = r.exists /\ new.status = n
         /\ \A spec :
              LET new == [r EXCEPT !.spec = spec]
              IN IsRay(new) /\ new.rv = r.rv /\ new.exists = r.exists /\ new.status = r.status
         /\ \A n \in Nat :
              LET new == [r EXCEPT !.exists = FALSE, !.rv = n]
              IN IsRay(new) /\ new.rv = n /\ ~new.exists /\ new.status = r.status
<1>1. r.rv \in Nat /\ r.status \in Nat /\ r.exists \in BOOLEAN
  BY DEF IsRay
<1>2. ASSUME NEW n \in Nat
      PROVE  LET new == [r EXCEPT !.rv = n]
             IN IsRay(new) /\ new.rv = n /\ new.exists = r.exists /\ new.status = r.status
  BY DEF IsRay
<1>3. ASSUME NEW n \in Nat
      PROVE  LET new == [r EXCEPT !.status = n]
             IN IsRay(new) /\ new.rv = r.rv /\ new.exists = r.exists /\ new.status = n
  BY DEF IsRay
<1>4. ASSUME NEW spec
      PROVE  LET new == [r EXCEPT !.spec = spec]
             IN IsRay(new) /\ new.rv = r.rv /\ new.exists = r.exists /\ new.status = r.status
  BY DEF IsRay
<1>5. ASSUME NEW n \in Nat
      PROVE  LET new == [r EXCEPT !.exists = FALSE, !.rv = n]
             IN IsRay(new) /\ new.rv = n /\ ~new.exists /\ new.status = r.status
  BY DEF IsRay
<1> QED BY <1>1, <1>2, <1>3, <1>4, <1>5

LEMMA RayStored ==
  ASSUME NEW r, IsRay(r), NEW new, IsRay(new)
  PROVE  LET w == Stored(r, new)
         IN /\ IsRay(w) /\ w.exists = new.exists /\ w.status = new.status
            /\ w = r \/ w.rv = r.rv + 1
<1>1. r.rv + 1 \in Nat
  BY DEF IsRay
<1>2. LET w == [new EXCEPT !.rv = r.rv + 1]
      IN IsRay(w) /\ w.rv = r.rv + 1 /\ w.exists = new.exists /\ w.status = new.status
  BY <1>1, RayTypes
<1> QED BY <1>2 DEF Stored, Changed

LEMMA RayWrites ==
  ASSUME NEW r, IsRay(r), NEW new, IsRay(new)
  PROVE  /\ LET w == Changed(r, new)
            IN IsRay(w) /\ w.rv = r.rv + 1 /\ w.exists = new.exists /\ w.status = new.status
         /\ LET w == Removed(r)
            IN IsRay(w) /\ w.rv = r.rv + 1 /\ ~w.exists /\ w.status = r.status
         /\ LET w == Stored(r, new)
            IN /\ IsRay(w) /\ w.exists = new.exists /\ w.status = new.status
               /\ w = r \/ w.rv = r.rv + 1
<1>1. r.rv + 1 \in Nat
  BY DEF IsRay
<1>2. LET w == [new EXCEPT !.rv = r.rv + 1]
      IN IsRay(w) /\ w.rv = r.rv + 1 /\ w.exists = new.exists /\ w.status = new.status
  BY <1>1, RayTypes
<1>3. LET w == [r EXCEPT !.exists = FALSE, !.rv = r.rv + 1]
      IN IsRay(w) /\ w.rv = r.rv + 1 /\ ~w.exists /\ w.status = r.status
  BY <1>1, RayTypes
<1> QED BY <1>2, <1>3 DEF Changed, Removed, Stored

LEMMA First ==
  /\ NoService \in ServiceObject /\ ~NoService.exists /\ NoService.rv = 0
  /\ NoService.status = 0 /\ NoService.created = "unset"
  /\ IsRay(NoRay) /\ ~NoRay.exists /\ NoRay.rv = 0 /\ NoRay.status = 0
  /\ Idle \in Job /\ Idle.pc = "idle" /\ Idle.obj = NoService /\ Idle.cond = "unset"
<1>1. /\ NoService \in ServiceObject /\ ~NoService.exists /\ NoService.rv = 0
      /\ NoService.status = 0 /\ NoService.created = "unset"
  BY DEF NoService, ServiceObject, Created
<1>2. IsRay(NoRay) /\ ~NoRay.exists /\ NoRay.rv = 0 /\ NoRay.status = 0
  BY DEF NoRay, IsRay
<1>3. Idle \in Job /\ Idle.pc = "idle" /\ Idle.obj = NoService /\ Idle.cond = "unset"
  BY <1>1 DEF Idle, Job, Created
<1> QED BY <1>1, <1>2, <1>3

LEMMA JobTypes ==
  ASSUME NEW j \in Job
  PROVE  /\ j.obj \in ServiceObject /\ j.cond \in Created
         /\ \A b \in BOOLEAN :
              LET k == [j EXCEPT !.shared = b]
              IN k \in Job /\ k.pc = j.pc /\ k.obj = j.obj /\ k.cond = j.cond
         /\ \A pc \in {"configMap", "secret", "rayService", "condition", "claims"} :
              LET k == [j EXCEPT !.pc = pc]
              IN k \in Job /\ k.pc = pc /\ k.obj = j.obj /\ k.cond = j.cond
         /\ \A cond \in Created :
              LET k == [j EXCEPT !.pc = "condition", !.cond = cond]
              IN k \in Job /\ k.pc = "condition" /\ k.obj = j.obj /\ k.cond = cond
         /\ \A b \in BOOLEAN :
              LET k == [j EXCEPT !.pc = "claims", !.failed = b]
              IN k \in Job /\ k.pc = "claims" /\ k.obj = j.obj /\ k.cond = j.cond
BY DEF Job
-----------------------------------------------------------------------------
\* A step that changes what belongs to one service.

LEMMA Same ==
  ASSUME IInv, NEW s \in Services
  PROVE  /\ svc = [svc EXCEPT ![s] = svc[s]] /\ scache = [scache EXCEPT ![s] = scache[s]]
         /\ ray = [ray EXCEPT ![s] = ray[s]] /\ raycache = [raycache EXCEPT ![s] = raycache[s]]
         /\ job = [job EXCEPT ![s] = job[s]]
<1>1. ray = [ray EXCEPT ![s] = ray[s]] /\ raycache = [raycache EXCEPT ![s] = raycache[s]]
  BY DEF IInv, Types
<1> QED BY <1>1 DEF IInv, Types

LEMMA Moved ==
  ASSUME IInv, NEW s \in Services,
         NEW v \in ServiceObject, NEW c \in ServiceObject, NEW r, IsRay(r), NEW k, IsRay(k),
         NEW j \in Job, Safe(v, c, r, k, j),
         svc' = [svc EXCEPT ![s] = v], scache' = [scache EXCEPT ![s] = c],
         ray' = [ray EXCEPT ![s] = r], raycache' = [raycache EXCEPT ![s] = k],
         job' = [job EXCEPT ![s] = j]
  PROVE  IInv'
<1>1. \A t \in Services :
        /\ svc'[t] = IF t = s THEN v ELSE svc[t]
        /\ scache'[t] = IF t = s THEN c ELSE scache[t]
        /\ job'[t] = IF t = s THEN j ELSE job[t]
  BY DEF IInv, Types
<1>2. \A t \in Services :
        /\ ray'[t] = IF t = s THEN r ELSE ray[t]
        /\ raycache'[t] = IF t = s THEN k ELSE raycache[t]
  BY DEF IInv, Types
<1>3. /\ svc' \in [Services -> ServiceObject] /\ scache' \in [Services -> ServiceObject]
      /\ job' \in [Services -> Job]
  BY DEF IInv, Types
<1>4. ray' = [t \in Services |-> ray'[t]] /\ raycache' = [t \in Services |-> raycache'[t]]
  BY DEF IInv, Types
<1>5. \A t \in Services : IsRay(ray'[t]) /\ IsRay(raycache'[t])
  BY <1>2 DEF IInv, Types
<1>6. Types'
  BY <1>3, <1>4, <1>5 DEF Types
<1>7. ASSUME NEW t \in Services
      PROVE  ServiceSafe(t)'
  BY <1>1, <1>2 DEF IInv, ServiceSafe
<1> QED BY <1>6, <1>7 DEF IInv

LEMMA Initially == Init => IInv
<1> SUFFICES ASSUME Init PROVE IInv
  OBVIOUS
<1>1. Types
  BY First DEF Init, Types
<1>2. ASSUME NEW s \in Services
      PROVE  ServiceSafe(s)
  <2>1. /\ svc[s] = NoService /\ scache[s] = NoService /\ ray[s] = NoRay
        /\ raycache[s] = NoRay /\ job[s] = Idle
    BY <1>2 DEF Init
  <2> QED BY <2>1, First DEF ServiceSafe, Safe, Older, Gone
<1> QED BY <1>1, <1>2 DEF IInv

-----------------------------------------------------------------------------
\* What keeps Safe.

LEMMA SafeTypes ==
  ASSUME NEW v \in ServiceObject, NEW r, IsRay(r)
  PROVE  v.rv \in Nat /\ v.status \in Nat /\ r.rv \in Nat /\ r.status \in Nat
BY ServiceTypes, RayTypes

\* The service is written by a user: its status is the old one, or is new.
LEMMA SafeUser ==
  ASSUME NEW v \in ServiceObject, NEW c \in ServiceObject, NEW r, IsRay(r), NEW k, IsRay(k),
         NEW j \in Job, Safe(v, c, r, k, j),
         NEW w \in ServiceObject, w.rv = v.rv + 1,
         \/ w.exists = v.exists /\ w.created = v.created /\ w.status = v.status
         \/ ~w.exists /\ w.created = v.created
         \/ v.rv = 0 /\ w.exists /\ w.created = "unset" /\ w.status = 0
  PROVE  Safe(w, c, r, k, j)
<1>1. /\ v.rv \in Nat /\ v.status \in Nat /\ r.rv \in Nat /\ r.status \in Nat
      /\ k.rv \in Nat /\ k.status \in Nat /\ c.rv \in Nat
      /\ j.obj \in ServiceObject /\ j.obj.rv \in Nat
  BY SafeTypes, JobTypes
<1>2. w.rv # 0 /\ (Gone(v) => ~w.exists \/ w.exists = v.exists)
  BY <1>1 DEF Gone
<1>3. Older(c, w) /\ (j.pc # "idle" => Older(j.obj, w))
  BY <1>1 DEF Older, Safe
<1>4. ~Gone(w) => ~Gone(v)
  BY <1>1, <1>2 DEF Gone
<1>5. Gone(v) => Gone(w)
  BY <1>1, <1>2 DEF Gone
<1>6. "true" \in {w.created, c.created, j.obj.created, j.cond} => r.exists \/ Gone(w)
  BY <1>5 DEF Safe
<1>7. Gone(w) \/ /\ w.status <= k.status /\ k.status <= r.status
                 /\ r.exists \/ r.status = 0
  BY <1>1, <1>4 DEF Safe, Gone
<1> QED BY <1>2, <1>3, <1>6, <1>7 DEF Safe

\* A copy that is written back is the service with a status as far as the cache.
LEMMA SafeWrite ==
  ASSUME NEW v \in ServiceObject, NEW c \in ServiceObject, NEW r, IsRay(r), NEW k, IsRay(k),
         NEW j \in Job, Safe(v, c, r, k, j), v.exists,
         NEW w \in ServiceObject, w.rv = v.rv + 1,
         v.status <= w.status, w.status <= k.status,
         w.created = "true" => r.exists
  PROVE  Safe(w, c, r, k, j)
<1>1. /\ v.rv \in Nat /\ v.status \in Nat /\ r.rv \in Nat /\ r.status \in Nat
      /\ k.rv \in Nat /\ k.status \in Nat /\ c.rv \in Nat
      /\ j.obj \in ServiceObject /\ j.obj.rv \in Nat
  BY SafeTypes, JobTypes
<1>2. w.rv # 0 /\ Older(c, w) /\ (j.pc # "idle" => Older(j.obj, w))
  BY <1>1 DEF Older, Safe
<1>3. "true" \in {w.created, c.created, j.obj.created, j.cond} => r.exists
  BY DEF Safe, Gone
<1>4. w.status <= k.status /\ k.status <= r.status /\ (r.exists \/ r.status = 0)
  BY DEF Safe, Gone
<1> QED BY <1>1, <1>2, <1>3, <1>4 DEF Safe

\* The RayService changes: a new status or spec, or it appears.
LEMMA SafeRay ==
  ASSUME NEW v \in ServiceObject, NEW c \in ServiceObject, NEW r, IsRay(r), NEW k, IsRay(k),
         NEW j \in Job, Safe(v, c, r, k, j), v.rv # 0,
         NEW w, IsRay(w), w.rv = r.rv + 1, w.exists,
         r.status <= w.status \/ ~r.exists
  PROVE  Safe(v, c, w, k, j)
<1>1. /\ v.rv \in Nat /\ v.status \in Nat /\ r.rv \in Nat /\ r.status \in Nat
      /\ k.rv \in Nat /\ k.status \in Nat /\ w.status \in Nat
  BY SafeTypes, RayTypes
<1>2. Older(k, w)
  BY <1>1 DEF Older, Safe
<1>3. Gone(v) \/ (v.status <= k.status /\ k.status <= w.status)
  BY <1>1 DEF Safe
<1> QED BY <1>2, <1>3 DEF Safe

LEMMA SafeCollected ==
  ASSUME NEW v \in ServiceObject, NEW c \in ServiceObject, NEW r, IsRay(r), NEW k, IsRay(k),
         NEW j \in Job, Safe(v, c, r, k, j), r.exists, ~v.exists,
         NEW w, IsRay(w), w.rv = r.rv + 1, ~w.exists
  PROVE  Safe(v, c, w, k, j)
<1>1. r.rv \in Nat /\ k.rv \in Nat
  BY RayTypes
<1>2. Gone(v) /\ Older(k, w)
  BY <1>1 DEF Safe, Gone, Older
<1> QED BY <1>2 DEF Safe

\* The cached copies become the objects.
LEMMA SafeCached ==
  ASSUME NEW v \in ServiceObject, NEW c \in ServiceObject, NEW r, IsRay(r), NEW k, IsRay(k),
         NEW j \in Job, Safe(v, c, r, k, j)
  PROVE  Safe(v, v, r, k, j) /\ Safe(v, c, r, r, j)
<1>1. /\ v.rv \in Nat /\ v.status \in Nat /\ r.rv \in Nat /\ r.status \in Nat
      /\ k.rv \in Nat /\ k.status \in Nat
  BY SafeTypes, RayTypes
<1>2. Older(v, v) /\ Older(r, r)
  BY <1>1 DEF Older
<1>3. Safe(v, v, r, k, j)
  BY <1>2 DEF Safe
<1>4. Safe(v, c, r, r, j)
  BY <1>1, <1>2 DEF Safe
<1> QED BY <1>3, <1>4

\* The job goes on, or takes up the cached copy.
LEMMA SafeJob ==
  ASSUME NEW v \in ServiceObject, NEW c \in ServiceObject, NEW r, IsRay(r), NEW k, IsRay(k),
         NEW j \in Job, Safe(v, c, r, k, j), NEW i \in Job,
         \/ i.pc = "idle" /\ i.obj.created = "unset"
         \/ i.obj = j.obj /\ (i.pc = "idle" <=> j.pc = "idle")
         \/ i.obj = c /\ c.exists,
         i.cond \in {"unset", j.cond} \/ i.cond # "true" \/ r.exists
  PROVE  Safe(v, c, r, k, i)
<1>1. i.pc # "idle" => Older(i.obj, v) /\ v.rv # 0
  BY DEF Safe
<1>2. i.cond = "true" => r.exists \/ Gone(v)
  BY DEF Safe
<1>3. i.obj.created = "true" => r.exists \/ Gone(v)
  BY DEF Safe
<1> QED BY <1>1, <1>2, <1>3 DEF Safe
-----------------------------------------------------------------------------
\* The steps.

\* What StatusNeverRegresses says of one step.
Kept == \A s \in Services : (svc[s].exists /\ svc'[s].exists) => svc[s].status <= svc'[s].status

LEMMA KeptSame ==
  ASSUME IInv, UNCHANGED svc
  PROVE  Kept
<1>1. \A s \in Services : svc[s].status \in Nat
  BY DEF IInv, Types, ServiceObject
<1> QED BY <1>1 DEF Kept

LEMMA KeptOne ==
  ASSUME IInv, NEW s \in Services, NEW w, svc' = [svc EXCEPT ![s] = w],
         (svc[s].exists /\ w.exists) => svc[s].status <= w.status
  PROVE  Kept
<1>1. \A t \in Services : svc'[t] = IF t = s THEN w ELSE svc[t]
  BY DEF IInv, Types
<1>2. \A t \in Services : svc[t].status <= svc[t].status
  BY DEF IInv, Types, ServiceObject
<1> QED BY <1>1, <1>2 DEF Kept

LEMMA Parts ==
  ASSUME IInv, NEW s \in Services
  PROVE  /\ svc[s] \in ServiceObject /\ scache[s] \in ServiceObject /\ IsRay(ray[s])
         /\ IsRay(raycache[s]) /\ job[s] \in Job
         /\ Safe(svc[s], scache[s], ray[s], raycache[s], job[s])
BY DEF IInv, Types, ServiceSafe

\* Moved for what a step changes of a service.
LEMMA MovedService ==
  ASSUME IInv, NEW s \in Services, UNCHANGED <<ray, raycache>>,
         NEW v \in ServiceObject, svc' = [svc EXCEPT ![s] = v],
         NEW c \in ServiceObject, scache' = [scache EXCEPT ![s] = c],
         NEW j \in Job, job' = [job EXCEPT ![s] = j],
         Safe(v, c, ray[s], raycache[s], j)
  PROVE  IInv'
<1>1. IsRay(ray[s]) /\ IsRay(raycache[s])
  BY Parts
<1>2. ray' = [ray EXCEPT ![s] = ray[s]] /\ raycache' = [raycache EXCEPT ![s] = raycache[s]]
  BY Same
<1> QED BY <1>1, <1>2, Moved

LEMMA MovedRay ==
  ASSUME IInv, NEW s \in Services, UNCHANGED <<svc, scache>>,
         NEW r, IsRay(r), ray' = [ray EXCEPT ![s] = r],
         NEW k, IsRay(k), raycache' = [raycache EXCEPT ![s] = k],
         NEW j \in Job, job' = [job EXCEPT ![s] = j],
         Safe(svc[s], scache[s], r, k, j)
  PROVE  IInv'
<1>1. svc[s] \in ServiceObject /\ scache[s] \in ServiceObject
  BY Parts
<1>2. svc' = [svc EXCEPT ![s] = svc[s]] /\ scache' = [scache EXCEPT ![s] = scache[s]]
  BY Same
<1> QED BY <1>1, <1>2, Moved

LEMMA UserStep ==
  ASSUME IInv, NEW s \in Services, CreateService(s) \/ EditService(s) \/ DeleteService(s)
  PROVE  IInv' /\ Kept
<1>1. PICK v \in ServiceObject : v = svc[s]
  BY Parts
<1>2. PICK w \in ServiceObject :
        /\ svc' = [svc EXCEPT ![s] = w] /\ w.rv = v.rv + 1
        /\ \/ w.exists = v.exists /\ w.created = v.created /\ w.status = v.status
           \/ ~w.exists /\ w.created = v.created
           \/ v.rv = 0 /\ w.exists /\ w.created = "unset" /\ w.status = 0
  <2>1. CASE CreateService(s)
    <3>1. PICK spec \in Specs :
            svc' = [svc EXCEPT ![s] = Changed(svc[s], [NoService EXCEPT !.exists = TRUE,
                                                                     !.spec = spec])]
      BY <2>1 DEF CreateService
    <3> DEFINE new == [NoService EXCEPT !.exists = TRUE, !.spec = spec]
    <3>2. new \in ServiceObject /\ new.exists /\ new.created = "unset" /\ new.status = 0
      BY DEF NoService, ServiceObject, Created
    <3> HIDE DEF new
    <3> DEFINE w == Changed(v, new)
    <3>3. svc' = [svc EXCEPT ![s] = w] /\ v.rv = 0
      BY <1>1, <2>1, <3>1 DEF CreateService, new
    <3>4. /\ w \in ServiceObject /\ w.rv = v.rv + 1 /\ w.exists = new.exists
          /\ w.created = new.created /\ w.status = new.status
      BY <3>2, ServiceWrites
    <3> HIDE DEF w
    <3> QED BY <3>2, <3>3, <3>4
  <2>2. CASE EditService(s)
    <3>1. PICK spec \in Specs : svc' = [svc EXCEPT ![s] = Changed(v, [v EXCEPT !.spec = spec])]
      BY <1>1, <2>2 DEF EditService
    <3> DEFINE new == [v EXCEPT !.spec = spec]
    <3>2. new \in ServiceObject /\ new.exists = v.exists /\ new.created = v.created
          /\ new.status = v.status
      BY ServiceSpec
    <3> HIDE DEF new
    <3> DEFINE w == Changed(v, new)
    <3>3. svc' = [svc EXCEPT ![s] = w]
      BY <3>1 DEF new
    <3>4. /\ w \in ServiceObject /\ w.rv = v.rv + 1 /\ w.exists = new.exists
          /\ w.created = new.created /\ w.status = new.status
      BY <3>2, ServiceWrites
    <3> HIDE DEF w
    <3> QED BY <3>2, <3>3, <3>4
  <2>3. CASE DeleteService(s)
    <3>1. svc' = [svc EXCEPT ![s] = Removed(v)]
      BY <1>1, <2>3 DEF DeleteService
    <3> QED BY <3>1, ServiceWrites
  <2> QED BY <2>1, <2>2, <2>3
<1>3. UNCHANGED <<scache, ray, raycache, job>>
  BY DEF CreateService, EditService, DeleteService, caches
<1>4. Safe(w, scache[s], ray[s], raycache[s], job[s])
  BY <1>1, <1>2, Parts, SafeUser
<1>5. IInv'
  <2>1. scache[s] \in ServiceObject /\ job[s] \in Job
    BY Parts
  <2>2. scache' = [scache EXCEPT ![s] = scache[s]] /\ job' = [job EXCEPT ![s] = job[s]]
    BY <1>3, Same
  <2> QED BY <1>2, <1>3, <1>4, <2>1, <2>2, MovedService
<1>6. (v.exists /\ w.exists) => v.status <= w.status
  <2>1. v.rv = 0 => ~v.exists
    BY <1>1, Parts DEF Safe
  <2>2. v.status \in Nat
    BY DEF ServiceObject
  <2> QED BY <1>2, <2>1, <2>2
<1>7. Kept
  BY <1>1, <1>2, <1>6, KeptOne
<1> QED BY <1>5, <1>7

LEMMA RaySteps ==
  ASSUME IInv, NEW s \in Services, ReportStatus(s) \/ CollectRayService(s)
  PROVE  IInv' /\ UNCHANGED svc
<1>1. UNCHANGED <<svc, scache, raycache, job>>
  BY DEF ReportStatus, CollectRayService, caches
<1>2. PICK r : r = ray[s] /\ IsRay(r) /\ r.exists
  BY Parts DEF ReportStatus, CollectRayService
<1>3. CASE ReportStatus(s)
  <2> DEFINE new == [r EXCEPT !.status = r.status + 1]
  <2>1. ray' = [ray EXCEPT ![s] = Changed(r, new)]
    BY <1>2, <1>3 DEF ReportStatus
  <2>2. r.status \in Nat /\ r.status + 1 \in Nat
    BY <1>2 DEF IsRay
  <2>3. IsRay(new) /\ new.exists = r.exists /\ new.status = r.status + 1
    <3> DEFINE n == r.status + 1
               later == [r EXCEPT !.status = n]
    <3>1. n \in Nat
      BY <2>2
    <3> HIDE DEF n
    <3>2. IsRay(later) /\ later.exists = r.exists /\ later.status = n
      BY <1>2, <3>1 DEF IsRay
    <3> QED BY <3>2 DEF n
  <2> HIDE DEF new
  <2> DEFINE w == Changed(r, new)
  <2>4. IsRay(w) /\ w.rv = r.rv + 1 /\ w.exists /\ r.status <= w.status
    <3>1. IsRay(w) /\ w.rv = r.rv + 1 /\ w.exists = new.exists /\ w.status = new.status
      <4>1. IsRay(r) /\ IsRay(new)
        BY <1>2, <2>3
      <4> HIDE DEF w
      <4>2. IsRay(Changed(r, new)) /\ Changed(r, new).rv = r.rv + 1
            /\ Changed(r, new).exists = new.exists /\ Changed(r, new).status = new.status
        BY <4>1, RayWrites
      <4> QED BY <4>2 DEF w
    <3> QED BY <1>2, <2>2, <2>3, <3>1
  <2> HIDE DEF w
  <2>5. svc[s].rv # 0
    BY <1>2, Parts DEF Safe
  <2>6. Safe(svc[s], scache[s], w, raycache[s], job[s])
    BY <1>2, <2>4, <2>5, Parts, SafeRay
  <2>7. ray' = [ray EXCEPT ![s] = w]
    BY <2>1 DEF w
  <2>8. IsRay(raycache[s]) /\ job[s] \in Job
    BY Parts
  <2>9. raycache' = [raycache EXCEPT ![s] = raycache[s]] /\ job' = [job EXCEPT ![s] = job[s]]
    BY <1>1, Same
  <2> QED BY <1>1, <2>4, <2>6, <2>7, <2>8, <2>9, MovedRay
<1>4. CASE CollectRayService(s)
  <2> DEFINE w == Removed(r)
  <2>1. ray' = [ray EXCEPT ![s] = w] /\ ~svc[s].exists
    BY <1>2, <1>4 DEF CollectRayService
  <2>2. IsRay(w) /\ w.rv = r.rv + 1 /\ ~w.exists
    BY <1>2, RayWrites
  <2> HIDE DEF w
  <2>3. Safe(svc[s], scache[s], w, raycache[s], job[s])
    BY <1>2, <2>1, <2>2, Parts, SafeCollected
  <2>4. IsRay(raycache[s]) /\ job[s] \in Job
    BY Parts
  <2>5. raycache' = [raycache EXCEPT ![s] = raycache[s]] /\ job' = [job EXCEPT ![s] = job[s]]
    BY <1>1, Same
  <2> QED BY <1>1, <2>1, <2>2, <2>3, <2>4, <2>5, MovedRay
<1> QED BY <1>1, <1>3, <1>4

LEMMA InformerSteps ==
  ASSUME IInv, NEW s \in Services, SyncService(s) \/ SyncRayService(s)
  PROVE  IInv' /\ UNCHANGED svc
<1>1. UNCHANGED <<svc, ray>>
  BY DEF SyncService, SyncRayService, stores
<1>2. CASE SyncService(s)
  <2>1. PICK j \in Job : j = job[s]
    BY Parts
  <2> DEFINE i == [j EXCEPT !.shared = FALSE]
  <2>2. scache' = [scache EXCEPT ![s] = svc[s]] /\ UNCHANGED raycache
        /\ job' = [job EXCEPT ![s] = i]
    BY <1>2, <2>1 DEF SyncService
  <2>3. i \in Job /\ i.pc = j.pc /\ i.obj = j.obj /\ i.cond = j.cond
    BY JobTypes
  <2> HIDE DEF i
  <2>4. Safe(svc[s], svc[s], ray[s], raycache[s], j)
    BY <2>1, Parts, SafeCached
  <2>5. Safe(svc[s], svc[s], ray[s], raycache[s], i)
    BY <2>3, <2>4, Parts, SafeJob
  <2>6. svc[s] \in ServiceObject /\ svc' = [svc EXCEPT ![s] = svc[s]]
    BY <1>1, Parts, Same
  <2> QED BY <1>1, <2>2, <2>3, <2>5, <2>6, MovedService
<1>3. CASE SyncRayService(s)
  <2>1. raycache' = [raycache EXCEPT ![s] = ray[s]] /\ UNCHANGED <<scache, job>>
    BY <1>3 DEF SyncRayService
  <2>2. Safe(svc[s], scache[s], ray[s], ray[s], job[s])
    BY Parts, SafeCached
  <2>3. IsRay(ray[s]) /\ ray' = [ray EXCEPT ![s] = ray[s]]
    BY <1>1, Parts, Same
  <2>4. job[s] \in Job /\ job' = [job EXCEPT ![s] = job[s]]
    BY <2>1, Parts, Same
  <2> QED BY <1>1, <2>1, <2>2, <2>3, <2>4, MovedRay
<1> QED BY <1>1, <1>2, <1>3
\* A job that takes up the service, or goes on to its next call, or to the condition.
LEMMA JobMoved ==
  ASSUME IInv, NEW s \in Services, UNCHANGED <<svc, scache, ray, raycache>>,
         NEW i \in Job, job' = [job EXCEPT ![s] = i],
         \/ i.pc = "idle" /\ i.obj.created = "unset"
         \/ i.obj = job[s].obj /\ (i.pc = "idle" <=> job[s].pc = "idle")
         \/ i.obj = scache[s] /\ scache[s].exists,
         i.cond \in {"unset", job[s].cond} \/ i.cond # "true" \/ ray[s].exists
  PROVE  IInv'
<1>1. Safe(svc[s], scache[s], ray[s], raycache[s], i)
  BY Parts, SafeJob
<1>2. /\ svc[s] \in ServiceObject /\ svc' = [svc EXCEPT ![s] = svc[s]]
      /\ scache[s] \in ServiceObject /\ scache' = [scache EXCEPT ![s] = scache[s]]
  BY Parts, Same
<1> QED BY <1>1, <1>2, MovedService

LEMMA OnChangeStep ==
  ASSUME IInv, NEW s \in Services, OnChange(s)
  PROVE  IInv' /\ UNCHANGED svc
<1>1. UNCHANGED <<svc, scache, ray, raycache>>
  BY DEF OnChange, stores, caches
<1> DEFINE next(pc, cond) == [pc |-> pc, obj |-> scache[s], shared |-> TRUE, cond |-> cond,
                              failed |-> FALSE]
<1>2. \/ UNCHANGED job
      \/ \E pc \in {"condition", "configMap"}, cond \in Created \ {"true"} :
           scache[s].exists /\ job' = [job EXCEPT ![s] = next(pc, cond)]
  <2>1. {"noVersion", "notConfigured", "unset"} \subseteq Created \ {"true"}
    BY DEF Created, Failures
  <2>2. \/ UNCHANGED job
        \/ /\ scache[s].exists
           /\ \/ job' = [job EXCEPT ![s] = next("condition", "noVersion")]
              \/ job' = [job EXCEPT ![s] = next("condition", "notConfigured")]
              \/ job' = [job EXCEPT ![s] = next("configMap", "unset")]
    BY DEF OnChange
  <2> HIDE DEF next
  <2> QED BY <2>1, <2>2
<1>3. CASE UNCHANGED job
  <2>1. job[s] \in Job /\ job' = [job EXCEPT ![s] = job[s]]
    BY <1>3, Parts, Same
  <2> QED BY <1>1, <2>1, JobMoved
<1>4. ASSUME NEW pc \in {"condition", "configMap"}, NEW cond \in Created \ {"true"},
             scache[s].exists, job' = [job EXCEPT ![s] = next(pc, cond)]
      PROVE  IInv'
  <2> DEFINE i == next(pc, cond)
  <2>1. scache[s] \in ServiceObject
    BY Parts
  <2>2. i \in Job /\ i.obj = scache[s] /\ i.cond = cond
    BY <2>1 DEF Job
  <2> HIDE DEF i
  <2>3. job' = [job EXCEPT ![s] = i]
    BY <1>4 DEF i
  <2> QED BY <1>1, <1>4, <2>2, <2>3, JobMoved
<1> HIDE DEF next
<1> QED BY <1>1, <1>2, <1>3, <1>4

LEMMA GotoStep ==
  ASSUME IInv, NEW s \in Services, job[s].pc # "idle",
         UNCHANGED <<svc, scache, ray, raycache>>,
         NEW pc \in {"configMap", "secret", "rayService", "condition", "claims"}, Goto(s, pc)
  PROVE  IInv'
<1>1. PICK j \in Job : j = job[s]
  BY Parts
<1> DEFINE i == [j EXCEPT !.pc = pc]
<1>2. i \in Job /\ i.pc = pc /\ i.obj = j.obj /\ i.cond = j.cond
  BY DEF Job
<1>3. job' = [job EXCEPT ![s] = i]
  BY <1>1 DEF Goto
<1> HIDE DEF i
<1> QED BY <1>1, <1>2, <1>3, JobMoved

\* What Report makes of a job.
LEMMA ReportType ==
  ASSUME IInv, NEW s \in Services, NEW cond \in Created, Report(s, cond)
  PROVE  \E i \in Job : /\ job' = [job EXCEPT ![s] = i]
                        /\ i.pc = "condition" /\ i.obj = job[s].obj /\ i.cond = cond
<1>1. PICK j \in Job : j = job[s]
  BY Parts
<1> DEFINE i == [j EXCEPT !.pc = "condition", !.cond = cond]
<1>2. i \in Job /\ i.pc = "condition" /\ i.obj = j.obj /\ i.cond = cond
  BY DEF Job
<1>3. job' = [job EXCEPT ![s] = i]
  BY <1>1 DEF Report
<1> HIDE DEF i
<1> QED BY <1>1, <1>2, <1>3

LEMMA ResourceSteps ==
  ASSUME IInv, NEW s \in Services, CreateModelConfigMap(s) \/ SyncClusterSecretsToLocalNS(s)
  PROVE  IInv' /\ UNCHANGED svc
<1>1. UNCHANGED <<svc, scache, ray, raycache>> /\ job[s].pc # "idle"
  BY DEF CreateModelConfigMap, SyncClusterSecretsToLocalNS, caches
<1>2. \/ \E pc \in {"secret", "rayService"} : Goto(s, pc)
      \/ \E cond \in {"configMap", "secret"} : Report(s, cond)
  BY DEF CreateModelConfigMap, SyncClusterSecretsToLocalNS, AfterConfigMap
<1>3. ASSUME NEW pc \in {"secret", "rayService"}, Goto(s, pc)
      PROVE  IInv'
  BY <1>1, <1>3, GotoStep
<1>4. ASSUME NEW cond \in {"configMap", "secret"}, Report(s, cond)
      PROVE  IInv'
  <2>1. cond \in Created /\ cond # "true"
    BY DEF Created, Failures
  <2>2. PICK i \in Job : /\ job' = [job EXCEPT ![s] = i]
                        /\ i.pc = "condition" /\ i.obj = job[s].obj /\ i.cond = cond
    BY <1>4, <2>1, ReportType
  <2> QED BY <1>1, <2>1, <2>2, JobMoved
<1> QED BY <1>1, <1>2, <1>3, <1>4
LEMMA CreateRayStep ==
  ASSUME IInv, NEW s \in Services, CreateRayService(s)
  PROVE  IInv' /\ UNCHANGED svc
<1>1. UNCHANGED <<svc, scache, raycache>> /\ job[s].pc # "idle"
  BY DEF CreateRayService, caches
<1>2. PICK r : r = ray[s]
  OBVIOUS
<1>3. IsRay(r)
  BY <1>2, Parts
<1> DEFINE new(order) ==
             Changed(r, [NoRay EXCEPT !.exists = TRUE,
                           !.spec = GetRayClusterSpecConfig(job[s].obj.spec, order)])
<1>4. PICK order, ok, w :
        /\ order \in Orders /\ ok \in BOOLEAN /\ w \in {r, new(order)}
        /\ Call(r, new(order), ~r.exists, w, ok)
        /\ ray' = [ray EXCEPT ![s] = w]
        /\ Report(s, CreateOutcome(ok))
  BY <1>2 DEF CreateRayService
<1>5. IsRay(new(order)) /\ new(order).exists /\ new(order).rv = r.rv + 1
  <2> DEFINE spec == GetRayClusterSpecConfig(job[s].obj.spec, order)
             first == [NoRay EXCEPT !.exists = TRUE, !.spec = spec]
  <2> HIDE DEF spec
  <2>1. IsRay(first) /\ first.exists
    BY DEF IsRay, NoRay
  <2> HIDE DEF first
  <2>2. IsRay(Changed(r, first)) /\ Changed(r, first).exists = first.exists
        /\ Changed(r, first).rv = r.rv + 1
    BY <1>3, <2>1, RayWrites
  <2> QED BY <2>1, <2>2 DEF first, spec
<1> HIDE DEF new
<1>6. w = r \/ (w = new(order) /\ ~r.exists)
  BY <1>4 DEF Call
<1>7. ok => w.exists
  BY <1>4, <1>5 DEF Call
<1>8. Safe(svc[s], scache[s], w, raycache[s], job[s]) /\ IsRay(w)
  <2>1. svc[s].rv # 0
    BY <1>1, Parts DEF Safe
  <2>2. Safe(svc[s], scache[s], r, raycache[s], job[s])
    BY <1>2, Parts
  <2>3. ASSUME w = new(order), ~r.exists
        PROVE  Safe(svc[s], scache[s], w, raycache[s], job[s]) /\ IsRay(w)
    <3>1. IsRay(w) /\ w.exists /\ w.rv = r.rv + 1
      BY <1>5, <2>3
    <3> QED BY <1>3, <2>1, <2>2, <2>3, <3>1, Parts, SafeRay
  <2> QED BY <1>3, <1>6, <2>2, <2>3
<1>9. CreateOutcome(ok) \in Created /\ (CreateOutcome(ok) = "true" => ok)
  BY DEF CreateOutcome, Created, Failures
<1>10. PICK i \in Job : /\ job' = [job EXCEPT ![s] = i] /\ i.pc = "condition"
                       /\ i.obj = job[s].obj /\ i.cond = CreateOutcome(ok)
  BY <1>4, <1>9, ReportType
<1>11. Safe(svc[s], scache[s], w, raycache[s], i)
  BY <1>1, <1>7, <1>8, <1>9, <1>10, Parts, SafeJob
<1>12. IsRay(raycache[s]) /\ raycache' = [raycache EXCEPT ![s] = raycache[s]]
  BY <1>1, Parts, Same
<1>13. IInv'
  BY <1>1, <1>4, <1>8, <1>10, <1>11, <1>12, MovedRay
<1> QED BY <1>1, <1>13

LEMMA ClaimsNext ==
  ASSUME NEW j \in Job, NEW failed \in BOOLEAN
  PROVE  LET i == [j EXCEPT !.pc = "claims", !.failed = failed]
         IN i \in Job /\ i.pc = "claims" /\ i.obj = j.obj /\ i.cond = j.cond
BY DEF Job

LEMMA UpdateRayStep ==
  ASSUME IInv, NEW s \in Services, UpdateRayService(s)
  PROVE  IInv' /\ UNCHANGED svc
<1>1. UNCHANGED <<svc, scache, raycache>> /\ job[s].pc # "idle" /\ raycache[s].exists
  BY DEF UpdateRayService, caches
<1>2. PICK r : r = ray[s]
  OBVIOUS
<1>3. PICK k : k = raycache[s]
  OBVIOUS
<1>4. IsRay(r) /\ IsRay(k) /\ k.exists
  BY <1>1, <1>2, <1>3, Parts
<1> DEFINE copy(order) == [k EXCEPT !.spec = UpdatedSpec(job[s].obj.spec, k.spec, order)]
           new(order) == Stored(r, copy(order))
           next(ok) == [job EXCEPT ![s].pc = "claims", ![s].failed = UpdateError(ok)]
<1>5. \/ Goto(s, "claims") /\ UNCHANGED ray
      \/ \E order \in Orders : \E ok \in BOOLEAN, w \in {r, new(order)} :
           /\ Call(r, new(order), Accepts(r, copy(order)), w, ok)
           /\ ray' = [ray EXCEPT ![s] = w] /\ job' = next(ok)
  BY <1>2, <1>3 DEF UpdateRayService
<1>6. CASE Goto(s, "claims") /\ UNCHANGED ray
  BY <1>1, <1>6, GotoStep
<1>7. ASSUME NEW order \in Orders, NEW ok \in BOOLEAN, NEW w, w \in {r, new(order)},
             Call(r, new(order), Accepts(r, copy(order)), w, ok),
             ray' = [ray EXCEPT ![s] = w], job' = next(ok)
      PROVE  IInv'
  <2>1. PICK c : c = copy(order)
    OBVIOUS
  <2>2. IsRay(c) /\ c.exists /\ c.rv = k.rv /\ c.status = k.status
    <3> DEFINE spec == UpdatedSpec(job[s].obj.spec, k.spec, order)
    <3>1. c = [k EXCEPT !.spec = spec]
      BY <2>1
    <3> HIDE DEF spec
    <3> QED BY <1>4, <3>1 DEF IsRay
  <2>3. w = r \/ (w = Stored(r, c) /\ Accepts(r, c))
    BY <1>7, <2>1 DEF Call
  <2> HIDE DEF copy, new
  <2>4. /\ IsRay(Stored(r, c)) /\ Stored(r, c).exists = c.exists
        /\ Stored(r, c).status = c.status
        /\ Stored(r, c) = r \/ Stored(r, c).rv = r.rv + 1
    <3>1. IsRay(r) /\ IsRay(c)
      BY <1>4, <2>2
    <3> QED BY <3>1, RayStored
  <2>5. Safe(svc[s], scache[s], r, k, job[s])
    BY <1>2, <1>3, Parts
  <2>6. IsRay(w) /\ Safe(svc[s], scache[s], w, k, job[s])
    <3>1. CASE w = r
      BY <1>4, <2>5, <3>1
    <3>2. CASE w # r
      <4>1. /\ w = Stored(r, c) /\ IsRay(w) /\ w.exists /\ w.rv = r.rv + 1
            /\ w.status = k.status /\ k.rv = r.rv
        BY <2>2, <2>3, <2>4, <3>2 DEF Accepts
      <4>2. r.status = k.status /\ r.status \in Nat
        BY <1>4, <2>5, <4>1 DEF Safe, Older, IsRay
      <4>3. svc[s].rv # 0 /\ r.status <= w.status
        BY <1>1, <2>5, <4>1, <4>2 DEF Safe
      <4> QED BY <1>4, <2>5, <4>1, <4>3, Parts, SafeRay
    <3> QED BY <3>1, <3>2
  <2>7. PICK j \in Job : j = job[s]
    BY Parts
  <2>8. PICK e \in BOOLEAN : e = UpdateError(ok)
    BY DEF UpdateError
  <2> DEFINE i == [j EXCEPT !.pc = "claims", !.failed = e]
  <2>9. i \in Job /\ i.pc = "claims" /\ i.obj = j.obj /\ i.cond = j.cond
    BY ClaimsNext
  <2>10. job' = [job EXCEPT ![s] = i]
    BY <1>7, <2>7, <2>8
  <2> HIDE DEF i, next
  <2>11. Safe(svc[s], scache[s], w, k, i)
    BY <1>1, <1>4, <2>6, <2>7, <2>9, Parts, SafeJob
  <2>12. raycache' = [raycache EXCEPT ![s] = k]
    BY <1>1, <1>3, Same
  <2> QED BY <1>1, <1>4, <1>7, <2>6, <2>9, <2>10, <2>11, <2>12, MovedRay
<1> HIDE DEF copy, new, next
<1> QED BY <1>1, <1>5, <1>6, <1>7
\* What an accepted copy makes of a service, when its version is that of the service.
LEMMA SafeStored ==
  ASSUME NEW v \in ServiceObject, NEW c \in ServiceObject, NEW r, IsRay(r), NEW k, IsRay(k),
         NEW j \in Job, Safe(v, c, r, k, j), NEW copy \in ServiceObject, Accepts(v, copy),
         v.status <= copy.status, copy.status <= k.status,
         copy.created = "true" => r.exists
  PROVE  /\ Stored(v, copy) \in ServiceObject
         /\ Safe(Stored(v, copy), c, r, k, j)
         /\ v.status <= Stored(v, copy).status
<1> DEFINE w == Stored(v, copy)
<1>1. /\ w \in ServiceObject /\ w.exists = copy.exists
      /\ w.created = copy.created /\ w.status = copy.status
      /\ w = v \/ w.rv = v.rv + 1
  BY ServiceWrites
<1> HIDE DEF w
<1>2. Safe(w, c, r, k, j)
  <2>1. CASE w = v
    BY <2>1
  <2>2. CASE w.rv = v.rv + 1
    BY <1>1, <2>2, SafeWrite DEF Accepts
  <2> QED BY <1>1, <2>1, <2>2
<1>3. w \in ServiceObject /\ Safe(w, c, r, k, j) /\ v.status <= w.status
  BY <1>1, <1>2
<1> QED BY <1>3 DEF w

\* A copy the job made is put into the cache.
LEMMA SafePut ==
  ASSUME NEW v \in ServiceObject, NEW c \in ServiceObject, NEW r, IsRay(r), NEW k, IsRay(k),
         NEW j \in Job, Safe(v, c, r, k, j), NEW d \in ServiceObject,
         Older(d, v), v.rv # 0, d.created = "true" => r.exists \/ Gone(v)
  PROVE  Safe(v, d, r, k, j)
BY DEF Safe

LEMMA ConditionStep ==
  ASSUME IInv, NEW s \in Services, UpdateMLServiceCondition(s)
  PROVE  IInv' /\ Kept
<1>1. job[s].pc = "condition" /\ UNCHANGED <<ray, raycache>>
  BY DEF UpdateMLServiceCondition
<1>2. PICK v \in ServiceObject, c \in ServiceObject, j \in Job :
        v = svc[s] /\ c = scache[s] /\ j = job[s]
  BY Parts
<1>3. PICK r, k : r = ray[s] /\ k = raycache[s]
  OBVIOUS
<1>4. IsRay(r) /\ IsRay(k) /\ Safe(v, c, r, k, j) /\ j.pc = "condition"
  BY <1>1, <1>2, <1>3, Parts
<1>5. j.obj \in ServiceObject /\ j.cond \in Created
  BY DEF Job
<1> DEFINE copy == [j.obj EXCEPT !.created = j.cond]
           next(failed) == [job EXCEPT ![s].pc = "claims", ![s].failed = failed]
<1>6. \/ Goto(s, "claims") /\ UNCHANGED <<svc, scache>>
      \/ /\ scache' = scache \/ scache' = [scache EXCEPT ![s] = copy]
         /\ \E ok \in BOOLEAN, w \in {v, Stored(v, copy)} :
              /\ Call(v, Stored(v, copy), Accepts(v, copy), w, ok)
              /\ svc' = [svc EXCEPT ![s] = w]
              /\ job' = next(~ok)
  BY <1>2 DEF UpdateMLServiceCondition, StatusCopy
<1>7. CASE Goto(s, "claims") /\ UNCHANGED <<svc, scache>>
  <2>1. IInv'
    BY <1>1, <1>7, GotoStep
  <2> QED BY <1>7, <2>1, KeptSame
<1>8. ASSUME scache' = scache \/ scache' = [scache EXCEPT ![s] = copy],
             NEW ok \in BOOLEAN, NEW w, w \in {v, Stored(v, copy)},
             Call(v, Stored(v, copy), Accepts(v, copy), w, ok),
             svc' = [svc EXCEPT ![s] = w], job' = next(~ok)
      PROVE  IInv' /\ Kept
  <2>1. PICK d \in ServiceObject : d = copy /\ d.rv = j.obj.rv /\ d.status = j.obj.status
                                  /\ d.created = j.cond
    <3>1. PICK o \in ServiceObject, cond \in Created : o = j.obj /\ cond = j.cond
      BY <1>5
    <3>2. copy = [o EXCEPT !.created = cond]
      BY <3>1
    <3> HIDE DEF copy
    <3> QED BY <3>1, <3>2 DEF ServiceObject
  <2> HIDE DEF copy
  <2>2. Older(d, v) /\ v.rv # 0 /\ (d.created = "true" => r.exists \/ Gone(v))
    BY <1>4, <2>1 DEF Safe, Older
  <2>3. PICK e \in ServiceObject : /\ scache' = [scache EXCEPT ![s] = e]
                                 /\ Safe(v, e, r, k, j)
    <3>1. CASE scache' = scache
      <4>1. scache' = [scache EXCEPT ![s] = c]
        BY <1>2, <3>1, Same
      <4> QED BY <1>4, <4>1
    <3>2. CASE scache' = [scache EXCEPT ![s] = copy]
      <4>1. Safe(v, d, r, k, j)
        BY <1>4, <2>2, SafePut
      <4> QED BY <2>1, <3>2, <4>1
    <3> QED BY <1>8, <3>1, <3>2
  <2>4. w = v \/ (w = Stored(v, d) /\ Accepts(v, d))
    BY <1>8, <2>1 DEF Call
  <2>5. w \in ServiceObject /\ Safe(w, e, r, k, j) /\ v.status <= w.status
    <3>0. v.status \in Nat
      BY DEF ServiceObject
    <3>1. CASE w = v
      BY <2>3, <3>0, <3>1
    <3>2. CASE w = Stored(v, d) /\ Accepts(v, d)
      <4>1. v.status = d.status /\ v.exists
        BY <2>2, <3>2 DEF Accepts, Older
      <4>2. v.status <= d.status /\ d.status <= k.status /\ (d.created = "true" => r.exists)
        BY <1>4, <2>2, <3>0, <4>1 DEF Safe, Gone
      <4> QED BY <1>4, <2>3, <3>2, <4>2, SafeStored
    <3> QED BY <2>4, <3>1, <3>2
  <2>6. PICK failed \in BOOLEAN : failed = ~ok
    OBVIOUS
  <2> DEFINE i == [j EXCEPT !.pc = "claims", !.failed = failed]
  <2>7. i \in Job /\ i.pc = "claims" /\ i.obj = j.obj /\ i.cond = j.cond
    BY ClaimsNext
  <2>8. job' = [job EXCEPT ![s] = i]
    BY <1>2, <1>8, <2>6
  <2> HIDE DEF i, next
  <2>9. Safe(w, e, r, k, i)
    BY <1>4, <2>5, <2>7, SafeJob
  <2>10. IInv'
    BY <1>1, <1>3, <1>8, <2>3, <2>5, <2>7, <2>8, <2>9, MovedService
  <2>11. Kept
    BY <1>2, <1>8, <2>5, KeptOne
  <2> QED BY <2>10, <2>11
<1> HIDE DEF copy, next
<1> QED BY <1>6, <1>7, <1>8

LEMMA ClaimsStep ==
  ASSUME IInv, NEW s \in Services, CreateMLServicePVCs(s)
  PROVE  IInv' /\ UNCHANGED svc
<1>1. /\ UNCHANGED <<svc, scache, ray, raycache>> /\ job' = [job EXCEPT ![s] = Idle]
  BY DEF CreateMLServicePVCs, stores, caches
<1>2. Idle \in Job /\ Idle.pc = "idle" /\ Idle.obj.created = "unset" /\ Idle.cond = "unset"
  BY First
<1> QED BY <1>1, <1>2, JobMoved

LEMMA StatusStep ==
  ASSUME IInv, NEW s \in Services, SyncRayServiceStatus(s)
  PROVE  IInv' /\ Kept
<1>1. UNCHANGED <<scache, ray, raycache, job>>
  BY DEF SyncRayServiceStatus, caches
<1>2. PICK v \in ServiceObject, c \in ServiceObject, j \in Job :
        v = svc[s] /\ c = scache[s] /\ j = job[s]
  BY Parts
<1>3. PICK r, k : r = ray[s] /\ k = raycache[s]
  OBVIOUS
<1>4. IsRay(r) /\ IsRay(k) /\ Safe(v, c, r, k, j)
  BY <1>2, <1>3, Parts
<1> DEFINE run == Reports[k.status] \in Running
           ready == IF run THEN "true" ELSE "false"
           pending == c.pending \/ ~run
           copy == [c EXCEPT !.status = k.status, !.ready = ready, !.pending = pending]
<1>5. \/ UNCHANGED svc
      \/ \E ok \in BOOLEAN, w \in {v, Stored(v, copy)} :
           Call(v, Stored(v, copy), Accepts(v, copy), w, ok) /\ svc' = [svc EXCEPT ![s] = w]
  <2> DEFINE st == raycache[s].status
             now == [scache[s] EXCEPT !.status = st,
                       !.ready = IF Reports[st] \in Running THEN "true" ELSE "false",
                       !.pending = @ \/ ~(Reports[st] \in Running)]
  <2>1. \/ UNCHANGED svc
        \/ \E ok \in BOOLEAN, w \in {svc[s], Stored(svc[s], now)} :
             /\ Call(svc[s], Stored(svc[s], now), Accepts(svc[s], now), w, ok)
             /\ svc' = [svc EXCEPT ![s] = w]
    BY DEF SyncRayServiceStatus
  <2>2. now = copy
    BY <1>2, <1>3
  <2> HIDE DEF now, copy
  <2> QED BY <1>2, <2>1, <2>2
<1>6. CASE UNCHANGED svc
  <2>1. /\ v \in ServiceObject /\ svc' = [svc EXCEPT ![s] = v]
        /\ scache' = [scache EXCEPT ![s] = c] /\ job' = [job EXCEPT ![s] = j]
    BY <1>1, <1>2, <1>6, Same
  <2>2. IInv'
    BY <1>1, <1>3, <1>4, <2>1, MovedService
  <2> QED BY <1>6, <2>2, KeptSame
<1>7. ASSUME NEW ok \in BOOLEAN, NEW w, w \in {v, Stored(v, copy)},
             Call(v, Stored(v, copy), Accepts(v, copy), w, ok),
             svc' = [svc EXCEPT ![s] = w]
      PROVE  IInv' /\ Kept
  <2>1. PICK d \in ServiceObject : d = copy /\ d.rv = c.rv /\ d.status = k.status
                                  /\ d.created = c.created
    <3>1. PICK st \in Nat : st = k.status
      BY <1>4 DEF IsRay
    <3>2. PICK p \in BOOLEAN : p = pending
      BY DEF ServiceObject
    <3>3. PICK q \in {"unset", "true", "false"} : q = ready
      OBVIOUS
    <3> HIDE DEF ready, pending
    <3>4. copy = [c EXCEPT !.status = st, !.ready = q, !.pending = p]
      BY <3>1, <3>2, <3>3
    <3> DEFINE new == [c EXCEPT !.status = st, !.ready = q, !.pending = p]
    <3>5. /\ new \in ServiceObject /\ new.rv = c.rv /\ new.status = st
          /\ new.created = c.created
      BY DEF ServiceObject
    <3>6. copy = new
      BY <3>4
    <3> HIDE DEF copy, new
    <3> QED BY <3>1, <3>5, <3>6
  <2> HIDE DEF copy
  <2>2. w = v \/ (w = Stored(v, d) /\ Accepts(v, d))
    BY <1>7, <2>1 DEF Call
  <2>3. w \in ServiceObject /\ Safe(w, c, r, k, j) /\ v.status <= w.status
    <3>0. v.status \in Nat /\ k.status \in Nat
      BY <1>4, SafeTypes
    <3>1. CASE w = v
      BY <1>4, <3>0, <3>1
    <3>2. CASE w = Stored(v, d) /\ Accepts(v, d)
      <4>1. v.exists
        BY <3>2 DEF Accepts
      <4>2. v.status <= d.status /\ d.status <= k.status /\ (d.created = "true" => r.exists)
        BY <1>4, <2>1, <3>0, <4>1 DEF Safe, Gone
      <4> QED BY <1>4, <3>2, <4>2, SafeStored
    <3> QED BY <2>2, <3>1, <3>2
  <2>4. scache' = [scache EXCEPT ![s] = c] /\ job' = [job EXCEPT ![s] = j]
    BY <1>1, <1>2, Same
  <2>5. IInv'
    BY <1>1, <1>3, <1>7, <2>3, <2>4, MovedService
  <2>6. Kept
    BY <1>2, <1>7, <2>3, KeptOne
  <2> QED BY <2>5, <2>6
<1> HIDE DEF copy
<1> QED BY <1>5, <1>6, <1>7

LEMMA RestartStep ==
  ASSUME IInv, Restart
  PROVE  IInv' /\ UNCHANGED svc
<1>1. /\ svc' = svc /\ scache' = svc /\ ray' = ray /\ raycache' = ray
      /\ job' = [s \in Services |-> Idle]
  BY DEF Restart, stores
<1>2. Types'
  BY <1>1, First DEF IInv, Types
<1>3. ASSUME NEW s \in Services
      PROVE  Safe(svc[s], svc[s], ray[s], ray[s], Idle)
  <2>1. Safe(svc[s], svc[s], ray[s], raycache[s], job[s])
    BY Parts, SafeCached
  <2>2. Safe(svc[s], svc[s], ray[s], ray[s], job[s])
    BY <2>1, Parts, SafeCached
  <2>3. Idle \in Job /\ Idle.pc = "idle" /\ Idle.obj.created = "unset" /\ Idle.cond = "unset"
    BY First
  <2> QED BY <2>2, <2>3, Parts, SafeJob
<1>4. \A s \in Services : ServiceSafe(s)'
  BY <1>1, <1>3 DEF ServiceSafe
<1> QED BY <1>1, <1>2, <1>4 DEF IInv

-----------------------------------------------------------------------------
LEMMA Step == IInv /\ [Next]_vars => IInv' /\ Kept
<1> SUFFICES ASSUME IInv, [Next]_vars PROVE IInv' /\ Kept
  OBVIOUS
<1>0. ASSUME UNCHANGED <<svc, scache, ray, raycache, job>>
      PROVE  IInv' /\ Kept
  <2>1. IInv'
    BY <1>0 DEF IInv, Types, ServiceSafe
  <2> QED BY <1>0, <2>1, KeptSame
<1>1. ASSUME NEW s \in Services, CreateService(s) \/ EditService(s) \/ DeleteService(s)
      PROVE  IInv' /\ Kept
  BY <1>1, UserStep
<1>2. ASSUME NEW s \in Services, ReportStatus(s) \/ CollectRayService(s)
      PROVE  IInv' /\ Kept
  BY <1>2, RaySteps, KeptSame
<1>3. ASSUME NEW s \in Services, SyncService(s) \/ SyncRayService(s)
      PROVE  IInv' /\ Kept
  BY <1>3, InformerSteps, KeptSame
<1>4. ASSUME NEW s \in Services, OnChange(s)
      PROVE  IInv' /\ Kept
  BY <1>4, OnChangeStep, KeptSame
<1>5. ASSUME NEW s \in Services, ServiceStep(s)
      PROVE  IInv' /\ Kept
  BY <1>5, ResourceSteps, CreateRayStep, UpdateRayStep, ConditionStep, ClaimsStep, KeptSame
     DEF ServiceStep
<1>6. ASSUME NEW s \in Services, SyncRayServiceStatus(s)
      PROVE  IInv' /\ Kept
  BY <1>6, StatusStep
<1>7. ASSUME NEW n \in Namespaces, SyncConfigMap(n) \/ \E h \in HFSecrets : SyncSecret(n, h)
      PROVE  IInv' /\ Kept
  BY <1>0, <1>7 DEF SyncConfigMap, SyncSecret, stores
<1>8. ASSUME NEW h \in HFSecrets, RotateSecret(h) \/ SyncHFSecret(h)
      PROVE  IInv' /\ Kept
  BY <1>0, <1>8 DEF RotateSecret, SyncHFSecret, stores, caches
<1>9. CASE AdvanceVersion \/ SyncVersion
  BY <1>0, <1>9 DEF AdvanceVersion, SyncVersion, stores, caches
<1>10. CASE Restart
  BY <1>10, RestartStep, KeptSame
<1>11. CASE UNCHANGED vars
  BY <1>0, <1>11 DEF vars, stores, caches
<1> QED BY <1>1, <1>2, <1>3, <1>4, <1>5, <1>6, <1>7, <1>8, <1>9, <1>10, <1>11 DEF Next

LEMMA Inductive == Spec => []IInv
<1>1. IInv /\ [Next]_vars => IInv'
  BY Step
<1> QED BY Initially, <1>1, PTL DEF Spec

-----------------------------------------------------------------------------
\* Whichever of updateMLServiceCondition and syncRayServiceStatus sends the condition
\* created, from whichever copy: it is True only while the RayService exists.
THEOREM CreatedIsTrue == Spec => []CreatedMeansRayService
<1>1. IInv => CreatedMeansRayService
  <2> SUFFICES ASSUME IInv, NEW s \in Services, svc[s].exists, svc[s].created = "true"
               PROVE  ray[s].exists
    BY DEF CreatedMeansRayService
  <2> QED BY Parts DEF Safe, Gone
<1> QED BY <1>1, Inductive, PTL

\* No write of OnChange or syncRayServiceStatus takes the recorded status back.
THEOREM StatusOnlyAdvances == Spec => StatusNeverRegresses
<1>1. IInv /\ [Next]_vars => [Kept]_vars
  BY Step
<1> QED BY <1>1, Inductive, PTL DEF Spec, StatusNeverRegresses, Kept

-----------------------------------------------------------------------------
(***************************************************************************)
(* What the pods mount.  With all services in the namespace of their       *)
(* template version (OneNamespace; config_map_elsewhere shows why), a job  *)
(* that has come to the RayService has found or made the config map and    *)
(* the secret; neither is ever deleted, and the caches only show what is   *)
(* there.  An updated spec keeps the secrets of earlier ones.              *)
(***************************************************************************)

OneNamespace == \A s \in Services : NamespaceOf[s] = VersionNamespace

\* The secrets a service can name now.
Present(n) == {h \in HFSecrets : secret[n][h].exists}

\* A worker group and a RayService's spec, whatever else they hold, in which all tokens are
\* of the secrets hs.
IsGroup(g, hs) == "tokens" \in DOMAIN g /\ g.tokens \in Seq(hs)

IsSpec(spec, hs) ==
  /\ "groups" \in DOMAIN spec
  /\ \A i \in DOMAIN spec.groups : IsGroup(spec.groups[i], hs)

\* A secret, whatever its data.
IsSecret(c) == c \in [exists : BOOLEAN, rv : Nat, data : {c.data}]

SecretsByName ==
  /\ secret = [n \in Namespaces |-> secret[n]]
  /\ \A n \in Namespaces : secret[n] = [h \in HFSecrets |-> secret[n][h]]
  /\ seccache = [n \in Namespaces |-> [h \in HFSecrets |-> seccache[n][h]]]

Secrets ==
  /\ SecretsByName
  /\ configMap \in [Namespaces -> BOOLEAN] /\ cmcache \in [Namespaces -> BOOLEAN]
  /\ \A n \in Namespaces : cmcache[n] => configMap[n]
  /\ \A n \in Namespaces, h \in HFSecrets :
       /\ IsSecret(secret[n][h]) /\ IsSecret(seccache[n][h])
       /\ seccache[n][h].exists => secret[n][h].exists

JobMounts(s) ==
  /\ job[s].pc \in {"secret", "rayService"} => configMap[NamespaceOf[s]]
  /\ job[s].pc = "secret" => job[s].obj.spec.hf # "none"
  /\ job[s].pc = "rayService" =>
       job[s].obj.spec.hf \in Present(NamespaceOf[s]) \cup {"none"}

RayMounts(s) ==
  /\ IsSpec(ray[s].spec, Present(NamespaceOf[s]))
  /\ IsSpec(raycache[s].spec, Present(NamespaceOf[s]))
  /\ ray[s].exists => configMap[NamespaceOf[s]]

Mounts == Secrets /\ \A s \in Services : JobMounts(s) /\ RayMounts(s)

-----------------------------------------------------------------------------
\* The spec of a RayService.

LEMMA IsSpecGrows ==
  ASSUME NEW hs, NEW more, hs \subseteq more, NEW spec, IsSpec(spec, hs)
  PROVE  IsSpec(spec, more)
<1>1. Seq(hs) \subseteq Seq(more)
  OBVIOUS
<1> QED BY <1>1 DEF IsSpec, IsGroup

LEMMA TokensGrow ==
  ASSUME NEW hs, NEW hf \in hs \cup {"none"}, NEW tokens \in Seq(hs)
  PROVE  SetWorkerGroupHFEnv(hf, tokens) \in Seq(hs)
<1>1. CASE hf = "none" \/ \E i \in DOMAIN tokens : tokens[i] = hf
  BY <1>1 DEF SetWorkerGroupHFEnv
<1>2. CASE ~(hf = "none" \/ \E i \in DOMAIN tokens : tokens[i] = hf)
  <2>1. hf \in hs
    BY <1>2
  <2>2. Append(tokens, hf) \in Seq(hs)
    BY <2>1
  <2> QED BY <1>2, <2>2 DEF SetWorkerGroupHFEnv
<1> QED BY <1>1, <1>2

LEMMA GroupSet ==
  ASSUME NEW hs, NEW hf \in hs \cup {"none"}, NEW g, NEW group, IsGroup(group, hs), NEW order
  PROVE  IsGroup(SetWorkerGroup(g, hf, group, order), hs)
<1> DEFINE params == [p \in ParamNames |-> IF g.params[p] # "" THEN g.params[p] ELSE group.params[p]]
           accelerators == IF DOMAIN g.accelerators # {}
                           THEN ConfigResourceAccelerators(g, order) ELSE group.accelerators
           resources == IF g.resources # "none" THEN g.resources ELSE group.resources
           tokens == SetWorkerGroupHFEnv(hf, group.tokens)
<1>1. tokens \in Seq(hs)
  BY TokensGrow DEF IsGroup
<1>2. SetWorkerGroup(g, hf, group, order) =
        [group EXCEPT !.scale = g.scale, !.params = params, !.accelerators = accelerators,
                      !.placement = g.placement, !.resources = resources, !.tokens = tokens]
  BY DEF SetWorkerGroup
<1> HIDE DEF params, accelerators, resources, tokens
<1> DEFINE new == [group EXCEPT !.scale = g.scale, !.params = params,
                      !.accelerators = accelerators,
                      !.placement = g.placement, !.resources = resources, !.tokens = tokens]
<1>3. "tokens" \in DOMAIN new /\ new.tokens = tokens
  BY DEF IsGroup
<1> HIDE DEF new
<1>5. IsGroup(new, hs)
  BY <1>1, <1>3 DEF IsGroup
<1> QED BY <1>2, <1>5 DEF new

LEMMA ImageSet ==
  ASSUME NEW hs, NEW spec, NEW ospec, IsSpec(spec, hs)
  PROVE  IsSpec(SetRayClusterImage(ospec, spec), hs)
<1> DEFINE image == GetRayClusterImage(ospec.image)
           groups == [spec.groups EXCEPT ![1].image = image]
<1>1. SetRayClusterImage(ospec, spec) = [image |-> image, groups |-> groups]
  BY DEF SetRayClusterImage
<1> HIDE DEF image
<1>2. DOMAIN groups = DOMAIN spec.groups
  OBVIOUS
<1>3. ASSUME NEW i \in DOMAIN groups
      PROVE  IsGroup(groups[i], hs)
  <2>1. IsGroup(spec.groups[i], hs)
    BY <1>2 DEF IsSpec
  <2>2. groups[i] = IF i = 1 THEN [spec.groups[i] EXCEPT !.image = image] ELSE spec.groups[i]
    BY <1>2 DEF IsSpec
  <2>3. ASSUME NEW g, IsGroup(g, hs)
        PROVE  IsGroup([g EXCEPT !.image = image], hs)
    <3> DEFINE new == [g EXCEPT !.image = image]
    <3>1. "tokens" \in DOMAIN new /\ new.tokens = g.tokens
      BY <2>3 DEF IsGroup
    <3> HIDE DEF new
    <3>2. IsGroup(new, hs)
      BY <2>3, <3>1 DEF IsGroup
    <3> QED BY <3>2 DEF new
  <2> QED BY <2>1, <2>2, <2>3
<1> HIDE DEF groups
<1> QED BY <1>1, <1>2, <1>3 DEF IsSpec

LEMMA SpecUpdated ==
  ASSUME NEW hs, NEW spec, NEW ospec, ospec.hf \in hs \cup {"none"}, IsSpec(spec, hs), NEW order
  PROVE  IsSpec(UpdatedSpec(ospec, spec, order), hs)
<1> DEFINE old == SetRayClusterImage(ospec, spec)
<1>1. IsSpec(old, hs) /\ UpdatedSpec(ospec, spec, order) = SetRayClusterWorkerGroupConfig(ospec, old, order)
  BY ImageSet DEF UpdatedSpec
<1> HIDE DEF old
<1> DEFINE group(i) == IF \E k \in DOMAIN ospec.groups : ospec.groups[k].name = old.groups[i].name
                       THEN SetWorkerGroup(ospec.groups[CHOOSE k \in DOMAIN ospec.groups :
                                              ospec.groups[k].name = old.groups[i].name],
                                           ospec.hf, old.groups[i], order)
                       ELSE old.groups[i]
           groups == [i \in DOMAIN old.groups |-> group(i)]
           new == [old EXCEPT !.groups = groups]
<1>2. UpdatedSpec(ospec, spec, order) = new
  BY <1>1 DEF SetRayClusterWorkerGroupConfig
<1>3. ASSUME NEW i \in DOMAIN groups
      PROVE  IsGroup(groups[i], hs)
  <2>1. IsGroup(old.groups[i], hs)
    BY <1>1 DEF IsSpec
  <2>2. \A g : IsGroup(SetWorkerGroup(g, ospec.hf, old.groups[i], order), hs)
    BY <2>1, GroupSet
  <2> QED BY <2>1, <2>2
<1> HIDE DEF groups
<1>5. "groups" \in DOMAIN new /\ new.groups = groups
  BY <1>1 DEF IsSpec
<1> HIDE DEF new
<1> QED BY <1>2, <1>3, <1>5 DEF IsSpec

LEMMA SpecMade ==
  ASSUME NEW hs, NEW ospec, ospec.hf \in hs \cup {"none"}, NEW order
  PROVE  IsSpec(GetRayClusterSpecConfig(ospec, order), hs)
<1> DEFINE image == GetRayClusterImage(ospec.image)
           group(g) == GetDefaultWorkerGroupSpecConfig(g, image, ospec.hf, order)
           groups == [i \in DOMAIN ospec.groups |-> group(ospec.groups[i])]
<1>1. GetRayClusterSpecConfig(ospec, order) = [image |-> image, groups |-> groups]
  BY DEF GetRayClusterSpecConfig
<1> HIDE DEF image
<1>2. ASSUME NEW g
      PROVE  IsGroup(group(g), hs)
  <2> DEFINE tokens == IF ospec.hf = "none" THEN <<>> ELSE <<ospec.hf>>
             params == IF g.params # NoParams THEN g.params ELSE [NoParams EXCEPT !["block"] = "true"]
             accelerators == IF DOMAIN g.accelerators # {}
                             THEN ConfigResourceAccelerators(g, order) ELSE <<>>
             new == [name |-> g.name, scale |-> g.scale, params |-> params,
                     accelerators |-> accelerators, placement |-> g.placement,
                     resources |-> g.resources, volume |-> g.volume, image |-> image,
                     tokens |-> tokens]
  <2>1. group(g) = new
    BY DEF GetDefaultWorkerGroupSpecConfig
  <2>2. tokens \in Seq(hs)
    OBVIOUS
  <2> HIDE DEF tokens, params, accelerators
  <2>3. IsGroup(new, hs)
    BY <2>2 DEF IsGroup
  <2> QED BY <2>1, <2>3
<1>3. \A i \in DOMAIN groups : IsGroup(groups[i], hs)
  BY <1>2
<1> HIDE DEF groups
<1> QED BY <1>1, <1>3 DEF IsSpec

-----------------------------------------------------------------------------
\* The steps.

LEMMA Names ==
  ASSUME IInv, NEW s \in Services
  PROVE  /\ NamespaceOf[s] \in Namespaces
         /\ job[s] \in Job /\ job[s].obj.spec.hf \in HFSecrets \cup {"none"}
         /\ IsRay(ray[s]) /\ IsRay(raycache[s])
<1>1. NamespaceOf[s] \in Namespaces
  BY NamespaceAssumption
<1>2. job[s] \in Job /\ IsRay(ray[s]) /\ IsRay(raycache[s])
  BY Parts
<1>3. job[s].obj.spec \in Specs \cup {NoSpec}
  BY <1>2 DEF Job, ServiceObject
<1>4. NoSpec.hf = "none"
  BY DEF NoSpec
<1> QED BY <1>1, <1>2, <1>3, <1>4, SpecAssumption

\* What is there stays there.
Grown == /\ \A n \in Namespaces : configMap[n] => configMap'[n]
         /\ \A n \in Namespaces, h \in HFSecrets : secret[n][h].exists => secret'[n][h].exists

LEMMA PresentGrows ==
  ASSUME Grown, NEW n \in Namespaces
  PROVE  Present(n) \subseteq Present(n)'
BY DEF Grown, Present

LEMMA RayMountsKept ==
  ASSUME IInv, Mounts, Grown, NEW s \in Services, UNCHANGED <<ray[s], raycache[s]>>
  PROVE  RayMounts(s)'
<1>1. NamespaceOf[s] \in Namespaces /\ RayMounts(s)
  BY Names DEF Mounts
<1>2. Present(NamespaceOf[s]) \subseteq Present(NamespaceOf[s])'
  BY <1>1, PresentGrows
<1>3. IsSpec(ray[s].spec, Present(NamespaceOf[s])') /\ IsSpec(raycache[s].spec, Present(NamespaceOf[s])')
  BY <1>1, <1>2, IsSpecGrows DEF RayMounts
<1> QED BY <1>1, <1>3 DEF RayMounts, Grown

LEMMA JobMountsKept ==
  ASSUME IInv, Mounts, Grown, NEW s \in Services,
         \/ job'[s].pc \notin {"secret", "rayService"}
         \/ job'[s].pc = job[s].pc /\ job'[s].obj = job[s].obj
  PROVE  JobMounts(s)'
<1>1. NamespaceOf[s] \in Namespaces /\ JobMounts(s)
  BY Names DEF Mounts
<1>2. Present(NamespaceOf[s]) \subseteq Present(NamespaceOf[s])'
  BY <1>1, PresentGrows
<1> QED BY <1>1, <1>2 DEF JobMounts, Grown

LEMMA SecretsSame ==
  ASSUME Mounts, UNCHANGED <<configMap, cmcache, secret, seccache>>
  PROVE  Secrets' /\ Grown
BY DEF Mounts, Secrets, SecretsByName, Grown

\* Steps that store nothing that is mounted, and lead no job to a call that mounts.
LEMMA MountsQuiet ==
  ASSUME IInv, Mounts, UNCHANGED <<configMap, cmcache, secret, seccache, ray, raycache>>,
         \A s \in Services : \/ job'[s].pc \notin {"secret", "rayService"}
                             \/ job'[s].pc = job[s].pc /\ job'[s].obj = job[s].obj
  PROVE  Mounts'
<1>1. Secrets' /\ Grown
  BY SecretsSame
<1>2. ASSUME NEW s \in Services
      PROVE  JobMounts(s)' /\ RayMounts(s)'
  BY <1>1, JobMountsKept, RayMountsKept
<1> QED BY <1>1, <1>2 DEF Mounts

LEMMA MountsUser ==
  ASSUME IInv, Mounts, NEW s \in Services,
         CreateService(s) \/ EditService(s) \/ DeleteService(s)
  PROVE  Mounts'
<1>1. UNCHANGED <<configMap, cmcache, secret, seccache, ray, raycache, job>>
  BY DEF CreateService, EditService, DeleteService, caches
<1> QED BY <1>1, MountsQuiet

LEMMA MountsJob ==
  ASSUME IInv, Mounts, NEW s \in Services,
         UNCHANGED <<configMap, cmcache, secret, seccache, ray, raycache>>,
         NEW j, job' = [job EXCEPT ![s] = j],
         \/ j.pc \notin {"secret", "rayService"}
         \/ j.pc = job[s].pc /\ j.obj = job[s].obj
  PROVE  Mounts'
<1>1. \A t \in Services : job'[t] = IF t = s THEN j ELSE job[t]
  BY DEF IInv, Types
<1> QED BY <1>1, MountsQuiet

LEMMA MountsOnChange ==
  ASSUME IInv, Mounts, NEW s \in Services, OnChange(s)
  PROVE  Mounts'
<1>1. UNCHANGED <<configMap, cmcache, secret, seccache, ray, raycache>>
  BY DEF OnChange, stores, caches
<1>2. CASE UNCHANGED job
  BY <1>1, <1>2, MountsQuiet
<1>3. CASE ~UNCHANGED job
  <2>1. PICK pc, cond :
          /\ pc \in {"condition", "configMap"}
          /\ job' = [job EXCEPT ![s] = [pc |-> pc, obj |-> scache[s], shared |-> TRUE,
                                        cond |-> cond, failed |-> FALSE]]
    BY <1>3 DEF OnChange
  <2> QED BY <1>1, <2>1, MountsJob
<1> QED BY <1>2, <1>3

\* The end of a job, the condition, and the two informers that touch jobs or services.
LEMMA MountsLate ==
  ASSUME IInv, Mounts, NEW s \in Services,
         \/ UpdateMLServiceCondition(s) \/ CreateMLServicePVCs(s)
         \/ SyncService(s) \/ SyncRayServiceStatus(s)
  PROVE  Mounts'
<1>1. UNCHANGED <<configMap, cmcache, secret, seccache, ray, raycache>>
  BY DEF UpdateMLServiceCondition, CreateMLServicePVCs, SyncService, SyncRayServiceStatus,
         stores, caches
<1>2. job[s] \in Job
  BY Names
<1>3. CASE UpdateMLServiceCondition(s)
  <2>1. PICK j : job' = [job EXCEPT ![s] = j] /\ j.pc = "claims"
    <3>1. CASE Goto(s, "claims")
      <4> DEFINE j == [job[s] EXCEPT !.pc = "claims"]
      <4>1. job' = [job EXCEPT ![s] = j] /\ j.pc = "claims"
        BY <1>2, <3>1 DEF Goto, Job
      <4> HIDE DEF j
      <4> QED BY <4>1
    <3>2. CASE \E ok \in BOOLEAN : job' = [job EXCEPT ![s].pc = "claims", ![s].failed = ~ok]
      <4>1. PICK ok \in BOOLEAN : job' = [job EXCEPT ![s].pc = "claims", ![s].failed = ~ok]
        BY <3>2
      <4> DEFINE j == [job[s] EXCEPT !.pc = "claims", !.failed = ~ok]
      <4>2. job' = [job EXCEPT ![s] = j] /\ j.pc = "claims"
        BY <1>2, <4>1 DEF Job
      <4> HIDE DEF j
      <4> QED BY <4>2
    <3> QED BY <1>3, <3>1, <3>2 DEF UpdateMLServiceCondition
  <2> QED BY <1>1, <2>1, MountsJob
<1>4. CASE CreateMLServicePVCs(s)
  <2>1. job' = [job EXCEPT ![s] = Idle] /\ Idle.pc = "idle"
    BY <1>4 DEF CreateMLServicePVCs, Idle
  <2> QED BY <1>1, <2>1, MountsJob
<1>5. CASE SyncService(s)
  <2>1. job' = [job EXCEPT ![s].shared = FALSE]
    BY <1>5 DEF SyncService
  <2> DEFINE j == [job[s] EXCEPT !.shared = FALSE]
  <2>2. job' = [job EXCEPT ![s] = j] /\ j.pc = job[s].pc /\ j.obj = job[s].obj
    BY <1>2, <2>1 DEF Job
  <2> HIDE DEF j
  <2> QED BY <1>1, <2>2, MountsJob
<1>6. CASE SyncRayServiceStatus(s)
  <2>1. UNCHANGED job
    BY <1>6 DEF SyncRayServiceStatus
  <2> QED BY <1>1, <2>1, MountsQuiet
<1> QED BY <1>3, <1>4, <1>5, <1>6

\* Steps that change a RayService, or the cached copy, and nothing else that mounts.
LEMMA MountsRay ==
  ASSUME IInv, Mounts, NEW s \in Services,
         UNCHANGED <<configMap, cmcache, secret, seccache>>,
         NEW r, ray' = [ray EXCEPT ![s] = r], NEW k, raycache' = [raycache EXCEPT ![s] = k],
         IsSpec(r.spec, Present(NamespaceOf[s])), IsSpec(k.spec, Present(NamespaceOf[s])),
         r.exists => configMap[NamespaceOf[s]],
         \A t \in Services : \/ job'[t].pc \notin {"secret", "rayService"}
                             \/ job'[t].pc = job[t].pc /\ job'[t].obj = job[t].obj
  PROVE  Mounts'
<1>1. Secrets' /\ Grown
  BY SecretsSame
<1>2. /\ \A t \in Services : t # s => ray'[t] = ray[t] /\ raycache'[t] = raycache[t]
      /\ ray'[s] = r /\ raycache'[s] = k
  BY DEF IInv, Types
<1>3. Present(NamespaceOf[s])' = Present(NamespaceOf[s])
  BY DEF Present
<1>4. RayMounts(s)'
  BY <1>2, <1>3 DEF RayMounts
<1>5. ASSUME NEW t \in Services
      PROVE  JobMounts(t)' /\ RayMounts(t)'
  BY <1>1, <1>2, <1>4, JobMountsKept, RayMountsKept
<1> QED BY <1>1, <1>5 DEF Mounts

LEMMA MountsKuberay ==
  ASSUME IInv, Mounts, NEW s \in Services,
         ReportStatus(s) \/ CollectRayService(s) \/ SyncRayService(s)
  PROVE  Mounts'
<1>1. UNCHANGED <<configMap, cmcache, secret, seccache, job>>
  BY DEF ReportStatus, CollectRayService, SyncRayService, stores, caches
<1>2. RayMounts(s) /\ IsRay(ray[s])
  BY Names DEF Mounts
<1>3. PICK r, k : /\ ray' = [ray EXCEPT ![s] = r] /\ raycache' = [raycache EXCEPT ![s] = k]
                  /\ r.spec = ray[s].spec /\ (r.exists => ray[s].exists)
                  /\ k.spec \in {raycache[s].spec, ray[s].spec}
  <2>1. ray = [ray EXCEPT ![s] = ray[s]] /\ raycache = [raycache EXCEPT ![s] = raycache[s]]
    BY DEF IInv, Types
  <2>2. CASE ReportStatus(s)
    <3> DEFINE new == [ray[s] EXCEPT !.status = @ + 1]
               r == Changed(ray[s], new)
    <3>1. r.spec = ray[s].spec /\ r.exists = ray[s].exists
      BY <1>2 DEF IsRay, Changed
    <3>2. ray' = [ray EXCEPT ![s] = r] /\ UNCHANGED raycache
      BY <2>2 DEF ReportStatus, caches
    <3> HIDE DEF r
    <3> QED BY <2>1, <3>1, <3>2
  <2>3. CASE CollectRayService(s)
    <3> DEFINE r == Removed(ray[s])
    <3>1. r.spec = ray[s].spec /\ ~r.exists
      BY <1>2 DEF IsRay, Removed
    <3>2. ray' = [ray EXCEPT ![s] = r] /\ UNCHANGED raycache
      BY <2>3 DEF CollectRayService, caches
    <3> HIDE DEF r
    <3> QED BY <2>1, <3>1, <3>2
  <2>4. CASE SyncRayService(s)
    BY <2>1, <2>4 DEF SyncRayService, stores
  <2> QED BY <2>2, <2>3, <2>4
<1>4. IsSpec(r.spec, Present(NamespaceOf[s])) /\ IsSpec(k.spec, Present(NamespaceOf[s]))
  BY <1>2, <1>3 DEF RayMounts
<1>5. r.exists => configMap[NamespaceOf[s]]
  BY <1>2, <1>3 DEF RayMounts
<1> QED BY <1>1, <1>3, <1>4, <1>5, MountsRay

\* The calls of OnChange, one by one.
LEMMA MountsReported ==
  ASSUME IInv, NEW s \in Services, NEW cond, Report(s, cond)
  PROVE  \A t \in Services : \/ job'[t].pc \notin {"secret", "rayService"}
                             \/ job'[t] = job[t]
<1>1. job[s] \in Job /\ job = [t \in Services |-> job[t]]
  BY Names DEF IInv, Types
<1>2. job'[s].pc = "condition"
  BY <1>1 DEF Report, Job
<1>3. \A t \in Services : t # s => job'[t] = job[t]
  BY <1>1 DEF Report
<1> QED BY <1>2, <1>3

LEMMA MountsGone ==
  ASSUME IInv, NEW s \in Services, NEW pc, Goto(s, pc)
  PROVE  /\ job'[s].pc = pc /\ job'[s].obj = job[s].obj
         /\ \A t \in Services : t # s => job'[t] = job[t]
<1>1. job[s] \in Job /\ job = [t \in Services |-> job[t]]
  BY Names DEF IInv, Types
<1> QED BY <1>1 DEF Goto, Job

LEMMA MountsConfigMap ==
  ASSUME OneNamespace, IInv, Mounts, NEW s \in Services, CreateModelConfigMap(s)
  PROVE  Mounts'
<1> DEFINE n == NamespaceOf[s]
<1>1. n \in Namespaces /\ n = VersionNamespace /\ job[s] \in Job
      /\ job[s].obj.spec.hf \in HFSecrets \cup {"none"}
  BY Names DEF OneNamespace
<1>2. UNCHANGED <<cmcache, secret, seccache, ray, raycache>>
  BY DEF CreateModelConfigMap, caches
<1>3. \/ configMap[n] /\ Goto(s, AfterConfigMap(s)) /\ UNCHANGED configMap
      \/ \E ok, there \in BOOLEAN :
           /\ configMap' = [configMap EXCEPT ![n] = there]
           /\ configMap[n] => there
           /\ \/ there /\ Goto(s, AfterConfigMap(s))
              \/ Report(s, "configMap")
  <2>1. CASE cmcache[n]
    BY <1>1, <2>1 DEF CreateModelConfigMap, Mounts, Secrets
  <2>2. CASE ~cmcache[n]
    <3>1. PICK ok, there \in BOOLEAN :
            /\ Call(configMap[n], TRUE, ~configMap[n], there, ok)
            /\ configMap' = [configMap EXCEPT ![n] = there]
            /\ IF ok THEN Goto(s, AfterConfigMap(s)) ELSE Report(s, "configMap")
      BY <1>1, <2>2 DEF CreateModelConfigMap
    <3>2. (ok => there) /\ (configMap[n] => there)
      BY <3>1 DEF Call
    <3> QED BY <3>1, <3>2
  <2> QED BY <2>1, <2>2
<1>4. configMap \in [Namespaces -> BOOLEAN]
  BY DEF Mounts, Secrets
<1>5. configMap' \in [Namespaces -> BOOLEAN] /\ \A m \in Namespaces : configMap[m] => configMap'[m]
  BY <1>1, <1>3, <1>4
<1>6. Secrets' /\ Grown
  <2>1. SecretsByName'
    BY <1>2 DEF Mounts, Secrets, SecretsByName
  <2> QED BY <1>2, <1>5, <2>1 DEF Mounts, Secrets, Grown
<1>7. CASE \E cond : Report(s, cond)
  <2>1. ASSUME NEW t \in Services
        PROVE  JobMounts(t)' /\ RayMounts(t)'
    BY <1>2, <1>6, <1>7, MountsReported, JobMountsKept, RayMountsKept
  <2> QED BY <1>6, <2>1 DEF Mounts
<1>8. CASE configMap'[n] /\ Goto(s, AfterConfigMap(s))
  <2>1. /\ job'[s].pc = AfterConfigMap(s) /\ job'[s].obj = job[s].obj
        /\ \A t \in Services : t # s => job'[t] = job[t]
    BY <1>8, MountsGone
  <2>2. JobMounts(s)'
    BY <1>1, <1>8, <2>1 DEF JobMounts, AfterConfigMap
  <2>3. ASSUME NEW t \in Services
        PROVE  JobMounts(t)' /\ RayMounts(t)'
    BY <1>2, <1>6, <2>1, <2>2, JobMountsKept, RayMountsKept
  <2> QED BY <1>6, <2>3 DEF Mounts
<1> QED BY <1>1, <1>3, <1>4, <1>7, <1>8

LEMMA MountsSecret ==
  ASSUME IInv, Mounts, NEW s \in Services, SyncClusterSecretsToLocalNS(s)
  PROVE  Mounts'
<1> DEFINE n == NamespaceOf[s]
           h == job[s].obj.spec.hf
           old == secret[n][h]
           copy == seccache[n][h]
           new == IF copy.exists THEN Stored(old, [copy EXCEPT !.data = hfcache[h]])
                  ELSE Changed(old, [exists |-> TRUE, rv |-> 0, data |-> hfcache[h]])
<1>1. n \in Namespaces /\ job[s] \in Job /\ h \in HFSecrets /\ JobMounts(s)
  BY Names DEF SyncClusterSecretsToLocalNS, Mounts, JobMounts
<1>2. UNCHANGED <<configMap, cmcache, seccache, ray, raycache>>
  BY DEF SyncClusterSecretsToLocalNS, caches
<1>3. Secrets
  BY DEF Mounts
<1>15. \A m \in Namespaces, g \in HFSecrets :
         /\ IsSecret(secret[m][g]) /\ IsSecret(seccache[m][g])
         /\ seccache[m][g].exists => secret[m][g].exists
  BY <1>3 DEF Secrets
<1>4. IsSecret(old) /\ IsSecret(copy) /\ (copy.exists => old.exists)
  BY <1>1, <1>15
<1>5. new.exists /\ IsSecret(new)
  <2>1. ASSUME NEW c, IsSecret(c), NEW rv \in Nat, NEW d
        PROVE  /\ IsSecret([c EXCEPT !.rv = rv]) /\ [c EXCEPT !.rv = rv].exists = c.exists
               /\ IsSecret([c EXCEPT !.data = d]) /\ [c EXCEPT !.data = d].exists = c.exists
    BY <2>1 DEF IsSecret
  <2>2. old.rv + 1 \in Nat
    <3>1. ASSUME NEW c, IsSecret(c) PROVE c.rv + 1 \in Nat
      BY <3>1 DEF IsSecret
    <3> HIDE DEF old
    <3> QED BY <1>4, <3>1
  <2>3. IsSecret([exists |-> TRUE, rv |-> 0, data |-> hfcache[h]])
    BY DEF IsSecret
  <2> HIDE DEF old, copy
  <2>4. CASE copy.exists
    <3> DEFINE c == [copy EXCEPT !.data = hfcache[h]]
    <3>1. IsSecret(c) /\ c.exists
      BY <1>4, <2>1, <2>4, 0 \in Nat
    <3> HIDE DEF c
    <3>2. IsSecret([c EXCEPT !.rv = old.rv + 1]) /\ [c EXCEPT !.rv = old.rv + 1].exists
      BY <2>1, <2>2, <3>1
    <3>3. Stored(old, c) \in {c, [c EXCEPT !.rv = old.rv + 1]}
      BY DEF Stored
    <3>4. new = Stored(old, c)
      BY <2>4 DEF c
    <3> QED BY <3>1, <3>2, <3>3, <3>4
  <2>5. CASE ~copy.exists
    BY <2>1, <2>2, <2>3, <2>5 DEF Changed
  <2> QED BY <2>4, <2>5
<1> HIDE DEF new, old, copy
<1>6. \/ old.exists /\ Goto(s, "rayService") /\ UNCHANGED secret
      \/ \E kept \in {old, new} :
           /\ secret' = [secret EXCEPT ![n][h] = kept]
           /\ \/ kept = new /\ Goto(s, "rayService")
              \/ Report(s, "secret")
  <2>1. CASE copy.exists /\ copy.data = hfcache[h]
    BY <1>4, <2>1 DEF SyncClusterSecretsToLocalNS, copy
  <2>2. CASE ~(copy.exists /\ copy.data = hfcache[h])
    <3>1. PICK ok \in BOOLEAN, kept \in {old, new}, possible \in BOOLEAN :
            /\ Call(old, new, possible, kept, ok)
            /\ secret' = [secret EXCEPT ![n][h] = kept]
            /\ IF ok THEN Goto(s, "rayService") ELSE Report(s, "secret")
      BY <2>2 DEF SyncClusterSecretsToLocalNS, copy, old, new, Accepts
    <3>2. ok => kept = new
      BY <3>1 DEF Call
    <3> QED BY <3>1, <3>2
  <2> QED BY <2>1, <2>2
<1>7. PICK kept \in {old, new} :
        /\ secret' = [secret EXCEPT ![n][h] = kept]
        /\ (kept.exists /\ Goto(s, "rayService")) \/ Report(s, "secret")
  <2>1. secret = [secret EXCEPT ![n][h] = old]
    <3>1. secret[n] = [secret[n] EXCEPT ![h] = old]
      BY <1>1, <1>3 DEF Secrets, SecretsByName, old
    <3> QED BY <1>1, <1>3, <3>1 DEF Secrets, SecretsByName
  <2> QED BY <1>5, <1>6, <2>1
<1>8. /\ \A m \in Namespaces, g \in HFSecrets :
           secret'[m][g] = IF m = n /\ g = h THEN kept ELSE secret[m][g]
      /\ secret' = [m \in Namespaces |-> secret'[m]]
      /\ \A m \in Namespaces : secret'[m] = [g \in HFSecrets |-> secret'[m][g]]
  BY <1>1, <1>3, <1>7 DEF Secrets, SecretsByName
<1>9. IsSecret(kept) /\ (old.exists => kept.exists)
  BY <1>4, <1>5, <1>7
<1>10. \A m \in Namespaces, g \in HFSecrets :
         IsSecret(secret'[m][g]) /\ (secret[m][g].exists => secret'[m][g].exists)
  <2> SUFFICES ASSUME NEW m \in Namespaces, NEW g \in HFSecrets
               PROVE  IsSecret(secret'[m][g]) /\ (secret[m][g].exists => secret'[m][g].exists)
    OBVIOUS
  <2>1. CASE m = n /\ g = h
    BY <1>8, <1>9, <2>1 DEF old
  <2>2. CASE ~(m = n /\ g = h)
    BY <1>15, <1>8, <2>2
  <2> QED BY <2>1, <2>2
<1>11. Grown
  BY <1>2, <1>10 DEF Grown
<1>12. Secrets'
  <2>1. \A m \in Namespaces, g \in HFSecrets :
          /\ IsSecret(secret'[m][g]) /\ IsSecret(seccache'[m][g])
          /\ seccache'[m][g].exists => secret'[m][g].exists
    BY <1>2, <1>15, <1>10
  <2>2. /\ configMap' \in [Namespaces -> BOOLEAN] /\ cmcache' \in [Namespaces -> BOOLEAN]
        /\ \A m \in Namespaces : cmcache'[m] => configMap'[m]
    BY <1>2, <1>3 DEF Secrets
  <2>3. SecretsByName'
    BY <1>2, <1>3, <1>8 DEF Secrets, SecretsByName
  <2> QED BY <2>1, <2>2, <2>3 DEF Secrets
<1>13. CASE Report(s, "secret")
  <2>1. ASSUME NEW t \in Services
        PROVE  JobMounts(t)' /\ RayMounts(t)'
    BY <1>2, <1>11, <1>13, MountsReported, JobMountsKept, RayMountsKept
  <2> QED BY <1>12, <2>1 DEF Mounts
<1>14. CASE kept.exists /\ Goto(s, "rayService")
  <2>1. /\ job'[s].pc = "rayService" /\ job'[s].obj = job[s].obj
        /\ \A t \in Services : t # s => job'[t] = job[t]
    BY <1>14, MountsGone
  <2>2. h \in Present(n)'
    BY <1>1, <1>8, <1>14 DEF Present
  <2>3. configMap'[n]
    BY <1>1, <1>2 DEF JobMounts, SyncClusterSecretsToLocalNS
  <2>4. JobMounts(s)'
    BY <2>1, <2>2, <2>3 DEF JobMounts
  <2>5. ASSUME NEW t \in Services
        PROVE  JobMounts(t)' /\ RayMounts(t)'
    BY <1>2, <1>11, <2>1, <2>4, JobMountsKept, RayMountsKept
  <2> QED BY <1>12, <2>5 DEF Mounts
<1> QED BY <1>7, <1>13, <1>14

LEMMA MountsRayService ==
  ASSUME IInv, Mounts, NEW s \in Services, CreateRayService(s) \/ UpdateRayService(s)
  PROVE  Mounts'
<1> DEFINE hs == Present(NamespaceOf[s])
           spec == job[s].obj.spec
<1>1. job[s].pc = "rayService"
  BY DEF CreateRayService, UpdateRayService
<1>2. /\ IsSpec(ray[s].spec, hs) /\ IsSpec(raycache[s].spec, hs)
      /\ configMap[NamespaceOf[s]] /\ spec.hf \in hs \cup {"none"}
  BY <1>1 DEF Mounts, RayMounts, JobMounts
<1>3. IsRay(ray[s]) /\ IsRay(raycache[s]) /\ job[s] \in Job
  BY Names
<1>4. UNCHANGED <<configMap, cmcache, secret, seccache, raycache>>
  BY DEF CreateRayService, UpdateRayService, caches
<1>5. raycache' = [raycache EXCEPT ![s] = raycache[s]]
      /\ ray = [ray EXCEPT ![s] = ray[s]]
  BY <1>4 DEF IInv, Types
<1> HIDE DEF hs, spec
<1>6. CASE CreateRayService(s)
  <2>1. PICK order \in Orders :
          LET made == GetRayClusterSpecConfig(job[s].obj.spec, order)
              new  == Changed(ray[s], [NoRay EXCEPT !.exists = TRUE, !.spec = made])
          IN \E ok \in BOOLEAN, kept \in {ray[s], new} :
               ray' = [ray EXCEPT ![s] = kept] /\ Report(s, CreateOutcome(ok))
    BY <1>6 DEF CreateRayService
  <2> DEFINE made == GetRayClusterSpecConfig(spec, order)
             new  == Changed(ray[s], [NoRay EXCEPT !.exists = TRUE, !.spec = made])
  <2>2. IsSpec(made, hs)
    BY <1>2, SpecMade
  <2>3. PICK ok \in BOOLEAN, kept \in {ray[s], new} :
          ray' = [ray EXCEPT ![s] = kept] /\ Report(s, CreateOutcome(ok))
    BY <2>1 DEF spec
  <2> HIDE DEF made
  <2>4. new.spec = made
    BY DEF Changed, NoRay
  <2> HIDE DEF new
  <2>5. IsSpec(kept.spec, hs)
    BY <1>2, <2>2, <2>3, <2>4
  <2>6. \A t \in Services : \/ job'[t].pc \notin {"secret", "rayService"}
                            \/ job'[t].pc = job[t].pc /\ job'[t].obj = job[t].obj
    <3>1. \A t \in Services : job'[t].pc \notin {"secret", "rayService"} \/ job'[t] = job[t]
      BY <2>3, MountsReported
    <3> QED BY <3>1
  <2> QED BY <1>2, <1>4, <1>5, <2>3, <2>5, <2>6, MountsRay DEF hs
<1>7. CASE UpdateRayService(s)
  <2>1. PICK order \in Orders :
          LET copy == [raycache[s] EXCEPT !.spec = UpdatedSpec(job[s].obj.spec, @, order)]
              new  == Stored(ray[s], copy)
          IN \/ UNCHANGED ray /\ Goto(s, "claims")
             \/ \E ok \in BOOLEAN, kept \in {ray[s], new} :
                  /\ ray' = [ray EXCEPT ![s] = kept]
                  /\ job' = [job EXCEPT ![s].pc = "claims", ![s].failed = UpdateError(ok)]
    BY <1>7 DEF UpdateRayService
  <2> DEFINE made == UpdatedSpec(spec, raycache[s].spec, order)
             copy == [raycache[s] EXCEPT !.spec = made]
             new  == Stored(ray[s], copy)
  <2>2. IsSpec(made, hs)
    BY <1>2, SpecUpdated
  <2>3. \/ UNCHANGED ray /\ Goto(s, "claims")
        \/ \E ok \in BOOLEAN, kept \in {ray[s], new} :
             /\ ray' = [ray EXCEPT ![s] = kept]
             /\ job' = [job EXCEPT ![s].pc = "claims", ![s].failed = UpdateError(ok)]
    BY <2>1 DEF spec
  <2> HIDE DEF made
  <2>4. new.spec = made
    <3>1. copy.spec = made
      BY <1>3 DEF IsRay
    <3>2. new.spec = copy.spec
      BY <1>3 DEF Stored, IsRay
    <3> QED BY <3>1, <3>2
  <2> HIDE DEF new, copy
  <2>5. PICK kept \in {ray[s], new} : ray' = [ray EXCEPT ![s] = kept]
    BY <1>5, <2>3
  <2>6. IsSpec(kept.spec, hs)
    BY <1>2, <2>2, <2>4, <2>5
  <2>7. /\ job'[s].pc = "claims"
        /\ \A t \in Services : t # s => job'[t] = job[t]
    <3>1. job = [t \in Services |-> job[t]]
      BY DEF IInv, Types
    <3>2. CASE Goto(s, "claims")
      BY <3>2, MountsGone
    <3>3. CASE \E ok \in BOOLEAN :
                 job' = [job EXCEPT ![s].pc = "claims", ![s].failed = UpdateError(ok)]
      BY <1>3, <3>1, <3>3 DEF Job
    <3> QED BY <2>3, <3>2, <3>3
  <2>8. \A t \in Services : \/ job'[t].pc \notin {"secret", "rayService"}
                            \/ job'[t].pc = job[t].pc /\ job'[t].obj = job[t].obj
    <3>1. ASSUME NEW t \in Services
          PROVE  job'[t].pc = "claims" \/ job'[t] = job[t]
      BY <2>7
    <3> QED BY <3>1
  <2> QED BY <1>2, <1>4, <1>5, <2>5, <2>6, <2>8, MountsRay DEF hs
<1> QED BY <1>6, <1>7

LEMMA MountsInformers ==
  ASSUME IInv, Mounts,
         \/ \E n \in Namespaces : SyncConfigMap(n) \/ \E h \in HFSecrets : SyncSecret(n, h)
         \/ \E h \in HFSecrets : RotateSecret(h) \/ SyncHFSecret(h)
         \/ AdvanceVersion \/ SyncVersion
  PROVE  Mounts'
<1>1. UNCHANGED <<configMap, secret, ray, raycache, job>>
  BY DEF SyncConfigMap, SyncSecret, RotateSecret, SyncHFSecret, AdvanceVersion, SyncVersion,
         stores, caches
<1>2. Secrets'
  <2>0. Secrets
    BY DEF Mounts
  <2>1. CASE UNCHANGED <<cmcache, seccache>>
    BY <1>1, <2>1, SecretsSame
  <2>2. ASSUME NEW n \in Namespaces, SyncConfigMap(n)
        PROVE  Secrets'
    <3>1. cmcache' = [cmcache EXCEPT ![n] = configMap[n]] /\ UNCHANGED seccache
      BY <2>2 DEF SyncConfigMap
    <3>2. SecretsByName'
      BY <1>1, <2>0, <3>1 DEF Secrets, SecretsByName
    <3> QED BY <1>1, <2>0, <3>1, <3>2 DEF Secrets
  <2>3. ASSUME NEW n \in Namespaces, NEW h \in HFSecrets, SyncSecret(n, h)
        PROVE  Secrets'
    <3>1. seccache' = [seccache EXCEPT ![n][h] = secret[n][h]] /\ UNCHANGED cmcache
      BY <2>3 DEF SyncSecret
    <3>2. \A m \in Namespaces, g \in HFSecrets :
            seccache'[m][g] = IF m = n /\ g = h THEN secret[m][g] ELSE seccache[m][g]
      BY <2>0, <3>1 DEF Secrets, SecretsByName
    <3>3. SecretsByName'
      <4>1. seccache = [m \in Namespaces |-> [g \in HFSecrets |-> seccache[m][g]]]
        BY <2>0 DEF Secrets, SecretsByName
      <4>2. seccache'[n] = [g \in HFSecrets |-> seccache'[n][g]]
        BY <3>1, <4>1
      <4>3. \A m \in Namespaces : m # n => seccache'[m] = [g \in HFSecrets |-> seccache'[m][g]]
        BY <3>1, <4>1
      <4>4. seccache' = [m \in Namespaces |-> seccache'[m]]
        BY <3>1, <4>1
      <4>5. seccache' = [m \in Namespaces |-> [g \in HFSecrets |-> seccache'[m][g]]]
        BY <4>2, <4>3, <4>4
      <4> QED BY <1>1, <2>0, <4>5 DEF Secrets, SecretsByName
    <3> QED BY <1>1, <2>0, <3>1, <3>2, <3>3 DEF Secrets
  <2> QED BY <2>1, <2>2, <2>3
          DEF RotateSecret, SyncHFSecret, AdvanceVersion, SyncVersion, stores, caches
<1>3. Grown
  BY <1>1 DEF Grown
<1>4. ASSUME NEW t \in Services
      PROVE  JobMounts(t)' /\ RayMounts(t)'
  BY <1>1, <1>3, JobMountsKept, RayMountsKept
<1> QED BY <1>2, <1>4 DEF Mounts

LEMMA MountsRestart ==
  ASSUME IInv, Mounts, Restart
  PROVE  Mounts'
<1>1. /\ UNCHANGED <<configMap, secret, ray>>
      /\ cmcache' = configMap /\ seccache' = secret /\ raycache' = ray
      /\ job' = [s \in Services |-> Idle]
  BY DEF Restart, stores
<1>2. Secrets
  BY DEF Mounts
<1>3. Grown
  BY <1>1 DEF Grown
<1>4. Secrets'
  <2>1. SecretsByName'
    <3>1. secret = [n \in Namespaces |-> [h \in HFSecrets |-> secret[n][h]]]
      BY <1>2 DEF Secrets, SecretsByName
    <3> QED BY <1>1, <1>2, <3>1 DEF Secrets, SecretsByName
  <2> QED BY <1>1, <1>2, <2>1 DEF Secrets
<1>5. ASSUME NEW s \in Services
      PROVE  JobMounts(s)' /\ RayMounts(s)'
  <2>1. job'[s].pc = "idle"
    BY <1>1 DEF Idle
  <2>2. JobMounts(s)'
    BY <1>3, <2>1, JobMountsKept
  <2>3. Present(NamespaceOf[s])' = Present(NamespaceOf[s])
    BY <1>1 DEF Present
  <2> QED BY <1>1, <2>2, <2>3 DEF Mounts, RayMounts
<1> QED BY <1>4, <1>5 DEF Mounts

LEMMA MountsInit == Init => Mounts
<1> SUFFICES ASSUME Init PROVE Mounts
  OBVIOUS
<1>1. /\ configMap = [n \in Namespaces |-> FALSE] /\ cmcache = configMap
      /\ secret = [n \in Namespaces |-> [h \in HFSecrets |-> NoSecret]] /\ seccache = secret
      /\ ray = [s \in Services |-> NoRay] /\ raycache = ray
      /\ job = [s \in Services |-> Idle]
  BY DEF Init
<1>2. IsSecret(NoSecret) /\ ~NoSecret.exists
  BY DEF IsSecret, NoSecret
<1>3. SecretsByName
  BY <1>1 DEF SecretsByName
<1>4. Secrets
  BY <1>1, <1>2, <1>3 DEF Secrets
<1>5. ASSUME NEW hs
      PROVE  IsSpec(NoRay.spec, hs) /\ ~NoRay.exists
  <2>1. NoRay.spec = [image |-> "", groups |-> <<>>] /\ ~NoRay.exists
    BY DEF NoRay
  <2>2. IsSpec([image |-> "", groups |-> <<>>], hs)
    <3>1. DOMAIN <<>> = {}
      OBVIOUS
    <3> QED BY <3>1 DEF IsSpec
  <2> QED BY <2>1, <2>2
<1>6. Idle.pc = "idle"
  BY DEF Idle
<1>7. ASSUME NEW s \in Services
      PROVE  JobMounts(s) /\ RayMounts(s)
  BY <1>1, <1>5, <1>6 DEF JobMounts, RayMounts
<1> QED BY <1>4, <1>7 DEF Mounts

LEMMA MountsStep ==
  ASSUME OneNamespace, IInv, Mounts, [Next]_vars
  PROVE  Mounts'
<1>1. CASE UNCHANGED vars
  BY <1>1, MountsQuiet DEF vars, stores, caches
<1>2. ASSUME NEW s \in Services,
             \/ CreateService(s) \/ EditService(s) \/ DeleteService(s)
             \/ ReportStatus(s) \/ CollectRayService(s)
             \/ SyncService(s) \/ SyncRayService(s)
             \/ OnChange(s) \/ ServiceStep(s) \/ SyncRayServiceStatus(s)
      PROVE  Mounts'
  BY <1>2, MountsUser, MountsKuberay, MountsLate, MountsOnChange, MountsConfigMap,
     MountsSecret, MountsRayService DEF ServiceStep
<1> QED BY <1>1, <1>2, MountsInformers, MountsRestart DEF Next

\* In one namespace the pods of a RayService find what they mount, whatever calls of
\* createModelConfigMap and syncClusterSecretsToLocalNS failed, were lost or repeated, and
\* whichever tokens earlier specs left in the worker groups.
THEOREM MountsArePresent == ASSUME OneNamespace PROVE Spec => []MountsExist
<1>1. IInv /\ Mounts => MountsExist
  <2> SUFFICES ASSUME IInv, Mounts, NEW s \in Services, ray[s].exists
               PROVE  /\ configMap[NamespaceOf[s]]
                      /\ \A i \in DOMAIN ray[s].spec.groups :
                           \A t \in DOMAIN ray[s].spec.groups[i].tokens :
                             secret[NamespaceOf[s]][ray[s].spec.groups[i].tokens[t]].exists
    BY DEF MountsExist
  <2>1. RayMounts(s)
    BY DEF Mounts
  <2>2. ASSUME NEW i \in DOMAIN ray[s].spec.groups,
               NEW t \in DOMAIN ray[s].spec.groups[i].tokens
        PROVE  secret[NamespaceOf[s]][ray[s].spec.groups[i].tokens[t]].exists
    <3>1. ray[s].spec.groups[i].tokens \in Seq(Present(NamespaceOf[s]))
      BY <2>1 DEF RayMounts, IsSpec, IsGroup
    <3>2. ray[s].spec.groups[i].tokens[t] \in Present(NamespaceOf[s])
      BY <3>1
    <3> QED BY <3>2 DEF Present
  <2> QED BY <2>1, <2>2 DEF RayMounts
<1>2. IInv /\ Mounts /\ [Next]_vars => Mounts'
  BY MountsStep
<1> QED BY <1>1, <1>2, MountsInit, Inductive, PTL DEF Spec

-----------------------------------------------------------------------------
(***************************************************************************)
(* What a second reconciliation writes: the accelerators in another order, *)
(* or nothing.  Every other field that an update sets is set to the same   *)
(* value again, and a token that was added is found, provided that the     *)
(* groups have all their fields (Whole).                                   *)
(***************************************************************************)

\* A worker group with all its fields, and the spec of a RayService made of such groups.
IsWhole(g) ==
  /\ g = [name |-> g.name, scale |-> g.scale, params |-> g.params,
          accelerators |-> g.accelerators, placement |-> g.placement,
          resources |-> g.resources, volume |-> g.volume, image |-> g.image,
          tokens |-> g.tokens]
  /\ g.tokens \in Seq(HFSecrets)

IsWholeSpec(spec) ==
  /\ spec = [image |-> spec.image, groups |-> spec.groups]
  /\ spec.groups = [i \in DOMAIN spec.groups |-> spec.groups[i]]
  /\ \A i \in DOMAIN spec.groups : IsWhole(spec.groups[i])

LEMMA TokensTwice ==
  ASSUME NEW hs, NEW hf \in hs \cup {"none"}, NEW tokens \in Seq(hs)
  PROVE  LET once == SetWorkerGroupHFEnv(hf, tokens)
         IN SetWorkerGroupHFEnv(hf, once) = once
<1>1. CASE hf = "none" \/ \E i \in DOMAIN tokens : tokens[i] = hf
  BY <1>1 DEF SetWorkerGroupHFEnv
<1>2. CASE ~(hf = "none" \/ \E i \in DOMAIN tokens : tokens[i] = hf)
  <2> DEFINE once == Append(tokens, hf)
  <2>1. SetWorkerGroupHFEnv(hf, tokens) = once
    BY <1>2 DEF SetWorkerGroupHFEnv
  <2>2. Len(tokens) + 1 \in DOMAIN once /\ once[Len(tokens) + 1] = hf
    BY <1>2
  <2> HIDE DEF once
  <2>3. \E i \in DOMAIN once : once[i] = hf
    BY <2>2
  <2> QED BY <2>1, <2>3 DEF SetWorkerGroupHFEnv
<1> QED BY <1>1, <1>2

\* A range over a map visits every key.
LEMMA VisitsAll ==
  ASSUME NEW keys \in SUBSET Products, NEW order \in Orders
  PROVE  LET seq == order[keys]
             n   == Cardinality(keys)
         IN n \in Nat /\ seq \in [1..n -> keys] /\ keys = {seq[i] : i \in 1..n}
<1> DEFINE seq == order[keys]
           n == Cardinality(keys)
           seen == {seq[i] : i \in 1..n}
<1>1. IsFiniteSet(keys) /\ n \in Nat
  BY ContainsAssumption, FS_Subset, FS_CardinalityType
<1>2. seq \in [1..n -> keys] /\ \A i, j \in 1..n : seq[i] = seq[j] => i = j
  <2>1. order[keys] \in Visits(keys)
    BY DEF Orders
  <2> QED BY <2>1 DEF Visits
<1>3. IsFiniteSet(1..n) /\ Cardinality(1..n) = n
  BY <1>1, FS_Interval
<1> HIDE DEF seq, n
<1>4. seq \in Surjection(1..n, seen) /\ seq \in Injection(1..n, seen)
  BY <1>2 DEF Surjection, Injection, IsInjective
<1>5. IsFiniteSet(seen) /\ Cardinality(seen) = n
  BY <1>3, <1>4, FS_Surjection
<1>6. seen \subseteq keys
  BY <1>2
<1> HIDE DEF seen
<1>7. keys = seen
  BY <1>1, <1>5, <1>6, FS_Subset DEF n
<1> QED BY <1>1, <1>2, <1>7 DEF seen, seq, n

\* Two visits list the same entries, and they are the same when there is one at most.
LEMMA ConfigEntries ==
  ASSUME NEW g, DOMAIN g.accelerators \in SUBSET Products,
         NEW order \in Orders, NEW other \in Orders
  PROVE  LET one == ConfigResourceAccelerators(g, order)
             two == ConfigResourceAccelerators(g, other)
         IN /\ {one[k] : k \in DOMAIN one} = {two[k] : k \in DOMAIN two}
            /\ Cardinality(DOMAIN g.accelerators) <= 1 => one = two
<1> DEFINE keys == DOMAIN g.accelerators
           n == Cardinality(keys)
           entry(p) == <<GetAcceleratorTypeByProductName(p), g.accelerators[p]>>
<1>1. ASSUME NEW visit \in Orders
      PROVE  /\ n \in Nat /\ visit[keys] \in [1..n -> keys]
             /\ ConfigResourceAccelerators(g, visit) = [i \in 1..n |-> entry(visit[keys][i])]
             /\ {entry(visit[keys][i]) : i \in 1..n} = {entry(p) : p \in keys}
  <2>1. /\ n \in Nat /\ visit[keys] \in [1..n -> keys]
        /\ keys = {visit[keys][i] : i \in 1..n}
    BY VisitsAll
  <2>2. ConfigResourceAccelerators(g, visit)
          = [i \in DOMAIN visit[keys] |-> entry(visit[keys][i])]
    BY DEF ConfigResourceAccelerators
  <2> HIDE DEF keys, n, entry
  <2>3. {entry(visit[keys][i]) : i \in 1..n} = {entry(p) : p \in keys}
    BY <2>1
  <2> QED BY <2>1, <2>2, <2>3
<1>2. ASSUME n <= 1
      PROVE  order[keys] = other[keys]
  <2>1. \A i, j \in 1..n : i = j
    BY <1>1, <1>2
  <2>2. \A x, y \in keys : x = y
    <3>1. keys = {order[keys][i] : i \in 1..n}
      BY VisitsAll
    <3> HIDE DEF keys, n
    <3> QED BY <2>1, <3>1
  <2>3. order[keys] \in [1..n -> keys] /\ other[keys] \in [1..n -> keys]
    BY <1>1
  <2> DEFINE one == order[keys]
             two == other[keys]
  <2> HIDE DEF keys, n, one, two
  <2>4. one \in [1..n -> keys] /\ two \in [1..n -> keys]
    BY <2>3 DEF one, two
  <2>5. \A i \in 1..n : one[i] = two[i]
    BY <2>2, <2>4
  <2>6. one = [i \in 1..n |-> one[i]] /\ two = [i \in 1..n |-> two[i]]
    BY <2>4
  <2>7. one = two
    BY <2>5, <2>6
  <2> QED BY <2>7 DEF one, two
<1> HIDE DEF keys, n, entry
<1>3. n <= 1 => ConfigResourceAccelerators(g, order) = ConfigResourceAccelerators(g, other)
  BY <1>1, <1>2
<1>4. ASSUME NEW visit \in Orders, NEW made, made = ConfigResourceAccelerators(g, visit)
      PROVE  {made[k] : k \in DOMAIN made} = {entry(p) : p \in keys}
  <2>1. made = [i \in 1..n |-> entry(visit[keys][i])]
    BY <1>1, <1>4
  <2>2. {made[k] : k \in DOMAIN made} = {entry(visit[keys][i]) : i \in 1..n}
    BY <2>1
  <2> QED BY <1>1, <2>2
<1> QED BY <1>3, <1>4 DEF keys, n

\* Setting a group twice changes the order of its accelerators at most the second time.
GroupSettles(g, hf, group, order, other) ==
  LET new == SetWorkerGroup(g, hf, group, order)
      again == SetWorkerGroup(g, hf, new, other)
  IN /\ IsWhole(new) /\ new.name = group.name /\ new.image = group.image
     /\ SameGroup(new, again)
     /\ Cardinality(DOMAIN g.accelerators) <= 1 => again = new

\* The fields of a group after an update, and after another one.
LEMMA GroupFields ==
  ASSUME NEW hf \in HFSecrets \cup {"none"}, NEW g, NEW group, IsWhole(group),
         DOMAIN g.accelerators \in SUBSET Products,
         NEW order \in Orders, NEW other \in Orders
  PROVE  GroupSettles(g, hf, group, order, other)
<1> DEFINE Params(q) == [p \in ParamNames |-> IF g.params[p] # "" THEN g.params[p] ELSE q[p]]
           Accelerators(q, visit) == IF DOMAIN g.accelerators # {}
                                     THEN ConfigResourceAccelerators(g, visit) ELSE q
           Resources(q) == IF g.resources # "none" THEN g.resources ELSE q
           Tokens(q) == SetWorkerGroupHFEnv(hf, q)
           Set(q, visit) ==
             [name |-> q.name, scale |-> g.scale, params |-> Params(q.params),
              accelerators |-> Accelerators(q.accelerators, visit),
              placement |-> g.placement, resources |-> Resources(q.resources),
              volume |-> q.volume, image |-> q.image, tokens |-> Tokens(q.tokens)]
           few == Cardinality(DOMAIN g.accelerators) <= 1
<1>1. \A q : Params(Params(q)) = Params(q)
  OBVIOUS
<1>2. ASSUME NEW q
      PROVE  LET one == Accelerators(q, order)
                 two == Accelerators(one, other)
             IN /\ {one[k] : k \in DOMAIN one} = {two[k] : k \in DOMAIN two}
                /\ few => two = one
  <2> DEFINE one == ConfigResourceAccelerators(g, order)
             two == ConfigResourceAccelerators(g, other)
  <2>1. {one[k] : k \in DOMAIN one} = {two[k] : k \in DOMAIN two} /\ (few => one = two)
    BY ConfigEntries
  <2> HIDE DEF one, two, few
  <2> QED BY <2>1 DEF one, two
<1>3. \A q : Resources(Resources(q)) = Resources(q)
  OBVIOUS
<1>4. Tokens(group.tokens) \in Seq(HFSecrets) /\ Tokens(Tokens(group.tokens)) = Tokens(group.tokens)
  BY TokensGrow, TokensTwice DEF IsWhole
<1>5. ASSUME NEW q, IsWhole(q), NEW visit
      PROVE  SetWorkerGroup(g, hf, q, visit) = Set(q, visit)
  <2>1. SetWorkerGroup(g, hf, q, visit) =
          [q EXCEPT !.scale = g.scale, !.params = Params(q.params),
                    !.accelerators = Accelerators(q.accelerators, visit),
                    !.placement = g.placement, !.resources = Resources(q.resources),
                    !.tokens = Tokens(q.tokens)]
    BY DEF SetWorkerGroup
  <2> HIDE DEF Params, Accelerators, Resources, Tokens
  <2> QED BY <1>5, <2>1 DEF IsWhole
<1> DEFINE new == Set(group, order)
           again == Set(new, other)
<1> HIDE DEF Params, Accelerators, Resources, Tokens, few
<1>6. /\ new.name = group.name /\ new.image = group.image
      /\ new.params = Params(group.params)
      /\ new.accelerators = Accelerators(group.accelerators, order)
      /\ new.resources = Resources(group.resources) /\ new.tokens = Tokens(group.tokens)
      /\ new.volume = group.volume /\ new.scale = g.scale /\ new.placement = g.placement
  OBVIOUS
<1>7. IsWhole(new)
  BY <1>4 DEF IsWhole
<1> DEFINE With(accelerators) ==
             [name |-> new.name, scale |-> new.scale, params |-> new.params,
              accelerators |-> accelerators, placement |-> new.placement,
              resources |-> new.resources, volume |-> new.volume, image |-> new.image,
              tokens |-> new.tokens]
<1>8. again = With(Accelerators(new.accelerators, other))
  BY <1>1, <1>3, <1>4, <1>6
<1>9. new = With(new.accelerators)
  BY <1>7 DEF IsWhole
<1>10. SetWorkerGroup(g, hf, group, order) = new /\ SetWorkerGroup(g, hf, new, other) = again
  BY <1>5, <1>7
<1>11. few => Accelerators(new.accelerators, other) = new.accelerators
  BY <1>2, <1>6
<1>12. again.accelerators = Accelerators(new.accelerators, other)
  BY <1>8
<1> HIDE DEF Set, new, again
<1>13. few => again = new
  BY <1>8, <1>9, <1>11
<1>14. [new EXCEPT !.accelerators = <<>>] = [again EXCEPT !.accelerators = <<>>]
  <2>1. \A a : [With(a) EXCEPT !.accelerators = <<>>] = With(<<>>)
    OBVIOUS
  <2> HIDE DEF With
  <2> QED BY <1>8, <1>9, <2>1
<1>15. Entries(new) = Entries(again)
  BY <1>2, <1>6, <1>12 DEF Entries
<1> QED BY <1>6, <1>7, <1>10, <1>13, <1>14, <1>15 DEF GroupSettles, SameGroup, few

\* What SetRayClusterWorkerGroupConfig makes of one group.
Updated(spec, group, order) ==
  IF \E k \in DOMAIN spec.groups : spec.groups[k].name = group.name
  THEN SetWorkerGroup(spec.groups[CHOOSE k \in DOMAIN spec.groups :
                                    spec.groups[k].name = group.name],
                      spec.hf, group, order)
  ELSE group

LEMMA UpdatedGroup ==
  ASSUME NEW spec, spec.hf \in HFSecrets \cup {"none"}, IsServiceSpec(spec),
         NEW group, IsWhole(group), NEW order \in Orders, NEW other \in Orders
  PROVE  LET new == Updated(spec, group, order)
             again == Updated(spec, new, other)
         IN /\ IsWhole(new) /\ new.image = group.image
            /\ SameGroup(new, again) /\ (OneTypeEach(spec) => again = new)
<1>1. CASE \E k \in DOMAIN spec.groups : spec.groups[k].name = group.name
  <2> DEFINE k == CHOOSE k \in DOMAIN spec.groups : spec.groups[k].name = group.name
             g == spec.groups[k]
             new == SetWorkerGroup(g, spec.hf, group, order)
             again == SetWorkerGroup(g, spec.hf, new, other)
  <2>0. k \in DOMAIN spec.groups
    BY <1>1
  <2>1. Updated(spec, group, order) = new
    BY <1>1 DEF Updated
  <2> HIDE DEF k
  <2>2. DOMAIN g.accelerators \in SUBSET Products
    <3>1. PICK products \in SUBSET Products : g \in ServiceGroup(products)
      BY <2>0 DEF IsServiceSpec
    <3> QED BY <3>1 DEF ServiceGroup
  <2>3. OneTypeEach(spec) => Cardinality(DOMAIN g.accelerators) <= 1
    BY <2>0 DEF OneTypeEach
  <2> HIDE DEF g
  <2>4. /\ IsWhole(new) /\ new.name = group.name /\ new.image = group.image
        /\ SameGroup(new, again) /\ (OneTypeEach(spec) => again = new)
    <3>1. /\ IsWhole(new) /\ new.name = group.name /\ new.image = group.image
          /\ SameGroup(new, again)
          /\ Cardinality(DOMAIN g.accelerators) <= 1 => again = new
      <4>1. GroupSettles(g, spec.hf, group, order, other)
        BY <2>2, GroupFields
      <4> QED BY ONLY <4>1 DEF GroupSettles
    <3> HIDE DEF new, again
    <3> QED BY <2>3, <3>1
  <2>5. Updated(spec, new, other) = again
    <3> HIDE DEF new
    <3>1. new.name = group.name
      BY <2>4
    <3> QED BY <1>1, <3>1 DEF Updated, k, g
  <2> HIDE DEF new, again
  <2> QED BY <2>1, <2>4, <2>5
<1>2. CASE ~\E k \in DOMAIN spec.groups : spec.groups[k].name = group.name
  BY <1>2 DEF Updated, SameGroup
<1> QED BY <1>1, <1>2

\* An update, field by field.
LEMMA UpdatedFields ==
  ASSUME NEW spec, NEW was, IsWholeSpec(was), NEW order
  PROVE  LET image == GetRayClusterImage(spec.image)
             imaged(i) == IF i = 1 THEN [was.groups[i] EXCEPT !.image = image]
                                   ELSE was.groups[i]
         IN UpdatedSpec(spec, was, order) =
              [image |-> image,
               groups |-> [i \in DOMAIN was.groups |-> Updated(spec, imaged(i), order)]]
<1> DEFINE image == GetRayClusterImage(spec.image)
           imaged(i) == IF i = 1 THEN [was.groups[i] EXCEPT !.image = image] ELSE was.groups[i]
           set == [was.groups EXCEPT ![1].image = image]
           old == [image |-> image, groups |-> set]
           groups == [i \in DOMAIN old.groups |-> Updated(spec, old.groups[i], order)]
<1>1. UpdatedSpec(spec, was, order) = [old EXCEPT !.groups = groups]
  BY DEF UpdatedSpec, SetRayClusterImage, SetRayClusterWorkerGroupConfig, Updated
<1> HIDE DEF image
<1>2. DOMAIN set = DOMAIN was.groups /\ \A i \in DOMAIN set : set[i] = imaged(i)
  BY DEF IsWholeSpec
<1> HIDE DEF imaged, set
<1>3. groups = [i \in DOMAIN was.groups |-> Updated(spec, imaged(i), order)]
  BY <1>2
<1> HIDE DEF groups
<1>4. [old EXCEPT !.groups = groups] = [image |-> image, groups |-> groups]
  OBVIOUS
<1> QED BY <1>1, <1>3, <1>4 DEF image, imaged

LEMMA ImagedGroup ==
  ASSUME NEW g, IsWhole(g), NEW image
  PROVE  /\ IsWhole([g EXCEPT !.image = image]) /\ [g EXCEPT !.image = image].image = image
         /\ g.image = image => [g EXCEPT !.image = image] = g
BY DEF IsWhole

LEMMA UpdateTwice ==
  ASSUME NEW spec, spec.hf \in HFSecrets \cup {"none"}, IsServiceSpec(spec),
         NEW was, IsWholeSpec(was), NEW order \in Orders, NEW other \in Orders
  PROVE  LET once == UpdatedSpec(spec, was, order)
             twice == UpdatedSpec(spec, once, other)
         IN IsWholeSpec(once) /\ SameButOrder(once, twice) /\ (OneTypeEach(spec) => twice = once)
<1> DEFINE image == GetRayClusterImage(spec.image)
           imaged(i) == IF i = 1 THEN [was.groups[i] EXCEPT !.image = image] ELSE was.groups[i]
           groups == [i \in DOMAIN was.groups |-> Updated(spec, imaged(i), order)]
           once == [image |-> image, groups |-> groups]
           imagedAgain(i) == IF i = 1 THEN [groups[i] EXCEPT !.image = image] ELSE groups[i]
<1>1. UpdatedSpec(spec, was, order) = once
  BY UpdatedFields
<1>2. ASSUME NEW i \in DOMAIN was.groups
      PROVE  IsWhole(imaged(i)) /\ (i = 1 => imaged(i).image = image)
  <2>1. IsWhole(was.groups[i])
    BY DEF IsWholeSpec
  <2> HIDE DEF image
  <2> QED BY <2>1, ImagedGroup
<1> HIDE DEF image, imaged
<1>3. ASSUME NEW i \in DOMAIN was.groups
      PROVE  LET again == Updated(spec, imagedAgain(i), other)
             IN /\ IsWhole(groups[i]) /\ SameGroup(groups[i], again)
                /\ OneTypeEach(spec) => again = groups[i]
  <2> DEFINE new == Updated(spec, imaged(i), order)
  <2>1. /\ IsWhole(new) /\ new.image = imaged(i).image
        /\ SameGroup(new, Updated(spec, new, other))
        /\ OneTypeEach(spec) => Updated(spec, new, other) = new
    BY <1>2, UpdatedGroup
  <2>2. groups[i] = new
    OBVIOUS
  <2> HIDE DEF new, groups
  <2>3. i = 1 => [new EXCEPT !.image = image] = new
    BY <1>2, <2>1, ImagedGroup
  <2> QED BY <2>1, <2>2, <2>3
<1>4. DOMAIN groups = DOMAIN was.groups /\ groups = [i \in DOMAIN groups |-> groups[i]]
  OBVIOUS
<1> HIDE DEF groups
<1>5. once.image = image /\ once.groups = groups
  OBVIOUS
<1>6. IsWholeSpec(once)
  BY <1>3, <1>4, <1>5 DEF IsWholeSpec
<1> DEFINE later == [i \in DOMAIN groups |-> Updated(spec, imagedAgain(i), other)]
           twice == [image |-> image, groups |-> later]
<1>7. UpdatedSpec(spec, once, other) = twice
  BY <1>5, <1>6, UpdatedFields DEF image
<1> HIDE DEF imagedAgain
<1>8. /\ DOMAIN later = DOMAIN groups
      /\ \A i \in DOMAIN groups : SameGroup(groups[i], later[i])
  BY <1>3, <1>4
<1>9. OneTypeEach(spec) => later = groups
  BY <1>3, <1>4
<1> HIDE DEF later
<1>10. twice.image = image /\ twice.groups = later
  OBVIOUS
<1>11. SameButOrder(once, twice)
  BY <1>5, <1>8, <1>10 DEF SameButOrder
<1> QED BY <1>1, <1>6, <1>7, <1>9, <1>11

LEMMA MadeWhole ==
  ASSUME NEW spec, spec.hf \in HFSecrets \cup {"none"}, NEW order
  PROVE  IsWholeSpec(GetRayClusterSpecConfig(spec, order))
<1> DEFINE image == GetRayClusterImage(spec.image)
           group(g) == GetDefaultWorkerGroupSpecConfig(g, image, spec.hf, order)
           groups == [i \in DOMAIN spec.groups |-> group(spec.groups[i])]
<1>1. GetRayClusterSpecConfig(spec, order) = [image |-> image, groups |-> groups]
  BY DEF GetRayClusterSpecConfig
<1> HIDE DEF image
<1>2. ASSUME NEW g
      PROVE  IsWhole(group(g))
  <2> DEFINE tokens == IF spec.hf = "none" THEN <<>> ELSE <<spec.hf>>
             params == IF g.params # NoParams THEN g.params ELSE [NoParams EXCEPT !["block"] = "true"]
             accelerators == IF DOMAIN g.accelerators # {}
                             THEN ConfigResourceAccelerators(g, order) ELSE <<>>
             new == [name |-> g.name, scale |-> g.scale, params |-> params,
                     accelerators |-> accelerators, placement |-> g.placement,
                     resources |-> g.resources, volume |-> g.volume, image |-> image,
                     tokens |-> tokens]
  <2>1. group(g) = new
    BY DEF GetDefaultWorkerGroupSpecConfig
  <2>2. tokens \in Seq(HFSecrets)
    OBVIOUS
  <2> HIDE DEF tokens, params, accelerators
  <2>3. IsWhole(new)
    BY <2>2 DEF IsWhole
  <2> QED BY <2>1, <2>3
<1>3. /\ groups = [i \in DOMAIN groups |-> groups[i]]
      /\ \A i \in DOMAIN groups : IsWhole(groups[i])
  BY <1>2
<1> HIDE DEF groups
<1> QED BY <1>1, <1>3 DEF IsWholeSpec

-----------------------------------------------------------------------------
(***************************************************************************)
(* The types of the specs that are made and updated.                       *)
(***************************************************************************)

\* A set of natural numbers has a least element: the intervals up to them are ordered
\* by inclusion.
LEMMA Least ==
  ASSUME NEW S \in SUBSET Nat, S # {}
  PROVE  \E i \in S : \A j \in S : i <= j
<1> DEFINE T == {1..i : i \in S}
<1>1. T \subseteq FiniteSubsetsOf(Nat) /\ T # {}
  <2>1. \A i \in S : 1..i \in SUBSET Nat /\ IsFiniteSet(1..i)
    BY FS_Interval
  <2> QED BY <2>1 DEF FiniteSubsetsOf
<1>2. PICK x \in T : \A y \in T : <<y, x>> \notin StrictSubsetOrdering(Nat)
  BY <1>1, FS_StrictSubsetOrderingWellFounded, WFMin
<1>3. PICK i \in S : x = 1..i
  OBVIOUS
<1>4. ASSUME NEW j \in S, j < i
      PROVE  FALSE
  <2>1. 1..j \subseteq 1..i /\ i \notin 1..j /\ (i \in 1..i)
    BY <1>4
  <2>2. <<1..j, x>> \in StrictSubsetOrdering(Nat)
    BY <1>3, <2>1 DEF StrictSubsetOrdering
  <2> QED BY <1>2, <2>2
<1>5. \A j \in S : i <= j
  BY <1>4
<1> QED BY <1>5

LEMMA TypeNumbers == DOMAIN AcceleratorTypes \subseteq Nat
BY DEF AcceleratorTypes

LEMMA ProductType ==
  ASSUME NEW p \in Products
  PROVE  GetAcceleratorTypeByProductName(p) \in Text
<1>1. Contains[p] \subseteq DOMAIN AcceleratorTypes /\ Contains[p] \in SUBSET Nat
  BY TypeNumbers, ContainsAssumption
<1>2. CASE Contains[p] = {}
  BY <1>2, TextAssumption DEF GetAcceleratorTypeByProductName
<1>3. CASE Contains[p] # {}
  <2>1. \E i \in Contains[p] : \A j \in Contains[p] : i <= j
    BY <1>1, <1>3, Least
  <2>2. (CHOOSE i \in Contains[p] : \A j \in Contains[p] : i <= j) \in Contains[p]
    BY <1>1, <2>1
  <2> QED BY <1>3, <1>1, <2>2, TextAssumption DEF GetAcceleratorTypeByProductName
<1> QED BY <1>2, <1>3

LEMMA AcceleratorsType ==
  ASSUME NEW products \in SUBSET Products, NEW g \in ServiceGroup(products), NEW order \in Orders
  PROVE  ConfigResourceAccelerators(g, order) \in Seq(Text \X Nat)
<1> DEFINE seq == order[products]
<1>1. g.accelerators \in [products -> Nat] /\ DOMAIN g.accelerators = products
  BY DEF ServiceGroup
<1>2. Cardinality(products) \in Nat
  BY ContainsAssumption, FS_Subset, FS_CardinalityType
<1>3. seq \in [1..Cardinality(products) -> products]
  BY DEF Orders, Visits
<1> DEFINE pair(i) == <<GetAcceleratorTypeByProductName(seq[i]), g.accelerators[seq[i]]>>
<1>4. ConfigResourceAccelerators(g, order) = [i \in DOMAIN seq |-> pair(i)]
  BY <1>1 DEF ConfigResourceAccelerators
<1> HIDE DEF seq
<1>5. ASSUME NEW i \in 1..Cardinality(products)
      PROVE  pair(i) \in Text \X Nat
  <2>1. seq[i] \in products /\ seq[i] \in Products
    BY <1>3
  <2>2. GetAcceleratorTypeByProductName(seq[i]) \in Text
    BY <2>1, ProductType
  <2>3. g.accelerators[seq[i]] \in Nat
    BY <1>1, <2>1
  <2> QED BY <2>2, <2>3
<1> HIDE DEF pair
<1>6. [i \in 1..Cardinality(products) |-> pair(i)] \in Seq(Text \X Nat)
  BY <1>2, <1>5
<1> QED BY <1>3, <1>4, <1>6
LEMMA TypedSpec ==
  ASSUME NEW spec \in Specs \cup {NoSpec}
  PROVE  IsServiceSpec(spec)
<1>1. IsServiceSpec(NoSpec)
  <2>1. NoSpec.groups = <<>> /\ NoSpec.image = "" /\ NoSpec.hf = "none"
    BY DEF NoSpec
  <2>2. DOMAIN <<>> = 1..Len(<<>>) /\ DOMAIN <<>> = {}
    OBVIOUS
  <2> QED BY <2>1, <2>2, TextAssumption DEF IsServiceSpec
<1> QED BY <1>1, SpecAssumption

LEMMA ImageType ==
  ASSUME NEW image \in Text
  PROVE  GetRayClusterImage(image) \in Text
BY TextAssumption DEF GetRayClusterImage

LEMMA MadeGroupType ==
  ASSUME NEW products \in SUBSET Products, NEW g \in ServiceGroup(products), NEW image \in Text,
         NEW hf \in Text, NEW order \in Orders
  PROVE  GetDefaultWorkerGroupSpecConfig(g, image, hf, order) \in RayGroup
<1> DEFINE params == IF g.params # NoParams THEN g.params ELSE [NoParams EXCEPT !["block"] = "true"]
           accelerators == IF DOMAIN g.accelerators # {}
                           THEN ConfigResourceAccelerators(g, order) ELSE <<>>
           tokens == IF hf = "none" THEN <<>> ELSE <<hf>>
<1>1. params \in [ParamNames -> Text]
  <2>1. g.params \in [ParamNames -> Text]
    BY DEF ServiceGroup
  <2>2. NoParams \in [ParamNames -> Text]
    BY TextAssumption DEF NoParams
  <2>3. [NoParams EXCEPT !["block"] = "true"] \in [ParamNames -> Text]
    BY <2>2, TextAssumption
  <2> QED BY <2>1, <2>3
<1>2. accelerators \in Seq(Text \X Nat)
  BY AcceleratorsType
<1>3. tokens \in Seq(Text)
  OBVIOUS
<1>4. g.name \in Text /\ g.scale \in Nat /\ g.placement \in Text /\ g.resources \in Text
      /\ g.volume \in Text
  BY DEF ServiceGroup
<1>5. GetDefaultWorkerGroupSpecConfig(g, image, hf, order) =
        [name |-> g.name, scale |-> g.scale, params |-> params, accelerators |-> accelerators,
         placement |-> g.placement, resources |-> g.resources, volume |-> g.volume,
         image |-> image, tokens |-> tokens]
  BY DEF GetDefaultWorkerGroupSpecConfig
<1> HIDE DEF params, accelerators, tokens
<1> QED BY <1>1, <1>2, <1>3, <1>4, <1>5 DEF RayGroup

LEMMA MadeType ==
  ASSUME NEW spec, IsServiceSpec(spec), NEW order \in Orders
  PROVE  GetRayClusterSpecConfig(spec, order) \in RaySpecs
<1> DEFINE image == GetRayClusterImage(spec.image)
           group(i) == GetDefaultWorkerGroupSpecConfig(spec.groups[i], image, spec.hf, order)
           groups == [i \in DOMAIN spec.groups |-> group(i)]
<1>1. image \in Text /\ spec.hf \in Text
  BY ImageType DEF IsServiceSpec
<1>2. GetRayClusterSpecConfig(spec, order) = [image |-> image, groups |-> groups]
  BY DEF GetRayClusterSpecConfig
<1> HIDE DEF image
<1>3. ASSUME NEW i \in DOMAIN spec.groups
      PROVE  group(i) \in RayGroup
  BY <1>1, MadeGroupType DEF IsServiceSpec
<1> HIDE DEF group
<1>4. DOMAIN spec.groups = 1..Len(spec.groups) /\ Len(spec.groups) \in Nat
  BY DEF IsServiceSpec
<1>5. groups \in Seq(RayGroup)
  BY <1>3, <1>4
<1> QED BY <1>1, <1>2, <1>5 DEF RaySpecs
LEMMA SetGroupType ==
  ASSUME NEW products \in SUBSET Products, NEW g \in ServiceGroup(products),
         NEW hf \in Text, NEW group \in RayGroup, NEW order \in Orders
  PROVE  SetWorkerGroup(g, hf, group, order) \in RayGroup
<1> DEFINE params == [p \in ParamNames |-> IF g.params[p] # "" THEN g.params[p] ELSE group.params[p]]
           accelerators == IF DOMAIN g.accelerators # {}
                           THEN ConfigResourceAccelerators(g, order) ELSE group.accelerators
           resources == IF g.resources # "none" THEN g.resources ELSE group.resources
           tokens == SetWorkerGroupHFEnv(hf, group.tokens)
<1>1. params \in [ParamNames -> Text]
  BY DEF ServiceGroup, RayGroup
<1>2. accelerators \in Seq(Text \X Nat)
  BY AcceleratorsType DEF RayGroup
<1>3. tokens \in Seq(Text)
  BY TokensGrow DEF RayGroup
<1>4. g.scale \in Nat /\ g.placement \in Text /\ resources \in Text
  BY DEF ServiceGroup, RayGroup
<1>5. SetWorkerGroup(g, hf, group, order) =
        [group EXCEPT !.scale = g.scale, !.params = params, !.accelerators = accelerators,
                      !.placement = g.placement, !.resources = resources, !.tokens = tokens]
  BY DEF SetWorkerGroup
<1> HIDE DEF params, accelerators, resources, tokens
<1> QED BY <1>1, <1>2, <1>3, <1>4, <1>5 DEF RayGroup

LEMMA UpdatedGroupType ==
  ASSUME NEW spec, IsServiceSpec(spec), NEW group \in RayGroup, NEW order \in Orders
  PROVE  Updated(spec, group, order) \in RayGroup
<1>1. CASE \E k \in DOMAIN spec.groups : spec.groups[k].name = group.name
  <2> DEFINE k == CHOOSE i \in DOMAIN spec.groups : spec.groups[i].name = group.name
  <2>1. k \in DOMAIN spec.groups
    BY <1>1
  <2>2. Updated(spec, group, order) = SetWorkerGroup(spec.groups[k], spec.hf, group, order)
    BY <1>1 DEF Updated
  <2> HIDE DEF k
  <2>3. PICK products \in SUBSET Products : spec.groups[k] \in ServiceGroup(products)
    BY <2>1 DEF IsServiceSpec
  <2>4. spec.hf \in Text
    BY DEF IsServiceSpec
  <2> QED BY <2>2, <2>3, <2>4, SetGroupType
<1>2. CASE ~\E k \in DOMAIN spec.groups : spec.groups[k].name = group.name
  BY <1>2 DEF Updated
<1> QED BY <1>1, <1>2

LEMMA UpdatedType ==
  ASSUME NEW spec, IsServiceSpec(spec), NEW was \in RaySpecs, IsWholeSpec(was),
         NEW order \in Orders
  PROVE  UpdatedSpec(spec, was, order) \in RaySpecs
<1> DEFINE image == GetRayClusterImage(spec.image)
           imaged(i) == IF i = 1 THEN [was.groups[i] EXCEPT !.image = image] ELSE was.groups[i]
           groups == [i \in DOMAIN was.groups |-> Updated(spec, imaged(i), order)]
<1>1. image \in Text
  BY ImageType DEF IsServiceSpec
<1>2. UpdatedSpec(spec, was, order) = [image |-> image, groups |-> groups]
  BY UpdatedFields
<1> HIDE DEF image
<1>3. was.groups \in Seq(RayGroup)
  BY DEF RaySpecs
<1>4. ASSUME NEW i \in DOMAIN was.groups
      PROVE  Updated(spec, imaged(i), order) \in RayGroup
  <2>1. was.groups[i] \in RayGroup
    BY <1>3
  <2>2. [was.groups[i] EXCEPT !.image = image] \in RayGroup
    BY <1>1, <2>1 DEF RayGroup
  <2>3. imaged(i) \in RayGroup
    BY <2>1, <2>2
  <2> HIDE DEF imaged
  <2> QED BY <2>3, UpdatedGroupType
<1> HIDE DEF imaged
<1>5. groups \in Seq(RayGroup)
  BY <1>3, <1>4
<1> QED BY <1>1, <1>2, <1>5 DEF RaySpecs

-----------------------------------------------------------------------------
\* Every RayService, and every cached one, has such a spec.

IsRaySpec(spec) == IsWholeSpec(spec) /\ spec \in RaySpecs

Whole == \A s \in Services : IsRaySpec(ray[s].spec) /\ IsRaySpec(raycache[s].spec)

LEMMA WholeInit == Init => Whole
<1>1. NoRay.spec = [image |-> "", groups |-> <<>>]
  BY DEF NoRay
<1>2. IsRaySpec([image |-> "", groups |-> <<>>])
  <2>1. DOMAIN <<>> = {} /\ <<>> = [i \in {} |-> <<>>[i]]
    OBVIOUS
  <2>2. [image |-> "", groups |-> <<>>] \in RaySpecs
    <3>1. "" \in Text
      BY TextAssumption
    <3>2. <<>> \in Seq(RayGroup)
      OBVIOUS
    <3> QED BY <3>1, <3>2 DEF RaySpecs
  <2> QED BY <2>1, <2>2 DEF IsRaySpec, IsWholeSpec
<1>3. ASSUME Init, NEW s \in Services
      PROVE  ray[s] = NoRay /\ raycache[s] = NoRay
  BY <1>3 DEF Init
<1> QED BY <1>1, <1>2, <1>3 DEF Whole

LEMMA WholeRay ==
  ASSUME IInv, Whole, NEW s \in Services,
         NEW r, ray' = [ray EXCEPT ![s] = r], NEW k, raycache' = [raycache EXCEPT ![s] = k],
         IsRaySpec(r.spec), IsRaySpec(k.spec)
  PROVE  Whole'
<1>1. /\ \A t \in Services : t # s => ray'[t] = ray[t] /\ raycache'[t] = raycache[t]
      /\ ray'[s] = r /\ raycache'[s] = k
  BY DEF IInv, Types
<1> QED BY <1>1 DEF Whole

LEMMA WholeKuberay ==
  ASSUME IInv, Whole, NEW s \in Services,
         ReportStatus(s) \/ CollectRayService(s) \/ SyncRayService(s)
  PROVE  Whole'
<1>1. IsRaySpec(ray[s].spec) /\ IsRaySpec(raycache[s].spec) /\ IsRay(ray[s])
  BY Names DEF Whole
<1>2. ray = [ray EXCEPT ![s] = ray[s]] /\ raycache = [raycache EXCEPT ![s] = raycache[s]]
  BY DEF IInv, Types
<1>3. CASE ReportStatus(s)
  <2> DEFINE r == Changed(ray[s], [ray[s] EXCEPT !.status = @ + 1])
  <2>1. r.spec = ray[s].spec
    BY <1>1 DEF IsRay, Changed
  <2>2. ray' = [ray EXCEPT ![s] = r] /\ UNCHANGED raycache
    BY <1>3 DEF ReportStatus, caches
  <2> HIDE DEF r
  <2> QED BY <1>1, <1>2, <2>1, <2>2, WholeRay
<1>4. CASE CollectRayService(s)
  <2> DEFINE r == Removed(ray[s])
  <2>1. r.spec = ray[s].spec
    BY <1>1 DEF IsRay, Removed
  <2>2. ray' = [ray EXCEPT ![s] = r] /\ UNCHANGED raycache
    BY <1>4 DEF CollectRayService, caches
  <2> HIDE DEF r
  <2> QED BY <1>1, <1>2, <2>1, <2>2, WholeRay
<1>5. CASE SyncRayService(s)
  BY <1>1, <1>2, <1>5, WholeRay DEF SyncRayService, stores
<1> QED BY <1>3, <1>4, <1>5

LEMMA WholeRayService ==
  ASSUME IInv, Whole, NEW s \in Services, CreateRayService(s) \/ UpdateRayService(s)
  PROVE  Whole'
<1>1. /\ IsRaySpec(ray[s].spec) /\ IsRaySpec(raycache[s].spec)
      /\ IsRay(ray[s]) /\ IsRay(raycache[s])
      /\ job[s].obj.spec.hf \in HFSecrets \cup {"none"} /\ IsServiceSpec(job[s].obj.spec)
  <2>1. job[s].obj.spec \in Specs \cup {NoSpec}
    BY Names DEF Job, ServiceObject
  <2> QED BY <2>1, Names, TypedSpec DEF Whole
<1>2. /\ raycache' = [raycache EXCEPT ![s] = raycache[s]]
      /\ ray = [ray EXCEPT ![s] = ray[s]]
  BY DEF CreateRayService, UpdateRayService, caches, IInv, Types
<1>3. CASE CreateRayService(s)
  <2>1. PICK order \in Orders :
          LET made == GetRayClusterSpecConfig(job[s].obj.spec, order)
              new  == Changed(ray[s], [NoRay EXCEPT !.exists = TRUE, !.spec = made])
          IN \E kept \in {ray[s], new} : ray' = [ray EXCEPT ![s] = kept]
    BY <1>3 DEF CreateRayService
  <2> DEFINE made == GetRayClusterSpecConfig(job[s].obj.spec, order)
             new  == Changed(ray[s], [NoRay EXCEPT !.exists = TRUE, !.spec = made])
  <2>2. IsRaySpec(made)
    BY <1>1, MadeWhole, MadeType DEF IsRaySpec
  <2>3. PICK kept \in {ray[s], new} : ray' = [ray EXCEPT ![s] = kept]
    BY <2>1
  <2> HIDE DEF made
  <2>4. new.spec = made
    BY DEF Changed, NoRay
  <2> HIDE DEF new
  <2> QED BY <1>1, <1>2, <2>2, <2>3, <2>4, WholeRay
<1>4. CASE UpdateRayService(s)
  <2>1. PICK order \in Orders :
          LET copy == [raycache[s] EXCEPT !.spec = UpdatedSpec(job[s].obj.spec, @, order)]
              new  == Stored(ray[s], copy)
          IN \/ UNCHANGED ray
             \/ \E kept \in {ray[s], new} : ray' = [ray EXCEPT ![s] = kept]
    BY <1>4 DEF UpdateRayService
  <2> DEFINE made == UpdatedSpec(job[s].obj.spec, raycache[s].spec, order)
             copy == [raycache[s] EXCEPT !.spec = made]
             new  == Stored(ray[s], copy)
  <2>2. IsRaySpec(made)
    BY <1>1, UpdateTwice, UpdatedType DEF IsRaySpec
  <2>3. PICK kept \in {ray[s], new} : ray' = [ray EXCEPT ![s] = kept]
    BY <1>2, <2>1
  <2> HIDE DEF made
  <2>4. new.spec = made
    <3>1. copy.spec = made
      BY <1>1 DEF IsRay
    <3>2. new.spec = copy.spec
      BY <1>1 DEF Stored, IsRay
    <3> QED BY <3>1, <3>2
  <2> HIDE DEF new, copy
  <2> QED BY <1>1, <1>2, <2>2, <2>3, <2>4, WholeRay
<1> QED BY <1>3, <1>4

LEMMA WholeStep == IInv /\ Whole /\ [Next]_vars => Whole'
<1> SUFFICES ASSUME IInv, Whole, [Next]_vars PROVE Whole'
  OBVIOUS
<1>1. ASSUME UNCHANGED <<ray, raycache>>
      PROVE  Whole'
  BY <1>1 DEF Whole
<1>2. CASE UNCHANGED vars
  BY <1>1, <1>2 DEF vars, stores, caches
<1>3. ASSUME NEW s \in Services,
             CreateService(s) \/ EditService(s) \/ DeleteService(s)
      PROVE  Whole'
  BY <1>1, <1>3 DEF CreateService, EditService, DeleteService, caches
<1>4. ASSUME NEW s \in Services,
             \/ SyncService(s) \/ OnChange(s)
             \/ CreateModelConfigMap(s) \/ SyncClusterSecretsToLocalNS(s)
             \/ UpdateMLServiceCondition(s) \/ CreateMLServicePVCs(s)
             \/ SyncRayServiceStatus(s)
      PROVE  Whole'
  BY <1>1, <1>4 DEF SyncService, OnChange, CreateModelConfigMap, SyncClusterSecretsToLocalNS,
       UpdateMLServiceCondition, CreateMLServicePVCs, SyncRayServiceStatus, stores, caches
<1>5. ASSUME \/ \E n \in Namespaces : SyncConfigMap(n) \/ \E h \in HFSecrets : SyncSecret(n, h)
             \/ \E h \in HFSecrets : RotateSecret(h) \/ SyncHFSecret(h)
             \/ AdvanceVersion \/ SyncVersion
      PROVE  Whole'
  BY <1>1, <1>5 DEF SyncConfigMap, SyncSecret, RotateSecret, SyncHFSecret, AdvanceVersion,
       SyncVersion, stores, caches
<1>6. CASE Restart
  BY <1>6 DEF Restart, stores, Whole
<1> QED BY <1>2, <1>3, <1>4, <1>5, <1>6, WholeKuberay, WholeRayService DEF Next, ServiceStep

\* What has been written to a RayService once is not written again, whatever specs, lost
\* calls and conflicts came before: one more SetRayClusterImage and
\* SetRayClusterWorkerGroupConfig change no field but the start param that lists the
\* accelerators, and that no more than in its order.
THEOREM WritesSettle == Spec => ReconcilesOnce
<1>1. Whole' => \A s \in Services : ray'[s].spec # ray[s].spec =>
                  \A spec \in Specs : UpdatesOnce(spec, ray'[s].spec)
  <2>1. ASSUME NEW spec \in Specs, NEW was, IsWholeSpec(was)
        PROVE  UpdatesOnce(spec, was)
    <3>1. spec.hf \in HFSecrets \cup {"none"} /\ IsServiceSpec(spec)
      BY SpecAssumption
    <3> QED BY <2>1, <3>1, UpdateTwice DEF UpdatesOnce
  <2> QED BY <2>1 DEF Whole, IsRaySpec
<1>2. Spec => []Whole
  BY WholeInit, WholeStep, Inductive, PTL DEF Spec
<1> QED BY <1>1, <1>2, PTL DEF Spec, ReconcilesOnce

-----------------------------------------------------------------------------
(***************************************************************************)
(* The types of everything else: what the controllers of model templates   *)
(* and the users change, the copies of secrets, and the work queues.       *)
(***************************************************************************)

Others ==
  /\ version \in VersionState /\ vcache \in VersionState
  /\ configMap \in [Namespaces -> BOOLEAN] /\ cmcache \in [Namespaces -> BOOLEAN]
  /\ hfSecret \in [HFSecrets -> Nat] /\ hfcache \in [HFSecrets -> Nat]
  /\ secret \in [Namespaces -> [HFSecrets -> SecretObject]]
  /\ seccache \in [Namespaces -> [HFSecrets -> SecretObject]]
  /\ queue \subseteq Services /\ rayqueue \subseteq Services
  /\ disturbed \in 0..MaxDisturbances

LEMMA Counting ==
  ASSUME Others, \/ UNCHANGED disturbed
                 \/ \E kind : Disturb(kind)
  PROVE  disturbed' \in 0..MaxDisturbances
BY ServiceBounds DEF Others, Disturb

LEMMA CallCounts ==
  ASSUME NEW old, NEW new, NEW possible, NEW stored, NEW ok,
         Call(old, new, possible, stored, ok)
  PROVE  /\ (UNCHANGED disturbed \/ Disturb("lostCall"))
         /\ stored \in {old, new}
BY DEF Call

LEMMA OthersInit == Init => Others
<1> SUFFICES ASSUME Init PROVE Others
  OBVIOUS
<1>1. NoSecret \in SecretObject
  BY DEF NoSecret, SecretObject
<1>2. version \in VersionState /\ vcache \in VersionState
  BY DEF Init, VersionState
<1> QED BY <1>1, <1>2, ServiceBounds DEF Init, Others

LEMMA SecretWrites ==
  ASSUME NEW old \in SecretObject, NEW new \in SecretObject, NEW data \in Nat
  PROVE  /\ [new EXCEPT !.data = data] \in SecretObject
         /\ Changed(old, [exists |-> TRUE, rv |-> 0, data |-> data]) \in SecretObject
         /\ Stored(old, new) \in SecretObject
<1>1. old.rv + 1 \in Nat
  BY DEF SecretObject
<1>2. [new EXCEPT !.data = data] \in SecretObject
  BY DEF SecretObject
<1>3. [exists |-> TRUE, rv |-> 0, data |-> data] \in SecretObject
  BY DEF SecretObject
<1>4. \A c \in SecretObject : [c EXCEPT !.rv = old.rv + 1] \in SecretObject
  BY <1>1 DEF SecretObject
<1> QED BY <1>2, <1>3, <1>4 DEF Changed, Stored

LEMMA OthersSecret ==
  ASSUME Others, NEW s \in Services, SyncClusterSecretsToLocalNS(s)
  PROVE  Others'
<1> DEFINE n == NamespaceOf[s]
           h == job[s].obj.spec.hf
           old  == secret[n][h]
           copy == seccache[n][h]
           data == hfcache[h]
           new  == IF copy.exists THEN Stored(old, [copy EXCEPT !.data = data])
                   ELSE Changed(old, [exists |-> TRUE, rv |-> 0, data |-> data])
<1>1. n \in Namespaces
  BY NamespaceAssumption
<1>2. ASSUME h \in HFSecrets
      PROVE  old \in SecretObject /\ new \in SecretObject
  <2>1. old \in SecretObject /\ copy \in SecretObject /\ data \in Nat
    BY <1>1, <1>2 DEF Others
  <2> HIDE DEF old, copy, data
  <2>2. [copy EXCEPT !.data = data] \in SecretObject
    BY <2>1, SecretWrites
  <2> QED BY <2>1, <2>2, SecretWrites
<1>3. \/ UNCHANGED <<secret, disturbed>>
      \/ \E kept \in {old, new} : /\ secret' = [secret EXCEPT ![n][h] = kept]
                                   /\ (UNCHANGED disturbed \/ Disturb("lostCall"))
  BY CallCounts DEF SyncClusterSecretsToLocalNS
<1>4. /\ UNCHANGED <<version, configMap, hfSecret, vcache, cmcache, hfcache, seccache, queue,
                      rayqueue>>
  BY DEF SyncClusterSecretsToLocalNS, caches
<1>5. disturbed' \in 0..MaxDisturbances
  BY <1>3, Counting
<1>6. secret' \in [Namespaces -> [HFSecrets -> SecretObject]]
  <2>1. CASE UNCHANGED secret
    BY <2>1 DEF Others
  <2>2. ASSUME NEW kept, kept \in {old, new}, secret' = [secret EXCEPT ![n][h] = kept]
        PROVE  secret' \in [Namespaces -> [HFSecrets -> SecretObject]]
    <3>1. h \in HFSecrets => kept \in SecretObject
      BY <1>2, <2>2
    <3> HIDE DEF n, h
    <3>2. [secret[n] EXCEPT ![h] = kept] \in [HFSecrets -> SecretObject]
      <4>1. PICK f \in [HFSecrets -> SecretObject] : f = secret[n]
        BY <1>1 DEF Others
      <4>2. [f EXCEPT ![h] = kept] = [i \in HFSecrets |-> IF i = h THEN kept ELSE f[i]]
        OBVIOUS
      <4> QED BY <3>1, <4>1, <4>2
    <3> QED BY <1>1, <2>2, <3>2 DEF Others
  <2> HIDE DEF old, new
  <2> QED BY <1>3, <2>1, <2>2
<1> QED BY <1>4, <1>5, <1>6 DEF Others

LEMMA OthersJob ==
  ASSUME Others, NEW s \in Services,
         \/ CreateModelConfigMap(s) \/ CreateRayService(s) \/ UpdateRayService(s)
         \/ UpdateMLServiceCondition(s) \/ CreateMLServicePVCs(s) \/ SyncRayServiceStatus(s)
         \/ OnChange(s)
  PROVE  Others'
<1>1. CASE CreateModelConfigMap(s)
  <2>1. UNCHANGED disturbed \/ Disturb("lostCall")
    BY <1>1, CallCounts DEF CreateModelConfigMap
  <2>2. \/ UNCHANGED configMap
        \/ \E there \in BOOLEAN : configMap' = [configMap EXCEPT ![NamespaceOf[s]] = there]
    BY <1>1 DEF CreateModelConfigMap
  <2>3. configMap' \in [Namespaces -> BOOLEAN]
    BY <2>2 DEF Others
  <2>4. disturbed' \in 0..MaxDisturbances
    BY <2>1, Counting
  <2> QED BY <1>1, <2>3, <2>4 DEF CreateModelConfigMap, caches, Others
<1>2. CASE CreateRayService(s)
  <2>1. UNCHANGED disturbed \/ Disturb("lostCall")
    BY <1>2, CallCounts DEF CreateRayService
  <2>2. disturbed' \in 0..MaxDisturbances
    BY <2>1, Counting
  <2> QED BY <1>2, <2>2 DEF CreateRayService, caches, Others
<1>3. CASE UpdateRayService(s)
  <2>1. UNCHANGED disturbed \/ Disturb("lostCall")
    BY <1>3, CallCounts DEF UpdateRayService
  <2>2. disturbed' \in 0..MaxDisturbances
    BY <2>1, Counting
  <2> QED BY <1>3, <2>2 DEF UpdateRayService, caches, Others
<1>4. CASE UpdateMLServiceCondition(s)
  <2>1. UNCHANGED disturbed \/ Disturb("lostCall")
    BY <1>4, CallCounts DEF UpdateMLServiceCondition
  <2>2. disturbed' \in 0..MaxDisturbances
    BY <2>1, Counting
  <2> QED BY <1>4, <2>2 DEF UpdateMLServiceCondition, Others
<1>5. CASE CreateMLServicePVCs(s)
  <2>1. UNCHANGED disturbed \/ Disturb("claimsFail")
    BY <1>5 DEF CreateMLServicePVCs
  <2>2. disturbed' \in 0..MaxDisturbances
    BY <2>1, Counting
  <2>3. queue' \subseteq Services
    BY <1>5 DEF CreateMLServicePVCs, Others
  <2> QED BY <1>5, <2>2, <2>3 DEF CreateMLServicePVCs, stores, caches, Others
<1>6. CASE SyncRayServiceStatus(s)
  <2>1. UNCHANGED disturbed \/ Disturb("lostCall")
    BY <1>6, CallCounts DEF SyncRayServiceStatus
  <2>2. disturbed' \in 0..MaxDisturbances
    BY <2>1, Counting
  <2>3. rayqueue' \subseteq Services
    BY <1>6 DEF SyncRayServiceStatus, Return, Others
  <2> QED BY <1>6, <2>2, <2>3 DEF SyncRayServiceStatus, caches, Others
<1>7. CASE OnChange(s)
  BY <1>7 DEF OnChange, stores, caches, Others
<1> QED BY <1>1, <1>2, <1>3, <1>4, <1>5, <1>6, <1>7

LEMMA OthersWorld ==
  ASSUME Others, NEW s \in Services,
         \/ CreateService(s) \/ EditService(s) \/ DeleteService(s)
         \/ ReportStatus(s) \/ CollectRayService(s)
         \/ SyncService(s) \/ SyncRayService(s)
  PROVE  Others'
<1>1. CASE CreateService(s) \/ CollectRayService(s)
  BY <1>1 DEF CreateService, CollectRayService, caches, Others
<1>2. CASE EditService(s) \/ DeleteService(s) \/ ReportStatus(s)
  <2>1. disturbed' \in 0..MaxDisturbances
    BY <1>2, Counting DEF EditService, DeleteService, ReportStatus, Others
  <2> QED BY <1>2, <2>1 DEF EditService, DeleteService, ReportStatus, caches, Others
<1>3. CASE SyncService(s) \/ SyncRayService(s)
  BY <1>3 DEF SyncService, SyncRayService, stores, caches, Others
<1> QED BY <1>1, <1>2, <1>3

LEMMA OthersCaches ==
  ASSUME Others,
         \/ \E n \in Namespaces : SyncConfigMap(n) \/ \E h \in HFSecrets : SyncSecret(n, h)
         \/ \E h \in HFSecrets : RotateSecret(h) \/ SyncHFSecret(h)
         \/ AdvanceVersion \/ SyncVersion \/ Restart
  PROVE  Others'
<1>1. ASSUME NEW n \in Namespaces, SyncConfigMap(n)
      PROVE  Others'
  BY <1>1 DEF SyncConfigMap, stores, Others
<1>2. ASSUME NEW n \in Namespaces, NEW h \in HFSecrets, SyncSecret(n, h)
      PROVE  Others'
  BY <1>2 DEF SyncSecret, stores, Others
<1>3. ASSUME NEW h \in HFSecrets, RotateSecret(h)
      PROVE  Others'
  <2>1. disturbed' \in 0..MaxDisturbances
    BY <1>3, Counting DEF RotateSecret
  <2>2. hfSecret' \in [HFSecrets -> Nat]
    BY <1>3 DEF RotateSecret, Others
  <2> QED BY <1>3, <2>1, <2>2 DEF RotateSecret, caches, Others
<1>4. ASSUME NEW h \in HFSecrets, SyncHFSecret(h)
      PROVE  Others'
  BY <1>4 DEF SyncHFSecret, stores, Others
<1>5. CASE AdvanceVersion
  <2>1. version' \in VersionState
    BY <1>5 DEF AdvanceVersion, Readiness!Advance, Readiness!Create, Readiness!Configure,
                VersionState
  <2> QED BY <1>5, <2>1 DEF AdvanceVersion, caches, Others
<1>6. CASE SyncVersion
  BY <1>6 DEF SyncVersion, stores, Others
<1>7. CASE Restart
  <2>1. disturbed' \in 0..MaxDisturbances
    BY <1>7, Counting DEF Restart
  <2> QED BY <1>7, <2>1 DEF Restart, stores, Others
<1> QED BY <1>1, <1>2, <1>3, <1>4, <1>5, <1>6, <1>7

LEMMA OthersStep == Others /\ [Next]_vars => Others'
<1>1. ASSUME Others, UNCHANGED vars
      PROVE  Others'
  BY <1>1 DEF vars, stores, caches, Others
<1> QED BY <1>1, OthersSecret, OthersJob, OthersWorld, OthersCaches DEF Next, ServiceStep

\* Whatever the specs of the services, a RayService is made and updated with values of the
\* types of its fields, and the jobs, caches and queues hold what they should.
THEOREM TypeCorrect == Spec => []TypeOK
<1>1. IInv /\ Whole /\ Others => TypeOK
  <2> SUFFICES ASSUME IInv, Whole, Others PROVE TypeOK
    OBVIOUS
  <2>1. ASSUME NEW r, IsRay(r), IsRaySpec(r.spec)
        PROVE  r \in RayObject
    BY <2>1 DEF IsRay, IsRaySpec, RayObject
  <2>2. \A s \in Services : ray[s] \in RayObject /\ raycache[s] \in RayObject
    BY <2>1 DEF IInv, Types, Whole
  <2>3. ray \in [Services -> RayObject] /\ raycache \in [Services -> RayObject]
    BY <2>2 DEF IInv, Types
  <2> QED BY <2>3 DEF IInv, Types, Others, TypeOK
<1>2. Spec => []Others
  BY OthersInit, OthersStep, PTL DEF Spec
<1>3. Spec => []Whole
  BY WholeInit, WholeStep, Inductive, PTL DEF Spec
<1> QED BY <1>1, <1>2, <1>3, Inductive, PTL

-----------------------------------------------------------------------------
(***************************************************************************)
(* What a reconciliation carries over.  A RayService that was made for a   *)
(* spec, or updated with it, gives the service what InEffect asks for, and *)
(* an update that has nothing to carry over changes nothing else that      *)
(* InEffect looks at.                                                      *)
(***************************************************************************)

\* All that InEffect looks at is the same.
AlikeGroups(q, r) ==
  /\ q.name = r.name /\ q.scale = r.scale /\ q.placement = r.placement
  /\ q.params = r.params /\ q.resources = r.resources /\ q.tokens = r.tokens

Alike(x, y) == /\ x.image = y.image /\ DOMAIN x.groups = DOMAIN y.groups
               /\ \A i \in DOMAIN x.groups : AlikeGroups(x.groups[i], y.groups[i])

\* What a group of a RayService owes the group g of a service.
GroupInEffect(g, hf, r) ==
  /\ r.scale = g.scale /\ r.placement = g.placement
  /\ \A p \in ParamNames : g.params[p] # "" => r.params[p] = g.params[p]
  /\ g.resources # "none" => r.resources = g.resources
  /\ hf # "none" => \E t \in DOMAIN r.tokens : r.tokens[t] = hf

LEMMA InEffectByGroup ==
  ASSUME NEW spec, NEW x
  PROVE  InEffect(spec, x) <=>
           /\ x.image = GetRayClusterImage(spec.image)
           /\ \A k \in DOMAIN spec.groups, i \in DOMAIN x.groups :
                spec.groups[k].name = x.groups[i].name =>
                  GroupInEffect(spec.groups[k], spec.hf, x.groups[i])
BY DEF InEffect, GroupInEffect

LEMMA AlikeServes ==
  ASSUME NEW x, NEW y, Alike(x, y), NEW spec
  PROVE  InEffect(spec, x) <=> InEffect(spec, y)
<1>1. ASSUME NEW g, NEW hf, NEW i \in DOMAIN x.groups
      PROVE  GroupInEffect(g, hf, x.groups[i]) <=> GroupInEffect(g, hf, y.groups[i])
  <2>1. AlikeGroups(x.groups[i], y.groups[i])
    BY DEF Alike
  <2> QED BY <2>1 DEF AlikeGroups, GroupInEffect
<1> QED BY <1>1, InEffectByGroup DEF Alike, AlikeGroups

LEMMA AlikeTransitive ==
  ASSUME NEW x, NEW y, NEW z, Alike(x, y), Alike(y, z)
  PROVE  Alike(x, z)
BY DEF Alike, AlikeGroups

LEMMA AlikeItself == \A x : Alike(x, x)
BY DEF Alike, AlikeGroups

\* The groups of a service have names of their own.
LEMMA GroupNames ==
  ASSUME NEW spec \in Specs, NEW k \in DOMAIN spec.groups
  PROVE  (CHOOSE i \in DOMAIN spec.groups : spec.groups[i].name = spec.groups[k].name) = k
<1>1. \A i \in DOMAIN spec.groups : spec.groups[i].name = spec.groups[k].name => i = k
  BY SpecAssumption
<1> QED BY <1>1

LEMMA MadeServes ==
  ASSUME NEW spec \in Specs, NEW order
  PROVE  InEffect(spec, GetRayClusterSpecConfig(spec, order))
<1> DEFINE image == GetRayClusterImage(spec.image)
           group(i) == GetDefaultWorkerGroupSpecConfig(spec.groups[i], image, spec.hf, order)
           groups == [i \in DOMAIN spec.groups |-> group(i)]
<1>1. GetRayClusterSpecConfig(spec, order) = [image |-> image, groups |-> groups]
  BY DEF GetRayClusterSpecConfig
<1> HIDE DEF image
<1>2. ASSUME NEW i \in DOMAIN spec.groups
      PROVE  /\ group(i).name = spec.groups[i].name
             /\ GroupInEffect(spec.groups[i], spec.hf, group(i))
  <2> DEFINE g == spec.groups[i]
             params == IF g.params # NoParams THEN g.params ELSE [NoParams EXCEPT !["block"] = "true"]
             tokens == IF spec.hf = "none" THEN <<>> ELSE <<spec.hf>>
  <2>1. /\ group(i).name = g.name /\ group(i).scale = g.scale
        /\ group(i).placement = g.placement /\ group(i).resources = g.resources
        /\ group(i).params = params /\ group(i).tokens = tokens
    BY DEF GetDefaultWorkerGroupSpecConfig
  <2>2. \A p \in ParamNames : g.params[p] # "" => params[p] = g.params[p]
    BY DEF NoParams
  <2>3. spec.hf # "none" => \E t \in DOMAIN tokens : tokens[t] = spec.hf
    <3>1. DOMAIN <<spec.hf>> = 1..1 /\ <<spec.hf>>[1] = spec.hf
      OBVIOUS
    <3> QED BY <3>1
  <2> HIDE DEF g, params, tokens
  <2> QED BY <2>1, <2>2, <2>3 DEF GroupInEffect, g
<1> HIDE DEF group
<1>3. ASSUME NEW k \in DOMAIN spec.groups, NEW i \in DOMAIN groups,
             spec.groups[k].name = groups[i].name
      PROVE  GroupInEffect(spec.groups[k], spec.hf, groups[i])
  <2>1. i = k
    BY <1>2, <1>3, SpecAssumption
  <2> QED BY <1>2, <2>1
<1> HIDE DEF groups
<1> QED BY <1>1, <1>3, InEffectByGroup DEF image

LEMMA TokenThere ==
  ASSUME NEW tokens, tokens \in Seq(HFSecrets), NEW hf \in HFSecrets, hf # "none"
  PROVE  LET set == SetWorkerGroupHFEnv(hf, tokens)
         IN \E t \in DOMAIN set : set[t] = hf
<1>1. CASE \E t \in DOMAIN tokens : tokens[t] = hf
  BY <1>1 DEF SetWorkerGroupHFEnv
<1>2. CASE ~\E t \in DOMAIN tokens : tokens[t] = hf
  <2> DEFINE set == Append(tokens, hf)
  <2>1. hf # "none" => SetWorkerGroupHFEnv(hf, tokens) = set
    BY <1>2 DEF SetWorkerGroupHFEnv
  <2>2. Len(tokens) + 1 \in DOMAIN set /\ set[Len(tokens) + 1] = hf
    OBVIOUS
  <2> HIDE DEF set
  <2> QED BY <1>2, <2>1, <2>2
<1> QED BY <1>1, <1>2

\* An update of a group that is matched gives what is owed; and where that was given
\* before, nothing of it changes.
LEMMA SetServes ==
  ASSUME NEW hf \in HFSecrets \cup {"none"}, NEW g, NEW group, IsWhole(group), NEW order
  PROVE  LET new == SetWorkerGroup(g, hf, group, order)
         IN /\ new.name = group.name /\ GroupInEffect(g, hf, new)
            /\ group \in RayGroup /\ GroupInEffect(g, hf, group) => AlikeGroups(group, new)
<1> DEFINE params == [p \in ParamNames |-> IF g.params[p] # "" THEN g.params[p] ELSE group.params[p]]
           accelerators == IF DOMAIN g.accelerators # {}
                           THEN ConfigResourceAccelerators(g, order) ELSE group.accelerators
           resources == IF g.resources # "none" THEN g.resources ELSE group.resources
           tokens == SetWorkerGroupHFEnv(hf, group.tokens)
           new == SetWorkerGroup(g, hf, group, order)
<1>1. /\ new.name = group.name /\ new.scale = g.scale /\ new.placement = g.placement
      /\ new.params = params /\ new.resources = resources /\ new.tokens = tokens
  <2>1. new = [group EXCEPT !.scale = g.scale, !.params = params,
                            !.accelerators = accelerators, !.placement = g.placement,
                            !.resources = resources, !.tokens = tokens]
    BY DEF SetWorkerGroup
  <2> HIDE DEF new, params, accelerators, resources, tokens
  <2> QED BY <2>1 DEF IsWhole
<1>2. hf # "none" => \E t \in DOMAIN tokens : tokens[t] = hf
  BY TokenThere DEF IsWhole
<1>3. \A p \in ParamNames : g.params[p] # "" => params[p] = g.params[p]
  OBVIOUS
<1>4. ASSUME group \in RayGroup, GroupInEffect(g, hf, group)
      PROVE  AlikeGroups(group, new)
  <2>1. group.params = [p \in ParamNames |-> group.params[p]]
    BY <1>4 DEF RayGroup
  <2>2. params = group.params
    BY <1>4, <2>1 DEF GroupInEffect
  <2>3. tokens = group.tokens
    BY <1>4 DEF GroupInEffect, SetWorkerGroupHFEnv
  <2>4. resources = group.resources
    BY <1>4 DEF GroupInEffect
  <2> HIDE DEF params, resources, tokens, new
  <2> QED BY <1>1, <1>4, <2>2, <2>3, <2>4 DEF GroupInEffect, AlikeGroups
<1>5. g.resources # "none" => resources = g.resources
  OBVIOUS
<1> HIDE DEF params, resources, tokens, new
<1> QED BY <1>1, <1>2, <1>3, <1>4, <1>5 DEF GroupInEffect, new

LEMMA UpdatedServes ==
  ASSUME NEW spec \in Specs, NEW group, IsWhole(group), NEW order
  PROVE  LET new == Updated(spec, group, order)
         IN /\ new.name = group.name
            /\ \A k \in DOMAIN spec.groups : spec.groups[k].name = group.name =>
                 GroupInEffect(spec.groups[k], spec.hf, new)
            /\ (group \in RayGroup /\ \A k \in DOMAIN spec.groups : spec.groups[k].name = group.name =>
                  GroupInEffect(spec.groups[k], spec.hf, group)) => AlikeGroups(group, new)
<1>1. CASE \E k \in DOMAIN spec.groups : spec.groups[k].name = group.name
  <2>1. PICK k \in DOMAIN spec.groups : spec.groups[k].name = group.name
    BY <1>1
  <2>2. \A i \in DOMAIN spec.groups : spec.groups[i].name = group.name => i = k
    BY <2>1, SpecAssumption
  <2>3. (CHOOSE i \in DOMAIN spec.groups : spec.groups[i].name = group.name) = k
    BY <2>1, GroupNames
  <2>4. Updated(spec, group, order) = SetWorkerGroup(spec.groups[k], spec.hf, group, order)
    BY <1>1, <2>3 DEF Updated
  <2>5. spec.hf \in HFSecrets \cup {"none"}
    BY SpecAssumption
  <2> DEFINE g == spec.groups[k]
             new == SetWorkerGroup(g, spec.hf, group, order)
  <2>6. /\ new.name = group.name /\ GroupInEffect(g, spec.hf, new)
        /\ group \in RayGroup /\ GroupInEffect(g, spec.hf, group) => AlikeGroups(group, new)
    BY <2>5, SetServes
  <2> HIDE DEF new
  <2> QED BY <2>1, <2>2, <2>4, <2>6 DEF new
<1>2. CASE ~\E k \in DOMAIN spec.groups : spec.groups[k].name = group.name
  BY <1>2 DEF Updated, AlikeGroups
<1> QED BY <1>1, <1>2

LEMMA UpdateServes ==
  ASSUME NEW spec \in Specs, NEW was, IsRaySpec(was), NEW order
  PROVE  LET new == UpdatedSpec(spec, was, order)
         IN /\ InEffect(spec, new)
            /\ InEffect(spec, was) => Alike(was, new)
<1> DEFINE image == GetRayClusterImage(spec.image)
           imaged(i) == IF i = 1 THEN [was.groups[i] EXCEPT !.image = image] ELSE was.groups[i]
           groups == [i \in DOMAIN was.groups |-> Updated(spec, imaged(i), order)]
           new == [image |-> image, groups |-> groups]
<1>1. UpdatedSpec(spec, was, order) = new
  BY UpdatedFields DEF IsRaySpec
<1> HIDE DEF image
<1>2. ASSUME NEW i \in DOMAIN was.groups
      PROVE  /\ IsWhole(imaged(i)) /\ AlikeGroups(was.groups[i], imaged(i))
             /\ was.groups[i] \in RayGroup /\ (image \in Text => imaged(i) \in RayGroup)
  <2>1. IsWhole(was.groups[i]) /\ was.groups[i] \in RayGroup
    BY DEF IsRaySpec, IsWholeSpec, RaySpecs
  <2>2. IsWhole(imaged(i)) /\ AlikeGroups(was.groups[i], imaged(i))
    BY <2>1, ImagedGroup DEF IsWhole, AlikeGroups
  <2>3. image \in Text => imaged(i) \in RayGroup
    BY <2>1 DEF RayGroup
  <2> QED BY <2>1, <2>2, <2>3
<1>3. image \in Text
  BY ImageType, TypedSpec DEF IsServiceSpec, image
<1> HIDE DEF imaged
<1>4. ASSUME NEW i \in DOMAIN was.groups
      PROVE  /\ groups[i].name = was.groups[i].name
             /\ \A k \in DOMAIN spec.groups : spec.groups[k].name = was.groups[i].name =>
                  GroupInEffect(spec.groups[k], spec.hf, groups[i])
             /\ (\A k \in DOMAIN spec.groups : spec.groups[k].name = was.groups[i].name =>
                   GroupInEffect(spec.groups[k], spec.hf, was.groups[i])) =>
                     AlikeGroups(was.groups[i], groups[i])
  <2> DEFINE g == imaged(i)
  <2>1. /\ IsWhole(g) /\ g \in RayGroup /\ AlikeGroups(was.groups[i], g) /\ g.name = was.groups[i].name
    BY <1>2, <1>3 DEF AlikeGroups
  <2>2. \A k : GroupInEffect(spec.groups[k], spec.hf, was.groups[i]) <=>
               GroupInEffect(spec.groups[k], spec.hf, g)
    BY <2>1 DEF AlikeGroups, GroupInEffect
  <2>3. groups[i] = Updated(spec, g, order)
    OBVIOUS
  <2> HIDE DEF g, groups
  <2>4. AlikeGroups(g, groups[i]) => AlikeGroups(was.groups[i], groups[i])
    BY <2>1 DEF AlikeGroups
  <2> QED BY <2>1, <2>2, <2>3, <2>4, UpdatedServes
<1>5. DOMAIN groups = DOMAIN was.groups
  OBVIOUS
<1> HIDE DEF groups
<1>6. InEffect(spec, new)
  BY <1>4, <1>5, InEffectByGroup DEF image
<1>7. ASSUME InEffect(spec, was)
      PROVE  Alike(was, new)
  <2>1. was.image = image /\ \A i \in DOMAIN was.groups : AlikeGroups(was.groups[i], groups[i])
    BY <1>4, <1>7, InEffectByGroup DEF image
  <2> QED BY <1>5, <2>1 DEF Alike
<1> HIDE DEF new
<1> QED BY <1>1, <1>6, <1>7

-----------------------------------------------------------------------------
(***************************************************************************)
(* The service is reported created only while its RayService runs with its *)
(* last spec (Runs).  The specs that a service goes through are in an      *)
(* order, before; the job, the cached service and the service are ever     *)
(* later in it, and the RayService serves some spec that is not later than *)
(* the one the controller works with.                                      *)
(*                                                                         *)
(* OnChange compares with a cached RayService, that may be one update      *)
(* behind.  When it finds nothing to do there, its spec is in effect in    *)
(* the RayService only if no spec between has taken it back; so much is    *)
(* asked of the edits (NotRestored).                                       *)
(***************************************************************************)

\* The edits go forth: when a spec is in effect before and after an edit that another came
\* between, it is in effect under that one as well.
Forward(before) ==
  /\ \A e \in Edits : e[1] \in Specs => e \in before
  /\ \A a, b, c \in Specs : (<<a, b>> \in before /\ <<b, c>> \in before) => <<a, c>> \in before
  /\ \A a, b, c \in Specs : (<<a, b>> \in before /\ <<b, c>> \in before) =>
       \A x, y \in RaySpecs :
         (InEffect(a, x) /\ InEffect(c, x) /\ InEffect(b, y)) => InEffect(c, y)

NotRestored == \E before \in SUBSET (Specs \X Specs) : Forward(before)

\* So it is when each service is edited once, as in service_in_one_namespace.
LEMMA OneEdit ==
  ASSUME NEW a \in Specs, NEW b \in Specs, a # b, Edits \subseteq ({NoSpec} \X Specs) \cup {<<a, b>>}
  PROVE  NotRestored
<1>1. NoSpec \notin Specs
  <2>1. NoSpec.groups = <<>>
    BY DEF NoSpec
  <2> QED BY <2>1, SpecAssumption
<1>2. \A c, d \in Specs : <<c, d>> \in {<<a, b>>} <=> c = a /\ d = b
  OBVIOUS
<1>3. \A e \in Edits : e[1] \in Specs => e = <<a, b>>
  BY <1>1
<1>4. Forward({<<a, b>>})
  BY <1>2, <1>3 DEF Forward
<1> QED BY <1>4 DEF NotRestored

Upto(before, a, b) == a \in Specs /\ b \in Specs /\ (a = b \/ <<a, b>> \in before)

\* The spec that a service whose cached copy is c and whose job is j is reconciled with.
Serving(c, j) == IF j.pc = "idle" THEN c.spec ELSE j.obj.spec

\* The service v, its cached copy c, its RayService r, the cached copy k of that, the job j,
\* the key s and the keys that are queued.  The copies are of earlier specs, or the same.
Line(before, v, c, r, j) ==
  /\ c.rv = v.rv => c.spec = v.spec
  /\ (j.pc # "idle" /\ j.obj.rv = v.rv) => j.obj.spec = v.spec
  /\ v.exists =>
       /\ v.spec \in Specs
       /\ (r.exists \/ j.pc # "idle") => c.exists
       /\ j.pc # "idle" => Upto(before, j.obj.spec, c.spec)
       /\ c.exists => Upto(before, c.spec, v.spec)

\* A job whose object is no longer the one in the cache has its key in the queue.
Held(c, j, s, keys) ==
  j.pc # "idle" =>
    /\ s \in keys \/ j.shared
    /\ (j.shared /\ j.pc # "claims") => c = j.obj
    /\ j.shared => c.spec = j.obj.spec

\* The RayService serves a spec a, and what its cached copy serves was earlier or is the same.
Tracked(before, r, k, a) ==
  /\ InEffect(a, r.spec)
  /\ k.exists => \/ Alike(k.spec, r.spec)
                 \/ \E b \in Specs : <<b, a>> \in before /\ InEffect(b, k.spec)

Tracks(before, v, c, r, k, j) ==
  /\ k.rv = r.rv => k.spec = r.spec
  /\ k.exists => r.exists \/ Gone(v)
  /\ (v.exists /\ r.exists) =>
       \E a \in Specs : Upto(before, a, Serving(c, j)) /\ Tracked(before, r, k, a)

\* Who says that the RayService was created means its last spec.
Carried(v, c, r, j, s, keys) ==
  v.exists =>
    /\ (j.pc = "condition" /\ j.cond = "true") => InEffect(j.obj.spec, r.spec)
    /\ (/\ j.pc = "idle" \/ (j.pc = "claims" /\ ~j.failed)
        /\ s \notin keys /\ c.exists /\ c.created = "true") => InEffect(c.spec, r.spec)

Runs(before, v, c, r, k, j, s, keys) ==
  /\ Line(before, v, c, r, j) /\ Held(c, j, s, keys)
  /\ Tracks(before, v, c, r, k, j) /\ Carried(v, c, r, j, s, keys)

\* What a step makes of Runs; first, the service is written.
LEMMA RunsWrite ==
  ASSUME NEW before, Forward(before), NEW v \in ServiceObject, NEW c \in ServiceObject,
         NEW r, NEW k, NEW j \in Job, NEW s, NEW keys, Runs(before, v, c, r, k, j, s, keys),
         c.rv <= v.rv, j.pc # "idle" => j.obj.rv <= v.rv,
         NEW w \in ServiceObject, w.rv = v.rv + 1,
         w.exists => v.exists /\ (w.spec = v.spec \/ <<v.spec, w.spec>> \in Edits)
  PROVE  Runs(before, w, c, r, k, j, s, keys)
<1>1. /\ v.rv \in Nat /\ c.rv \in Nat /\ c.rv # w.rv
      /\ j.pc # "idle" => j.obj.rv # w.rv
  <2>1. v.rv \in Nat /\ c.rv \in Nat /\ j.obj.rv \in Nat
    BY DEF ServiceObject, Job
  <2> QED BY <2>1
<1>2. ASSUME w.exists
      PROVE  /\ v.exists /\ v.spec \in Specs /\ w.spec \in Specs
             /\ w.spec = v.spec \/ <<v.spec, w.spec>> \in before
  <2>1. v.exists /\ v.spec \in Specs
    BY <1>2 DEF Runs, Line
  <2>2. <<v.spec, w.spec>> \in Edits => w.spec \in Specs /\ <<v.spec, w.spec>> \in before
    BY <2>1, SpecAssumption DEF Forward
  <2> QED BY <1>2, <2>1, <2>2
<1>3. ASSUME w.exists, c.exists
      PROVE  Upto(before, c.spec, w.spec)
  <2>1. Upto(before, c.spec, v.spec)
    BY <1>2, <1>3 DEF Runs, Line
  <2> QED BY <1>2, <1>3, <2>1 DEF Upto, Forward
<1>4. Line(before, w, c, r, j)
  BY <1>1, <1>2, <1>3 DEF Runs, Line
<1>5. Tracks(before, w, c, r, k, j)
  <2>1. Gone(v) => Gone(w)
    BY <1>1, <1>2 DEF Gone
  <2> QED BY <1>2, <2>1 DEF Runs, Tracks
<1>6. Carried(w, c, r, j, s, keys)
  BY <1>2 DEF Runs, Carried
<1> QED BY <1>4, <1>5, <1>6 DEF Runs

LEMMA RunsCreate ==
  ASSUME NEW before, NEW v \in ServiceObject, NEW c \in ServiceObject,
         NEW r, NEW k, NEW j \in Job, NEW s, NEW keys, Runs(before, v, c, r, k, j, s, keys),
         Safe(v, c, r, k, j), v.rv = 0,
         NEW w \in ServiceObject, w.rv = 1, w.spec \in Specs
  PROVE  Runs(before, w, c, r, k, j, s, keys)
<1>1. ~c.exists /\ ~r.exists /\ j.pc = "idle" /\ c.rv # w.rv
  <2>1. c.rv \in Nat
    BY DEF ServiceObject
  <2>2. ~c.exists /\ ~r.exists /\ j.pc = "idle" /\ c.rv <= v.rv
    BY DEF Safe, Older
  <2> QED BY <2>1, <2>2
<1>2. ~k.exists
  BY <1>1 DEF Runs, Tracks, Gone
<1>3. Line(before, w, c, r, j)
  BY <1>1 DEF Line
<1>4. Tracks(before, w, c, r, k, j)
  BY <1>1, <1>2 DEF Runs, Tracks
<1>5. Carried(w, c, r, j, s, keys)
  BY <1>1 DEF Carried
<1> QED BY <1>3, <1>4, <1>5 DEF Runs

LEMMA UptoTransitive ==
  ASSUME NEW before, Forward(before), NEW a, NEW b, NEW c,
         Upto(before, a, b), Upto(before, b, c)
  PROVE  Upto(before, a, c)
BY DEF Upto, Forward

\* The informers deliver.
LEMMA RunsSynced ==
  ASSUME NEW before, Forward(before), NEW v \in ServiceObject, NEW c \in ServiceObject,
         NEW r, NEW k, NEW j \in Job, NEW s, NEW keys, Runs(before, v, c, r, k, j, s, keys),
         NEW i \in Job, i.pc = j.pc, i.obj = j.obj, i.cond = j.cond, ~i.shared,
         NEW more, s \in more
  PROVE  Runs(before, v, v, r, k, i, s, more)
<1>1. Line(before, v, v, r, i)
  <2>1. ASSUME v.exists
        PROVE  /\ v.spec \in Specs /\ Upto(before, v.spec, v.spec)
               /\ i.pc # "idle" => Upto(before, i.obj.spec, v.spec)
    <3>1. v.spec \in Specs
      BY <2>1 DEF Runs, Line
    <3>2. i.pc # "idle" => Upto(before, i.obj.spec, c.spec) /\ Upto(before, c.spec, v.spec)
      BY <2>1 DEF Runs, Line
    <3>3. i.pc # "idle" => Upto(before, i.obj.spec, v.spec)
      BY <3>2, UptoTransitive
    <3> QED BY <3>1, <3>3 DEF Upto
  <2> QED BY <2>1 DEF Runs, Line
<1>2. Tracks(before, v, v, r, k, i)
  <2>1. ASSUME v.exists, r.exists
        PROVE  \E a \in Specs : Upto(before, a, Serving(v, i)) /\ Tracked(before, r, k, a)
    <3>1. PICK a \in Specs : Upto(before, a, Serving(c, j)) /\ Tracked(before, r, k, a)
      BY <2>1 DEF Runs, Tracks
    <3>2. Upto(before, c.spec, v.spec)
      BY <2>1 DEF Runs, Line
    <3>3. Upto(before, a, Serving(v, i))
      BY <3>1, <3>2, UptoTransitive DEF Serving
    <3> QED BY <3>1, <3>3
  <2> QED BY <2>1 DEF Runs, Tracks
<1>3. Carried(v, v, r, i, s, more) /\ Held(v, i, s, more)
  BY DEF Runs, Carried, Held
<1> QED BY <1>1, <1>2, <1>3 DEF Runs

LEMMA RunsRaySynced ==
  ASSUME NEW before, NEW v \in ServiceObject, NEW c \in ServiceObject,
         NEW r, NEW k, NEW j \in Job, NEW s, NEW keys, Runs(before, v, c, r, k, j, s, keys)
  PROVE  Runs(before, v, c, r, r, j, s, keys)
<1>1. \A a : Tracked(before, r, k, a) => Tracked(before, r, r, a)
  BY AlikeItself DEF Tracked
<1>2. Tracks(before, v, c, r, r, j)
  BY <1>1 DEF Runs, Tracks
<1> QED BY <1>2 DEF Runs

\* kuberay and the garbage collector leave the spec alone.
LEMMA RunsReported ==
  ASSUME NEW before, NEW v \in ServiceObject, NEW c \in ServiceObject,
         NEW r, IsRay(r), NEW k, IsRay(k), NEW j \in Job, NEW s, NEW keys,
         Runs(before, v, c, r, k, j, s, keys), k.rv <= r.rv,
         NEW w, w.rv = r.rv + 1, w.spec = r.spec, w.exists = r.exists \/ Gone(v)
  PROVE  Runs(before, v, c, w, k, j, s, keys)
<1>1. k.rv # w.rv
  <2>1. k.rv \in Nat /\ r.rv \in Nat
    BY RayTypes
  <2> QED BY <2>1
<1>2. v.exists => w.exists = r.exists
  BY DEF Gone
<1>3. \A a : Tracked(before, r, k, a) => Tracked(before, w, k, a)
  BY DEF Tracked
<1>4. Line(before, v, c, w, j)
  BY <1>2 DEF Runs, Line
<1>5. Tracks(before, v, c, w, k, j)
  BY <1>1, <1>2, <1>3 DEF Runs, Tracks
<1>6. Carried(v, c, w, j, s, keys)
  BY DEF Runs, Carried
<1> QED BY <1>4, <1>5, <1>6 DEF Runs

\* OnChange takes the key, and drops it when the service is not in the cache.
LEMMA RunsTaken ==
  ASSUME NEW before, NEW v \in ServiceObject, NEW c \in ServiceObject,
         NEW r, NEW k, NEW j \in Job, NEW s, NEW keys, Runs(before, v, c, r, k, j, s, keys),
         j.pc = "idle", NEW i \in Job,
         \/ ~c.exists /\ i = j
         \/ /\ c.exists /\ i.obj = c /\ i.shared /\ i.pc \notin {"idle", "claims"}
            /\ i.cond # "true",
         NEW fewer
  PROVE  Runs(before, v, c, r, k, i, s, fewer)
<1>1. CASE ~c.exists /\ i = j
  BY <1>1 DEF Runs, Held, Carried
<1>2. CASE /\ c.exists /\ i.obj = c /\ i.shared /\ i.pc \notin {"idle", "claims"}
           /\ i.cond # "true"
  <2>1. v.exists => Upto(before, c.spec, c.spec)
    BY <1>2 DEF Runs, Line, Upto
  <2>2. Line(before, v, c, r, i)
    BY <1>2, <2>1 DEF Runs, Line
  <2>3. Serving(c, i) = Serving(c, j)
    BY <1>2 DEF Serving
  <2>4. Tracks(before, v, c, r, k, i)
    BY <2>3 DEF Runs, Tracks
  <2>5. Held(c, i, s, fewer) /\ Carried(v, c, r, i, s, fewer)
    BY <1>2 DEF Held, Carried
  <2> QED BY <2>2, <2>4, <2>5 DEF Runs
<1> QED BY <1>1, <1>2

\* It goes on to another call, or to the condition with something that failed.
LEMMA RunsOn ==
  ASSUME NEW before, NEW v \in ServiceObject, NEW c \in ServiceObject,
         NEW r, NEW k, NEW j \in Job, NEW s, NEW keys, Runs(before, v, c, r, k, j, s, keys),
         j.pc \notin {"idle", "claims"},
         NEW i \in Job, i.pc \notin {"idle", "claims"}, i.obj = j.obj, i.shared = j.shared,
         i.pc = "condition" => i.cond # "true"
  PROVE  Runs(before, v, c, r, k, i, s, keys)
<1>1. Line(before, v, c, r, i) /\ Held(c, i, s, keys)
  BY DEF Runs, Line, Held
<1>2. Tracks(before, v, c, r, k, i)
  BY DEF Runs, Tracks, Serving
<1>3. Carried(v, c, r, i, s, keys)
  BY DEF Carried
<1> QED BY <1>1, <1>2, <1>3 DEF Runs

\* The RayService is created, or not.
LEMMA RunsMade ==
  ASSUME NEW before, NEW v \in ServiceObject, NEW c \in ServiceObject,
         NEW r, IsRay(r), NEW k, IsRay(k), NEW j \in Job, NEW s, NEW keys,
         Runs(before, v, c, r, k, j, s, keys), k.rv <= r.rv,
         j.pc = "rayService", ~k.exists,
         NEW i \in Job, i.pc = "condition", i.obj = j.obj, i.shared = j.shared,
         NEW w, w = r \/ (w.rv = r.rv + 1 /\ (v.exists => InEffect(j.obj.spec, w.spec))),
         (i.cond = "true" /\ v.exists) => InEffect(j.obj.spec, w.spec)
  PROVE  Runs(before, v, c, w, k, i, s, keys)
<1>1. CASE w = r
  <2>1. Line(before, v, c, r, i) /\ Held(c, i, s, keys)
    BY DEF Runs, Line, Held
  <2>2. Tracks(before, v, c, r, k, i)
    BY DEF Runs, Tracks, Serving
  <2>3. Carried(v, c, r, i, s, keys)
    BY <1>1 DEF Carried
  <2> QED BY <1>1, <2>1, <2>2, <2>3 DEF Runs
<1>2. CASE w.rv = r.rv + 1 /\ (v.exists => InEffect(j.obj.spec, w.spec))
  <2>1. k.rv # w.rv
    <3>1. k.rv \in Nat /\ r.rv \in Nat
      BY RayTypes
    <3> QED BY <1>2, <3>1
  <2>2. Line(before, v, c, w, i) /\ Held(c, i, s, keys)
    BY DEF Runs, Line, Held
  <2>3. ASSUME v.exists
        PROVE  j.obj.spec \in Specs /\ Upto(before, j.obj.spec, Serving(c, i))
    BY <2>3 DEF Runs, Line, Upto, Serving
  <2>4. v.exists => Tracked(before, w, k, j.obj.spec)
    BY <1>2 DEF Tracked
  <2>5. Tracks(before, v, c, w, k, i)
    BY <2>1, <2>3, <2>4 DEF Tracks
  <2>6. Carried(v, c, w, i, s, keys)
    BY DEF Carried
  <2> QED BY <2>2, <2>5, <2>6 DEF Runs
<1> QED BY <1>1, <1>2

\* In the cached RayService there is nothing to change.  If that is one update behind, the
\* update has not taken back what is in effect there.
LEMMA RunsSettled ==
  ASSUME NEW before, Forward(before), NEW v \in ServiceObject, NEW c \in ServiceObject,
         NEW r, IsRaySpec(r.spec), NEW k, IsRaySpec(k.spec), NEW j \in Job, NEW s, NEW keys,
         Runs(before, v, c, r, k, j, s, keys),
         j.pc = "rayService", k.exists, j.obj.spec \in Specs => InEffect(j.obj.spec, k.spec),
         NEW i \in Job, i.pc = "claims", i.obj = j.obj, i.shared = j.shared
  PROVE  Runs(before, v, c, r, k, i, s, keys)
<1>1. Line(before, v, c, r, i) /\ Held(c, i, s, keys)
  BY DEF Runs, Line, Held
<1>2. Tracks(before, v, c, r, k, i)
  BY DEF Runs, Tracks, Serving
<1>3. ASSUME v.exists, s \notin keys
      PROVE  InEffect(c.spec, r.spec)
  <2>1. r.exists
    BY <1>3 DEF Runs, Tracks, Gone
  <2>2. PICK a \in Specs : Upto(before, a, j.obj.spec) /\ Tracked(before, r, k, a)
    BY <1>3, <2>1 DEF Runs, Tracks, Serving
  <2>3. j.obj.spec \in Specs /\ InEffect(j.obj.spec, k.spec) /\ InEffect(a, r.spec)
    BY <2>2 DEF Upto, Tracked
  <2>4. InEffect(j.obj.spec, r.spec)
    <3>1. CASE Alike(k.spec, r.spec)
      BY <2>3, <3>1, AlikeServes
    <3>2. CASE a = j.obj.spec
      BY <2>3, <3>2
    <3>3. ASSUME NEW b \in Specs, <<b, a>> \in before, InEffect(b, k.spec),
                 <<a, j.obj.spec>> \in before
          PROVE  InEffect(j.obj.spec, r.spec)
      <4>1. k.spec \in RaySpecs /\ r.spec \in RaySpecs
        BY DEF IsRaySpec
      <4> QED BY <2>3, <3>3, <4>1 DEF Forward
    <3> QED BY <2>2, <3>1, <3>2, <3>3 DEF Upto, Tracked
  <2>5. c.spec = j.obj.spec
    BY <1>3 DEF Runs, Held
  <2> QED BY <2>4, <2>5
<1>4. Carried(v, c, r, i, s, keys)
  BY <1>3 DEF Carried
<1> QED BY <1>1, <1>2, <1>4 DEF Runs

\* The RayService is updated, or not; after an error the key is queued again.
LEMMA RunsUpdated ==
  ASSUME NEW before, NEW v \in ServiceObject, NEW c \in ServiceObject,
         NEW r, NEW k, NEW j \in Job, NEW s, NEW keys,
         Runs(before, v, c, r, k, j, s, keys), k.rv <= r.rv,
         j.pc = "rayService", k.exists,
         NEW i \in Job, i.pc = "claims", i.obj = j.obj, i.shared = j.shared,
         NEW w, \/ w = r /\ i.failed
                \/ /\ k.rv = r.rv /\ r.exists /\ w.exists /\ (w.rv = k.rv => w.spec = k.spec)
                   /\ j.obj.spec \in Specs =>
                        /\ InEffect(j.obj.spec, w.spec)
                        /\ InEffect(j.obj.spec, k.spec) => Alike(k.spec, w.spec)
  PROVE  Runs(before, v, c, w, k, i, s, keys)
<1>1. CASE w = r /\ i.failed
  <2>1. Line(before, v, c, r, i) /\ Held(c, i, s, keys)
    BY DEF Runs, Line, Held
  <2>2. Tracks(before, v, c, r, k, i)
    BY DEF Runs, Tracks, Serving
  <2>3. Carried(v, c, r, i, s, keys)
    BY <1>1 DEF Carried
  <2> QED BY <1>1, <2>1, <2>2, <2>3 DEF Runs
<1>2. CASE /\ k.rv = r.rv /\ r.exists /\ w.exists /\ (w.rv = k.rv => w.spec = k.spec)
           /\ j.obj.spec \in Specs =>
                /\ InEffect(j.obj.spec, w.spec)
                /\ InEffect(j.obj.spec, k.spec) => Alike(k.spec, w.spec)
  <2>1. Line(before, v, c, w, i) /\ Held(c, i, s, keys)
    BY <1>2 DEF Runs, Line, Held
  <2>2. ASSUME v.exists
        PROVE  /\ j.obj.spec \in Specs /\ Upto(before, j.obj.spec, Serving(c, i))
               /\ Tracked(before, w, k, j.obj.spec)
    <3>1. PICK a \in Specs : Upto(before, a, j.obj.spec) /\ Tracked(before, r, k, a)
      BY <1>2, <2>2 DEF Runs, Tracks, Serving
    <3>2. j.obj.spec \in Specs
      BY <3>1 DEF Upto
    <3>3. k.spec = r.spec
      BY <1>2 DEF Runs, Tracks
    <3>4. InEffect(a, k.spec)
      BY <3>1, <3>3 DEF Tracked
    <3>5. Alike(k.spec, w.spec) \/ <<a, j.obj.spec>> \in before
      BY <1>2, <3>1, <3>2, <3>4 DEF Upto
    <3> QED BY <1>2, <3>2, <3>4, <3>5 DEF Upto, Serving, Tracked
  <2>3. Tracks(before, v, c, w, k, i)
    <3>1. k.rv = w.rv => k.spec = w.spec
      BY <1>2
    <3> QED BY <1>2, <2>2, <3>1 DEF Tracks
  <2>4. Carried(v, c, w, i, s, keys)
    BY <1>2, <2>2 DEF Runs, Held, Carried
  <2> QED BY <2>1, <2>3, <2>4 DEF Runs
<1> QED BY <1>1, <1>2

\* The condition is as it should be, or is set on the cached service or a copy.  It is sent
\* by RunsWrite.
LEMMA RunsRecorded ==
  ASSUME NEW before, NEW v \in ServiceObject, NEW c \in ServiceObject,
         NEW r, NEW k, NEW j \in Job, NEW s, NEW keys,
         Runs(before, v, c, r, k, j, s, keys), j.pc = "condition",
         NEW i \in Job, i.pc = "claims", i.obj = j.obj, i.shared = j.shared,
         NEW d \in ServiceObject,
         \/ d = c /\ j.obj.created = j.cond
         \/ d = c /\ ~j.shared
         \/ /\ j.shared /\ d.created = j.cond
            /\ d.exists = j.obj.exists /\ d.rv = j.obj.rv /\ d.spec = j.obj.spec
  PROVE  Runs(before, v, d, r, k, i, s, keys)
<1>1. j.shared => c = j.obj
  BY DEF Runs, Held
<1>2. d.exists = c.exists /\ d.rv = c.rv /\ d.spec = c.spec
  BY <1>1
<1>3. Line(before, v, d, r, i) /\ Held(d, i, s, keys)
  BY <1>1, <1>2 DEF Runs, Line, Held
<1>4. Tracks(before, v, d, r, k, i)
  BY DEF Runs, Tracks, Serving
<1>5. (s \notin keys /\ d.created = "true") => j.cond = "true"
  BY <1>1 DEF Runs, Held
<1>6. Carried(v, d, r, i, s, keys)
  BY <1>1, <1>2, <1>5 DEF Runs, Held, Carried
<1> QED BY <1>3, <1>4, <1>6 DEF Runs

LEMMA RunsDone ==
  ASSUME NEW before, Forward(before), NEW v \in ServiceObject, NEW c \in ServiceObject,
         NEW r, NEW k, NEW j \in Job, NEW s, NEW keys,
         Runs(before, v, c, r, k, j, s, keys), j.pc = "claims",
         NEW i, i.pc = "idle", NEW again, (s \in keys \/ j.failed) => s \in again
  PROVE  Runs(before, v, c, r, k, i, s, again)
<1>1. Line(before, v, c, r, i) /\ Held(c, i, s, again)
  BY DEF Runs, Line, Held
<1>2. ASSUME v.exists, r.exists
      PROVE  \E a \in Specs : Upto(before, a, Serving(c, i)) /\ Tracked(before, r, k, a)
  <2>1. PICK a \in Specs : Upto(before, a, j.obj.spec) /\ Tracked(before, r, k, a)
    BY <1>2 DEF Runs, Tracks, Serving
  <2>2. Upto(before, j.obj.spec, c.spec)
    BY <1>2 DEF Runs, Line
  <2>3. Upto(before, a, c.spec)
    BY <2>1, <2>2, UptoTransitive
  <2> QED BY <2>1, <2>3 DEF Serving
<1>3. Tracks(before, v, c, r, k, i)
  BY <1>2 DEF Runs, Tracks
<1>4. Carried(v, c, r, i, s, again)
  BY DEF Runs, Carried
<1> QED BY <1>1, <1>3, <1>4 DEF Runs

LEMMA RunsRestarted ==
  ASSUME NEW before, Forward(before), NEW v \in ServiceObject, NEW c \in ServiceObject,
         NEW r, NEW k, NEW j \in Job, NEW s, NEW keys, Runs(before, v, c, r, k, j, s, keys),
         NEW i, i.pc = "idle", NEW again, v.exists => s \in again
  PROVE  Runs(before, v, v, r, r, i, s, again)
<1>1. v.exists => v.spec \in Specs /\ Upto(before, v.spec, v.spec)
  BY DEF Runs, Line, Upto
<1>2. Line(before, v, v, r, i) /\ Held(v, i, s, again)
  BY <1>1 DEF Line, Held
<1>3. ASSUME v.exists, r.exists
      PROVE  \E a \in Specs : Upto(before, a, Serving(v, i)) /\ Tracked(before, r, r, a)
  <2>1. PICK a \in Specs : Upto(before, a, Serving(c, j)) /\ Tracked(before, r, k, a)
    BY <1>3 DEF Runs, Tracks
  <2>2. Upto(before, c.spec, v.spec) /\ (j.pc # "idle" => Upto(before, j.obj.spec, c.spec))
    BY <1>3 DEF Runs, Line
  <2>3. Upto(before, a, c.spec)
    BY <2>1, <2>2, UptoTransitive DEF Serving
  <2>4. Upto(before, a, v.spec)
    BY <2>2, <2>3, UptoTransitive
  <2> QED BY <2>1, <2>4, AlikeItself DEF Serving, Tracked
<1>4. Tracks(before, v, v, r, r, i)
  BY <1>3 DEF Tracks
<1>5. Carried(v, v, r, i, s, again)
  BY DEF Carried
<1> QED BY <1>2, <1>4, <1>5 DEF Runs

-----------------------------------------------------------------------------
\* The steps keep Runs for every service.
RInv(before) == \A s \in Services :
  Runs(before, svc[s], scache[s], ray[s], raycache[s], job[s], s, queue)

LEMMA RunsMoved ==
  ASSUME NEW before, IInv, RInv(before), NEW s \in Services,
         NEW v, NEW c, NEW r, NEW k, NEW j,
         svc' = [svc EXCEPT ![s] = v], scache' = [scache EXCEPT ![s] = c],
         ray' = [ray EXCEPT ![s] = r], raycache' = [raycache EXCEPT ![s] = k],
         job' = [job EXCEPT ![s] = j], queue' \ {s} = queue \ {s},
         Runs(before, v, c, r, k, j, s, queue')
  PROVE  RInv(before)'
<1>1. ASSUME NEW t \in Services, t # s
      PROVE  /\ svc'[t] = svc[t] /\ scache'[t] = scache[t] /\ ray'[t] = ray[t]
             /\ raycache'[t] = raycache[t] /\ job'[t] = job[t] /\ (t \in queue' <=> t \in queue)
  BY <1>1 DEF IInv, Types
<1>2. /\ svc'[s] = v /\ scache'[s] = c /\ ray'[s] = r /\ raycache'[s] = k /\ job'[s] = j
  BY DEF IInv, Types
<1>3. ASSUME NEW t \in Services
      PROVE  Runs(before, svc'[t], scache'[t], ray'[t], raycache'[t], job'[t], t, queue')
  <2>1. CASE t = s
    BY <1>2, <2>1
  <2>2. CASE t # s
    <3>1. Runs(before, svc[t], scache[t], ray[t], raycache[t], job[t], t, queue)
      BY DEF RInv
    <3>2. Runs(before, svc[t], scache[t], ray[t], raycache[t], job[t], t, queue')
      BY <1>1, <2>2, <3>1 DEF Runs, Held, Carried
    <3> QED BY <1>1, <2>2, <3>2
  <2> QED BY <2>1, <2>2
<1> QED BY <1>3 DEF RInv

LEMMA RunsStay ==
  ASSUME NEW before, IInv, RInv(before), NEW s \in Services,
         NEW v, NEW c, NEW r, NEW k, NEW j,
         svc' = [svc EXCEPT ![s] = v], scache' = [scache EXCEPT ![s] = c],
         ray' = [ray EXCEPT ![s] = r], raycache' = [raycache EXCEPT ![s] = k],
         job' = [job EXCEPT ![s] = j], UNCHANGED queue,
         Runs(before, v, c, r, k, j, s, queue)
  PROVE  RInv(before)'
<1>1. queue' \ {s} = queue \ {s} /\ Runs(before, v, c, r, k, j, s, queue')
  OBVIOUS
<1> QED BY <1>1, RunsMoved

\* What is known of the service whose turn it is.
LEMMA RunsHere ==
  ASSUME NEW before, IInv, Whole, RInv(before), NEW s \in Services
  PROVE  /\ svc[s] \in ServiceObject /\ scache[s] \in ServiceObject /\ job[s] \in Job
         /\ IsRay(ray[s]) /\ IsRay(raycache[s])
         /\ IsRaySpec(ray[s].spec) /\ IsRaySpec(raycache[s].spec)
         /\ Safe(svc[s], scache[s], ray[s], raycache[s], job[s])
         /\ scache[s].rv <= svc[s].rv /\ raycache[s].rv <= ray[s].rv
         /\ job[s].pc # "idle" => job[s].obj.rv <= svc[s].rv
         /\ Runs(before, svc[s], scache[s], ray[s], raycache[s], job[s], s, queue)
<1>1. Safe(svc[s], scache[s], ray[s], raycache[s], job[s])
  BY Parts
<1> QED BY <1>1, Parts DEF Safe, Older, RInv, Whole

LEMMA RunsInit ==
  ASSUME NEW before, Init
  PROVE  RInv(before)
<1>1. ASSUME NEW s \in Services
      PROVE  Runs(before, svc[s], scache[s], ray[s], raycache[s], job[s], s, queue)
  <2>1. /\ svc[s] = NoService /\ scache[s] = NoService /\ ray[s] = NoRay
        /\ raycache[s] = NoRay /\ job[s] = Idle
    BY DEF Init
  <2> QED BY <2>1, First DEF Runs, Line, Held, Tracks, Carried
<1> QED BY <1>1 DEF RInv

LEMMA RunsUsers ==
  ASSUME NEW before, Forward(before), IInv, Whole, RInv(before), NEW s \in Services,
         CreateService(s) \/ EditService(s) \/ DeleteService(s)
  PROVE  RInv(before)'
<1> DEFINE v == svc[s]
<1>1. /\ UNCHANGED <<scache, ray, raycache, job, queue>>
  BY DEF CreateService, EditService, DeleteService, caches
<1>2. /\ scache' = [scache EXCEPT ![s] = scache[s]] /\ ray' = [ray EXCEPT ![s] = ray[s]]
      /\ raycache' = [raycache EXCEPT ![s] = raycache[s]] /\ job' = [job EXCEPT ![s] = job[s]]
  BY <1>1, Same
<1>3. v \in ServiceObject /\ v.rv \in Nat
  BY Parts DEF ServiceObject
<1>4. ASSUME NEW w, svc' = [svc EXCEPT ![s] = w],
             Runs(before, w, scache[s], ray[s], raycache[s], job[s], s, queue)
      PROVE  RInv(before)'
  <2>1. UNCHANGED queue
    BY <1>1
  <2> QED BY <1>2, <1>4, <2>1, RunsStay
<1>5. CASE CreateService(s)
  <2>1. PICK spec \in Specs :
          svc' = [svc EXCEPT ![s] = Changed(v, [NoService EXCEPT !.exists = TRUE, !.spec = spec])]
    BY <1>5 DEF CreateService
  <2> DEFINE new == [NoService EXCEPT !.exists = TRUE, !.spec = spec]
             w == Changed(v, new)
  <2>2. v.rv = 0
    BY <1>5 DEF CreateService
  <2>3. new \in ServiceObject /\ new.spec = spec
    BY DEF NoService, ServiceObject, Created
  <2> HIDE DEF new, v
  <2>4. w \in ServiceObject /\ w.rv = 1 /\ w.spec \in Specs
    BY <1>3, <2>2, <2>3 DEF Changed, ServiceObject
  <2> HIDE DEF w
  <2>5. Runs(before, w, scache[s], ray[s], raycache[s], job[s], s, queue)
    BY <2>2, <2>4, RunsHere, RunsCreate DEF v
  <2> QED BY <1>4, <2>1, <2>5 DEF w, new
<1>6. CASE EditService(s)
  <2>1. PICK spec \in Specs :
          /\ <<v.spec, spec>> \in Edits
          /\ svc' = [svc EXCEPT ![s] = Changed(v, [v EXCEPT !.spec = spec])]
    BY <1>6 DEF EditService
  <2> DEFINE w == Changed(v, [v EXCEPT !.spec = spec])
  <2>2. v.exists
    BY <1>6 DEF EditService
  <2> HIDE DEF v
  <2>3. w \in ServiceObject /\ w.rv = v.rv + 1 /\ w.spec = spec
    <3> DEFINE new == [v EXCEPT !.spec = spec]
    <3>1. new \in ServiceObject /\ new.spec = spec
      BY <1>3 DEF ServiceObject
    <3>2. w = [new EXCEPT !.rv = v.rv + 1]
      BY DEF Changed, w
    <3> HIDE DEF new
    <3>3. v.rv + 1 \in Nat
      BY <1>3
    <3> QED BY <3>1, <3>2, <3>3 DEF ServiceObject
  <2> HIDE DEF w
  <2>4. Runs(before, w, scache[s], ray[s], raycache[s], job[s], s, queue)
    BY <2>1, <2>2, <2>3, RunsHere, RunsWrite DEF v
  <2> QED BY <1>4, <2>1, <2>4 DEF w
<1>7. CASE DeleteService(s)
  <2> DEFINE w == Removed(v)
  <2>1. svc' = [svc EXCEPT ![s] = w]
    BY <1>7 DEF DeleteService
  <2> HIDE DEF v
  <2>2. w \in ServiceObject /\ w.rv = v.rv + 1 /\ ~w.exists
    BY <1>3, ServiceWrites
  <2> HIDE DEF w
  <2>3. Runs(before, w, scache[s], ray[s], raycache[s], job[s], s, queue)
    BY <2>2, RunsHere, RunsWrite DEF v
  <2> QED BY <1>4, <2>1, <2>3
<1> QED BY <1>5, <1>6, <1>7

LEMMA RunsKuberay ==
  ASSUME NEW before, IInv, Whole, RInv(before), NEW s \in Services,
         ReportStatus(s) \/ CollectRayService(s)
  PROVE  RInv(before)'
<1>1. /\ UNCHANGED <<svc, scache, raycache, job, queue>>
  BY DEF ReportStatus, CollectRayService, caches
<1>2. /\ svc' = [svc EXCEPT ![s] = svc[s]] /\ scache' = [scache EXCEPT ![s] = scache[s]]
      /\ raycache' = [raycache EXCEPT ![s] = raycache[s]] /\ job' = [job EXCEPT ![s] = job[s]]
  BY <1>1, Same
<1>3. IsRay(ray[s]) /\ ray[s].rv \in Nat
  BY RunsHere, RayTypes
<1>4. PICK w : /\ ray' = [ray EXCEPT ![s] = w]
               /\ w.rv = ray[s].rv + 1 /\ w.spec = ray[s].spec /\ (w.exists = ray[s].exists \/ Gone(svc[s]))
  <2>1. CASE ReportStatus(s)
    <3> DEFINE w == Changed(ray[s], [ray[s] EXCEPT !.status = @ + 1])
    <3>1. w.rv = ray[s].rv + 1 /\ w.spec = ray[s].spec /\ w.exists = ray[s].exists
      BY <1>3 DEF IsRay, Changed
    <3> QED BY <2>1, <3>1 DEF ReportStatus
  <2>2. CASE CollectRayService(s)
    <3> DEFINE w == Removed(ray[s])
    <3>1. w.rv = ray[s].rv + 1 /\ w.spec = ray[s].spec
      BY <1>3 DEF IsRay, Removed
    <3>2. Gone(svc[s])
      BY <2>2, RunsHere DEF CollectRayService, Safe, Gone
    <3> QED BY <2>2, <3>1, <3>2 DEF CollectRayService
  <2> QED BY <2>1, <2>2
<1>5. Runs(before, svc[s], scache[s], w, raycache[s], job[s], s, queue)
  <2>1. /\ svc[s] \in ServiceObject /\ scache[s] \in ServiceObject /\ job[s] \in Job
        /\ IsRay(ray[s]) /\ IsRay(raycache[s]) /\ raycache[s].rv <= ray[s].rv
        /\ Runs(before, svc[s], scache[s], ray[s], raycache[s], job[s], s, queue)
    BY RunsHere
  <2> QED BY <1>4, <2>1, RunsReported
<1>6. UNCHANGED queue
  BY <1>1
<1> QED BY <1>2, <1>4, <1>5, <1>6, RunsStay

LEMMA RunsInformers ==
  ASSUME NEW before, Forward(before), IInv, Whole, RInv(before), NEW s \in Services,
         SyncService(s) \/ SyncRayService(s)
  PROVE  RInv(before)'
<1>1. UNCHANGED <<svc, ray>>
  BY DEF SyncService, SyncRayService, stores
<1>2. /\ svc' = [svc EXCEPT ![s] = svc[s]] /\ ray' = [ray EXCEPT ![s] = ray[s]]
  BY <1>1, Same
<1>3. CASE SyncService(s)
  <2> DEFINE i == [job[s] EXCEPT !.shared = FALSE]
  <2>1. /\ i \in Job /\ i.pc = job[s].pc /\ i.obj = job[s].obj /\ i.cond = job[s].cond
        /\ ~i.shared
    BY RunsHere DEF Job
  <2>2. job' = [job EXCEPT ![s] = i] /\ scache' = [scache EXCEPT ![s] = svc[s]]
        /\ queue' = queue \cup {s} /\ UNCHANGED raycache
    BY <1>3 DEF SyncService
  <2>3. raycache' = [raycache EXCEPT ![s] = raycache[s]]
    BY <2>2, Same
  <2> HIDE DEF i
  <2>4. /\ svc[s] \in ServiceObject /\ scache[s] \in ServiceObject /\ job[s] \in Job
        /\ Runs(before, svc[s], scache[s], ray[s], raycache[s], job[s], s, queue)
    BY RunsHere
  <2>5. queue' \ {s} = queue \ {s} /\ s \in queue'
    BY <2>2
  <2>6. Runs(before, svc[s], svc[s], ray[s], raycache[s], i, s, queue')
    BY <2>1, <2>4, <2>5, RunsSynced
  <2> QED BY <1>2, <2>2, <2>3, <2>5, <2>6, RunsMoved
<1>4. CASE SyncRayService(s)
  <2>0. UNCHANGED <<scache, job>>
    BY <1>4 DEF SyncRayService
  <2>1. raycache' = [raycache EXCEPT ![s] = ray[s]]
    BY <1>4 DEF SyncRayService
  <2>2. UNCHANGED queue
    BY <1>4 DEF SyncRayService
  <2>3. scache' = [scache EXCEPT ![s] = scache[s]] /\ job' = [job EXCEPT ![s] = job[s]]
    BY <2>0, Same
  <2>4. Runs(before, svc[s], scache[s], ray[s], ray[s], job[s], s, queue)
    BY RunsHere, RunsRaySynced
  <2> QED BY <1>2, <2>1, <2>2, <2>3, <2>4, RunsStay
<1> QED BY <1>3, <1>4

\* A job goes on, and nothing else of the service changes.
Quiet(s) == /\ svc' = [svc EXCEPT ![s] = svc[s]] /\ scache' = [scache EXCEPT ![s] = scache[s]]
            /\ ray' = [ray EXCEPT ![s] = ray[s]]
            /\ raycache' = [raycache EXCEPT ![s] = raycache[s]]

LEMMA QuietHere ==
  ASSUME IInv, NEW s \in Services, UNCHANGED <<svc, scache, ray, raycache>>
  PROVE  Quiet(s)
BY Same DEF Quiet

LEMMA RunsGoOn ==
  ASSUME NEW before, IInv, Whole, RInv(before), NEW s \in Services, Quiet(s),
         NEW i, job' = [job EXCEPT ![s] = i], queue' \ {s} = queue \ {s},
         Runs(before, svc[s], scache[s], ray[s], raycache[s], i, s, queue')
  PROVE  RInv(before)'
BY RunsMoved DEF Quiet

LEMMA RunsOnChange ==
  ASSUME NEW before, IInv, Whole, RInv(before), NEW s \in Services, OnChange(s)
  PROVE  RInv(before)'
<1>1. UNCHANGED <<svc, scache, ray, raycache>>
  BY DEF OnChange, stores, caches
<1>2. job[s].pc = "idle" /\ queue' \ {s} = queue \ {s}
  BY DEF OnChange
<1> DEFINE next(pc, cond) == [pc |-> pc, obj |-> scache[s], shared |-> TRUE, cond |-> cond,
                              failed |-> FALSE]
<1>3. \/ ~scache[s].exists /\ UNCHANGED job
      \/ \E pc \in {"condition", "configMap"}, cond \in Created \ {"true"} :
           scache[s].exists /\ job' = [job EXCEPT ![s] = next(pc, cond)]
  <2>1. {"noVersion", "notConfigured", "unset"} \subseteq Created \ {"true"}
    BY DEF Created, Failures
  <2>2. \/ ~scache[s].exists /\ UNCHANGED job
        \/ /\ scache[s].exists
           /\ \/ job' = [job EXCEPT ![s] = next("condition", "noVersion")]
              \/ job' = [job EXCEPT ![s] = next("condition", "notConfigured")]
              \/ job' = [job EXCEPT ![s] = next("configMap", "unset")]
    BY DEF OnChange
  <2> HIDE DEF next
  <2> QED BY <2>1, <2>2
<1>4. PICK i : /\ job' = [job EXCEPT ![s] = i] /\ i \in Job
               /\ \/ ~scache[s].exists /\ i = job[s]
                  \/ /\ scache[s].exists /\ i.obj = scache[s] /\ i.shared
                     /\ i.pc \notin {"idle", "claims"} /\ i.cond # "true"
  <2>1. CASE ~scache[s].exists /\ UNCHANGED job
    BY <2>1, Same, RunsHere
  <2>2. ASSUME NEW pc \in {"condition", "configMap"}, NEW cond \in Created \ {"true"},
               scache[s].exists
        PROVE  LET i == next(pc, cond)
               IN /\ i \in Job /\ i.obj = scache[s] /\ i.shared
                  /\ i.pc \notin {"idle", "claims"} /\ i.cond # "true"
    <3>1. scache[s] \in ServiceObject
      BY RunsHere
    <3> QED BY <3>1 DEF Job
  <2> HIDE DEF next
  <2> QED BY <1>3, <2>1, <2>2
<1>5. Runs(before, svc[s], scache[s], ray[s], raycache[s], i, s, queue')
  <2>1. /\ svc[s] \in ServiceObject /\ scache[s] \in ServiceObject /\ job[s] \in Job
        /\ Runs(before, svc[s], scache[s], ray[s], raycache[s], job[s], s, queue)
    BY RunsHere
  <2> QED BY <1>2, <1>4, <2>1, RunsTaken
<1> QED BY <1>1, <1>2, <1>4, <1>5, QuietHere, RunsGoOn

\* What Goto and Report make of a job.
LEMMA NextJob ==
  ASSUME NEW j \in Job
  PROVE  /\ \A pc \in {"configMap", "secret", "rayService", "condition", "claims"} :
              LET i == [j EXCEPT !.pc = pc]
              IN i \in Job /\ i.pc = pc /\ i.obj = j.obj /\ i.shared = j.shared
                 /\ i.cond = j.cond /\ i.failed = j.failed
         /\ \A cond \in Created :
              LET i == [j EXCEPT !.pc = "condition", !.cond = cond]
              IN i \in Job /\ i.pc = "condition" /\ i.obj = j.obj /\ i.shared = j.shared
                 /\ i.cond = cond
         /\ \A failed \in BOOLEAN :
              LET i == [j EXCEPT !.pc = "claims", !.failed = failed]
              IN i \in Job /\ i.pc = "claims" /\ i.obj = j.obj /\ i.shared = j.shared
                 /\ i.failed = failed
BY DEF Job

LEMMA RunsResources ==
  ASSUME NEW before, IInv, Whole, RInv(before), NEW s \in Services,
         CreateModelConfigMap(s) \/ SyncClusterSecretsToLocalNS(s)
  PROVE  RInv(before)'
<1>1. UNCHANGED <<svc, scache, ray, raycache>> /\ queue' = queue
  BY DEF CreateModelConfigMap, SyncClusterSecretsToLocalNS, caches
<1>2. job[s].pc \in {"configMap", "secret"} /\ job[s] \in Job
  BY RunsHere DEF CreateModelConfigMap, SyncClusterSecretsToLocalNS
<1>3. \/ \E pc \in {"secret", "rayService"} : Goto(s, pc)
      \/ \E cond \in {"configMap", "secret"} : Report(s, cond)
  <2>1. AfterConfigMap(s) \in {"secret", "rayService"}
    BY DEF AfterConfigMap
  <2> QED BY <2>1 DEF CreateModelConfigMap, SyncClusterSecretsToLocalNS
<1>4. PICK i : /\ job' = [job EXCEPT ![s] = i] /\ i \in Job
               /\ i.pc \notin {"idle", "claims"} /\ i.obj = job[s].obj
               /\ i.shared = job[s].shared /\ (i.pc = "condition" => i.cond # "true")
  <2>1. ASSUME NEW pc \in {"secret", "rayService"}, Goto(s, pc)
        PROVE  \E i : /\ job' = [job EXCEPT ![s] = i] /\ i \in Job
                      /\ i.pc \notin {"idle", "claims"} /\ i.obj = job[s].obj
                      /\ i.shared = job[s].shared /\ (i.pc = "condition" => i.cond # "true")
    BY <1>2, <2>1, NextJob DEF Goto
  <2>2. ASSUME NEW cond \in {"configMap", "secret"}, Report(s, cond)
        PROVE  \E i : /\ job' = [job EXCEPT ![s] = i] /\ i \in Job
                      /\ i.pc \notin {"idle", "claims"} /\ i.obj = job[s].obj
                      /\ i.shared = job[s].shared /\ (i.pc = "condition" => i.cond # "true")
    <3>1. cond \in Created
      BY DEF Created, Failures
    <3> DEFINE i == [job[s] EXCEPT !.pc = "condition", !.cond = cond]
    <3>2. i \in Job /\ i.pc = "condition" /\ i.obj = job[s].obj /\ i.shared = job[s].shared
          /\ i.cond = cond
      BY <1>2, <3>1 DEF Job
    <3>3. job' = [job EXCEPT ![s] = i]
      BY <2>2 DEF Report
    <3> HIDE DEF i
    <3> QED BY <3>2, <3>3
  <2> QED BY <1>3, <2>1, <2>2
<1>5. Runs(before, svc[s], scache[s], ray[s], raycache[s], i, s, queue)
  <2>1. /\ svc[s] \in ServiceObject /\ scache[s] \in ServiceObject
        /\ Runs(before, svc[s], scache[s], ray[s], raycache[s], job[s], s, queue)
    BY RunsHere
  <2> QED BY <1>2, <1>4, <2>1, RunsOn
<1> QED BY <1>1, <1>4, <1>5, QuietHere, RunsGoOn

LEMMA RunsCreateRay ==
  ASSUME NEW before, IInv, Whole, RInv(before), NEW s \in Services, CreateRayService(s)
  PROVE  RInv(before)'
<1>0. /\ svc[s] \in ServiceObject /\ scache[s] \in ServiceObject /\ job[s] \in Job
      /\ IsRay(ray[s]) /\ IsRay(raycache[s]) /\ raycache[s].rv <= ray[s].rv
      /\ Runs(before, svc[s], scache[s], ray[s], raycache[s], job[s], s, queue)
  BY RunsHere
<1>1. job[s].pc = "rayService" /\ ~raycache[s].exists
  BY DEF CreateRayService
<1>2. UNCHANGED <<svc, scache, raycache>>
  BY DEF CreateRayService, caches
<1>3. queue' = queue
  BY DEF CreateRayService
<1>4. /\ svc' = [svc EXCEPT ![s] = svc[s]] /\ scache' = [scache EXCEPT ![s] = scache[s]]
      /\ raycache' = [raycache EXCEPT ![s] = raycache[s]]
  BY <1>2, Same
<1>5. PICK order \in Orders :
        LET made == GetRayClusterSpecConfig(job[s].obj.spec, order)
            new  == Changed(ray[s], [NoRay EXCEPT !.exists = TRUE, !.spec = made])
        IN \E ok \in BOOLEAN, kept \in {ray[s], new} :
             /\ ok => kept = new
             /\ ray' = [ray EXCEPT ![s] = kept] /\ Report(s, CreateOutcome(ok))
  BY DEF CreateRayService, Call
<1> DEFINE made == GetRayClusterSpecConfig(job[s].obj.spec, order)
           new  == Changed(ray[s], [NoRay EXCEPT !.exists = TRUE, !.spec = made])
<1>6. PICK ok \in BOOLEAN, w \in {ray[s], new} :
        /\ ok => w = new
        /\ ray' = [ray EXCEPT ![s] = w] /\ Report(s, CreateOutcome(ok))
  BY <1>5
<1>7. svc[s].exists => InEffect(job[s].obj.spec, made)
  <2>1. svc[s].exists => job[s].obj.spec \in Specs
    BY <1>0, <1>1 DEF Runs, Line, Upto
  <2> QED BY <2>1, MadeServes
<1> HIDE DEF made
<1>8. new.spec = made /\ new.rv = ray[s].rv + 1
  BY DEF Changed, NoRay
<1> HIDE DEF new
<1> DEFINE i == [job[s] EXCEPT !.pc = "condition", !.cond = CreateOutcome(ok)]
<1>9. CreateOutcome(ok) \in Created /\ (CreateOutcome(ok) = "true" => ok)
  BY DEF CreateOutcome, Created, Failures
<1>10. /\ i \in Job /\ i.pc = "condition" /\ i.obj = job[s].obj /\ i.shared = job[s].shared
       /\ i.cond = CreateOutcome(ok)
  BY <1>0, <1>9 DEF Job
<1>11. job' = [job EXCEPT ![s] = i] /\ ray' = [ray EXCEPT ![s] = w]
  BY <1>6 DEF Report
<1> HIDE DEF i
<1>12. Runs(before, svc[s], scache[s], w, raycache[s], i, s, queue)
  <2>1. w = ray[s] \/ (/\ w.rv = ray[s].rv + 1
                       /\ svc[s].exists => InEffect(job[s].obj.spec, w.spec))
    BY <1>6, <1>7, <1>8
  <2>2. (i.cond = "true" /\ svc[s].exists) => InEffect(job[s].obj.spec, w.spec)
    BY <1>6, <1>7, <1>8, <1>9, <1>10
  <2> QED BY <1>0, <1>1, <1>10, <2>1, <2>2, RunsMade
<1> QED BY <1>3, <1>4, <1>11, <1>12, RunsStay

LEMMA RunsUpdateRay ==
  ASSUME NEW before, Forward(before), IInv, Whole, RInv(before), NEW s \in Services,
         UpdateRayService(s)
  PROVE  RInv(before)'
<1>0. /\ svc[s] \in ServiceObject /\ scache[s] \in ServiceObject /\ job[s] \in Job
      /\ IsRay(ray[s]) /\ IsRay(raycache[s]) /\ raycache[s].rv <= ray[s].rv
      /\ IsRaySpec(ray[s].spec) /\ IsRaySpec(raycache[s].spec)
      /\ Runs(before, svc[s], scache[s], ray[s], raycache[s], job[s], s, queue)
  BY RunsHere
<1>1. job[s].pc = "rayService" /\ raycache[s].exists
  BY DEF UpdateRayService
<1>2. UNCHANGED <<svc, scache, raycache>>
  BY DEF UpdateRayService, caches
<1>3. queue' = queue
  BY DEF UpdateRayService
<1>4. /\ svc' = [svc EXCEPT ![s] = svc[s]] /\ scache' = [scache EXCEPT ![s] = scache[s]]
      /\ raycache' = [raycache EXCEPT ![s] = raycache[s]]
  BY <1>2, Same
<1>5. PICK order \in Orders :
        LET copy == [raycache[s] EXCEPT !.spec = UpdatedSpec(job[s].obj.spec, @, order)]
            new  == Stored(ray[s], copy)
        IN \/ /\ copy = raycache[s] /\ Goto(s, "claims")
              /\ UNCHANGED ray
           \/ \E ok \in BOOLEAN, kept \in {ray[s], new} :
                /\ Call(ray[s], new, Accepts(ray[s], copy), kept, ok)
                /\ ray' = [ray EXCEPT ![s] = kept]
                /\ job' = [job EXCEPT ![s].pc = "claims", ![s].failed = UpdateError(ok)]
  BY DEF UpdateRayService
<1> DEFINE spec == job[s].obj.spec
           made == UpdatedSpec(spec, raycache[s].spec, order)
           copy == [raycache[s] EXCEPT !.spec = made]
           new  == Stored(ray[s], copy)
<1>6. \/ copy = raycache[s] /\ Goto(s, "claims") /\ UNCHANGED ray
      \/ \E ok \in BOOLEAN, kept \in {ray[s], new} :
           /\ ~ok \/ (Accepts(ray[s], copy) /\ kept = new)
           /\ kept = ray[s] \/ (Accepts(ray[s], copy) /\ kept = new)
           /\ ray' = [ray EXCEPT ![s] = kept]
           /\ job' = [job EXCEPT ![s].pc = "claims", ![s].failed = ~ok]
  BY <1>5 DEF Call, UpdateError
<1>7. spec \in Specs => /\ InEffect(spec, made)
                        /\ InEffect(spec, raycache[s].spec) => Alike(raycache[s].spec, made)
  BY <1>0, UpdateServes
<1> HIDE DEF made, spec
<1>8. copy.spec = made /\ copy.exists = raycache[s].exists /\ copy.rv = raycache[s].rv
  BY <1>0 DEF IsRay
<1>9. new.spec = made /\ new.exists /\ (new = ray[s] \/ new.rv = ray[s].rv + 1)
  BY <1>0, <1>1, <1>8 DEF Stored, IsRay
<1> HIDE DEF new, copy
<1>10. CASE copy = raycache[s] /\ Goto(s, "claims") /\ UNCHANGED ray
  <2> DEFINE i == [job[s] EXCEPT !.pc = "claims"]
  <2>1. i \in Job /\ i.pc = "claims" /\ i.obj = job[s].obj /\ i.shared = job[s].shared
    BY <1>0 DEF Job
  <2>2. job' = [job EXCEPT ![s] = i]
    BY <1>10 DEF Goto
  <2> HIDE DEF i
  <2>3. spec \in Specs => InEffect(spec, raycache[s].spec)
    BY <1>7, <1>8, <1>10
  <2>4. Runs(before, svc[s], scache[s], ray[s], raycache[s], i, s, queue)
    BY <1>0, <1>1, <2>1, <2>3, RunsSettled DEF spec
  <2>5. ray' = [ray EXCEPT ![s] = ray[s]]
    BY <1>10, Same
  <2> QED BY <1>3, <1>4, <2>2, <2>4, <2>5, RunsStay
<1>11. ASSUME NEW ok \in BOOLEAN, NEW w \in {ray[s], new},
              ~ok \/ (Accepts(ray[s], copy) /\ w = new),
              w = ray[s] \/ (Accepts(ray[s], copy) /\ w = new),
              ray' = [ray EXCEPT ![s] = w],
              job' = [job EXCEPT ![s].pc = "claims", ![s].failed = ~ok]
       PROVE  RInv(before)'
  <2> DEFINE i == [job[s] EXCEPT !.pc = "claims", !.failed = ~ok]
  <2>1. /\ i \in Job /\ i.pc = "claims" /\ i.obj = job[s].obj /\ i.shared = job[s].shared
        /\ i.failed = ~ok
    BY <1>0 DEF Job
  <2>2. job' = [job EXCEPT ![s] = i]
    BY <1>11
  <2> HIDE DEF i
  <2>3. CASE w = ray[s] /\ ~ok
    <3>1. Runs(before, svc[s], scache[s], w, raycache[s], i, s, queue)
      BY <1>0, <1>1, <2>1, <2>3, RunsUpdated
    <3> QED BY <1>3, <1>4, <1>11, <2>2, <3>1, RunsStay
  <2>4. CASE Accepts(ray[s], copy) /\ w = new
    <3>1. raycache[s].rv = ray[s].rv /\ ray[s].exists /\ w.exists
      BY <1>8, <1>9, <2>4 DEF Accepts
    <3>2. w.rv = raycache[s].rv => w.spec = raycache[s].spec
      <4>1. ray[s].rv \in Nat
        BY <1>0, RayTypes
      <4>2. raycache[s].spec = ray[s].spec
        BY <1>0, <3>1 DEF Runs, Tracks
      <4> QED BY <1>9, <2>4, <3>1, <4>1, <4>2
    <3>3. spec \in Specs => /\ InEffect(spec, w.spec)
                            /\ InEffect(spec, raycache[s].spec) => Alike(raycache[s].spec, w.spec)
      BY <1>7, <1>9, <2>4
    <3>4. Runs(before, svc[s], scache[s], w, raycache[s], i, s, queue)
      BY <1>0, <1>1, <2>1, <3>1, <3>2, <3>3, RunsUpdated DEF spec
    <3> QED BY <1>3, <1>4, <1>11, <2>2, <3>4, RunsStay
  <2> QED BY <1>11, <2>3, <2>4
<1> QED BY <1>6, <1>10, <1>11

\* The cached service and the job have changed; then the service may be written.
LEMMA RunsSent ==
  ASSUME NEW before, Forward(before), NEW v \in ServiceObject, NEW c \in ServiceObject,
         NEW r, NEW k, NEW j \in Job, NEW s, NEW keys, Runs(before, v, c, r, k, j, s, keys),
         c.rv <= v.rv, j.pc # "idle" => j.obj.rv <= v.rv,
         NEW d \in ServiceObject, d.rv = v.rv => d.spec = v.spec,
         NEW w, w = v \/ (w = Stored(v, d) /\ Accepts(v, d))
  PROVE  Runs(before, w, c, r, k, j, s, keys)
<1>1. CASE w = v
  BY <1>1
<1>2. CASE w # v
  <2>1. w = [d EXCEPT !.rv = v.rv + 1] /\ v.exists /\ v.rv = d.rv
    BY <1>2 DEF Stored, Accepts
  <2>2. v.rv + 1 \in Nat
    BY DEF ServiceObject
  <2>3. w \in ServiceObject /\ w.rv = v.rv + 1 /\ w.spec = v.spec
    BY <2>1, <2>2 DEF ServiceObject
  <2> QED BY <2>1, <2>3, RunsWrite
<1> QED BY <1>1, <1>2

LEMMA RunsCondition ==
  ASSUME NEW before, Forward(before), IInv, Whole, RInv(before), NEW s \in Services,
         UpdateMLServiceCondition(s)
  PROVE  RInv(before)'
<1>0. /\ svc[s] \in ServiceObject /\ scache[s] \in ServiceObject /\ job[s] \in Job
      /\ scache[s].rv <= svc[s].rv /\ (job[s].pc # "idle" => job[s].obj.rv <= svc[s].rv)
      /\ Runs(before, svc[s], scache[s], ray[s], raycache[s], job[s], s, queue)
  BY RunsHere
<1>1. job[s].pc = "condition"
  BY DEF UpdateMLServiceCondition
<1>2. UNCHANGED <<ray, raycache>>
  BY DEF UpdateMLServiceCondition
<1>3. queue' = queue
  BY DEF UpdateMLServiceCondition
<1>4. ray' = [ray EXCEPT ![s] = ray[s]] /\ raycache' = [raycache EXCEPT ![s] = raycache[s]]
  BY <1>2, Same
<1> DEFINE copy == [job[s].obj EXCEPT !.created = job[s].cond]
<1>5. \/ job[s].obj.created = job[s].cond /\ Goto(s, "claims") /\ UNCHANGED <<svc, scache>>
      \/ /\ scache' = IF job[s].shared THEN [scache EXCEPT ![s] = copy] ELSE scache
         /\ \E ok \in BOOLEAN, w \in {svc[s], Stored(svc[s], copy)} :
              /\ Call(svc[s], Stored(svc[s], copy), Accepts(svc[s], copy), w, ok)
              /\ svc' = [svc EXCEPT ![s] = w]
              /\ job' = [job EXCEPT ![s].pc = "claims", ![s].failed = ~ok]
  BY DEF UpdateMLServiceCondition, StatusCopy
<1>6. CASE job[s].obj.created = job[s].cond /\ Goto(s, "claims") /\ UNCHANGED <<svc, scache>>
  <2> DEFINE i == [job[s] EXCEPT !.pc = "claims"]
  <2>1. i \in Job /\ i.pc = "claims" /\ i.obj = job[s].obj /\ i.shared = job[s].shared
    BY <1>0 DEF Job
  <2>2. job' = [job EXCEPT ![s] = i]
    BY <1>6 DEF Goto
  <2> HIDE DEF i
  <2>3. Runs(before, svc[s], scache[s], ray[s], raycache[s], i, s, queue)
    BY <1>0, <1>1, <1>6, <2>1, RunsRecorded
  <2>4. svc' = [svc EXCEPT ![s] = svc[s]] /\ scache' = [scache EXCEPT ![s] = scache[s]]
    BY <1>6, Same
  <2> QED BY <1>3, <1>4, <2>2, <2>3, <2>4, RunsStay
<1>7. ASSUME scache' = IF job[s].shared THEN [scache EXCEPT ![s] = copy] ELSE scache,
             NEW ok \in BOOLEAN, NEW w \in {svc[s], Stored(svc[s], copy)},
             Call(svc[s], Stored(svc[s], copy), Accepts(svc[s], copy), w, ok),
             svc' = [svc EXCEPT ![s] = w],
             job' = [job EXCEPT ![s].pc = "claims", ![s].failed = ~ok]
      PROVE  RInv(before)'
  <2> DEFINE i == [job[s] EXCEPT !.pc = "claims", !.failed = ~ok]
  <2>1. i \in Job /\ i.pc = "claims" /\ i.obj = job[s].obj /\ i.shared = job[s].shared
    BY <1>0 DEF Job
  <2>2. job' = [job EXCEPT ![s] = i]
    BY <1>7
  <2> HIDE DEF i
  <2>3. /\ copy \in ServiceObject /\ copy.exists = job[s].obj.exists
        /\ copy.rv = job[s].obj.rv /\ copy.spec = job[s].obj.spec /\ copy.created = job[s].cond
    <3>1. job[s].obj \in ServiceObject /\ job[s].cond \in Created
      BY <1>0 DEF Job
    <3> QED BY <3>1 DEF ServiceObject
  <2>4. w = svc[s] \/ (w = Stored(svc[s], copy) /\ Accepts(svc[s], copy))
    BY <1>7 DEF Call
  <2> HIDE DEF copy
  <2>5. PICK d : /\ scache' = [scache EXCEPT ![s] = d] /\ d \in ServiceObject
                 /\ (d = scache[s] /\ ~job[s].shared) \/ (d = copy /\ job[s].shared)
    <3>1. CASE job[s].shared
      BY <1>7, <2>3, <3>1
    <3>2. CASE ~job[s].shared
      <4>1. scache' = [scache EXCEPT ![s] = scache[s]]
        BY <1>7, <3>2, Same
      <4> QED BY <1>0, <3>2, <4>1
    <3> QED BY <3>1, <3>2
  <2>6. Runs(before, svc[s], d, ray[s], raycache[s], i, s, queue)
    BY <1>0, <1>1, <2>1, <2>3, <2>5, RunsRecorded
  <2>7. copy.rv = svc[s].rv => copy.spec = svc[s].spec
    BY <1>0, <1>1, <2>3 DEF Runs, Line
  <2>8. d.rv <= svc[s].rv /\ i.obj.rv <= svc[s].rv
    BY <1>0, <1>1, <2>1, <2>3, <2>5
  <2>9. Runs(before, w, d, ray[s], raycache[s], i, s, queue)
    BY <1>0, <2>1, <2>3, <2>4, <2>5, <2>6, <2>7, <2>8, RunsSent
  <2> QED BY <1>3, <1>4, <1>7, <2>2, <2>5, <2>9, RunsStay
<1> HIDE DEF copy
<1> QED BY <1>5, <1>6, <1>7

LEMMA RunsClaims ==
  ASSUME NEW before, Forward(before), IInv, Whole, RInv(before), NEW s \in Services,
         CreateMLServicePVCs(s)
  PROVE  RInv(before)'
<1>1. /\ svc[s] \in ServiceObject /\ scache[s] \in ServiceObject /\ job[s] \in Job
      /\ Runs(before, svc[s], scache[s], ray[s], raycache[s], job[s], s, queue)
  BY RunsHere
<1>2. UNCHANGED <<svc, scache, ray, raycache>>
  BY DEF CreateMLServicePVCs, stores, caches
<1>3. /\ job[s].pc = "claims" /\ job' = [job EXCEPT ![s] = Idle] /\ queue' \ {s} = queue \ {s}
      /\ (s \in queue \/ job[s].failed) => s \in queue'
  BY DEF CreateMLServicePVCs
<1>4. Runs(before, svc[s], scache[s], ray[s], raycache[s], Idle, s, queue')
  BY <1>1, <1>3, First, RunsDone
<1> QED BY <1>2, <1>3, <1>4, QuietHere, RunsGoOn

LEMMA RunsStatus ==
  ASSUME NEW before, Forward(before), IInv, Whole, RInv(before), NEW s \in Services,
         SyncRayServiceStatus(s)
  PROVE  RInv(before)'
<1>0. /\ svc[s] \in ServiceObject /\ scache[s] \in ServiceObject /\ job[s] \in Job
      /\ IsRay(raycache[s])
      /\ scache[s].rv <= svc[s].rv /\ (job[s].pc # "idle" => job[s].obj.rv <= svc[s].rv)
      /\ Runs(before, svc[s], scache[s], ray[s], raycache[s], job[s], s, queue)
  BY RunsHere
<1>1. UNCHANGED <<scache, ray, raycache, job>>
  BY DEF SyncRayServiceStatus, caches
<1>2. queue' = queue
  BY DEF SyncRayServiceStatus
<1>3. /\ scache' = [scache EXCEPT ![s] = scache[s]] /\ ray' = [ray EXCEPT ![s] = ray[s]]
      /\ raycache' = [raycache EXCEPT ![s] = raycache[s]] /\ job' = [job EXCEPT ![s] = job[s]]
  BY <1>1, Same
<1> DEFINE st == raycache[s].status
           run == Reports[st] \in Running
           ready == IF run THEN "true" ELSE "false"
           pending == scache[s].pending \/ ~run
           copy == [scache[s] EXCEPT !.status = st, !.ready = ready, !.pending = pending]
<1>4. \/ UNCHANGED svc
      \/ \E ok \in BOOLEAN, w \in {svc[s], Stored(svc[s], copy)} :
           Call(svc[s], Stored(svc[s], copy), Accepts(svc[s], copy), w, ok)
             /\ svc' = [svc EXCEPT ![s] = w]
  BY DEF SyncRayServiceStatus
<1>5. copy \in ServiceObject /\ copy.rv = scache[s].rv /\ copy.spec = scache[s].spec
  <2>1. /\ st \in Nat /\ ready \in {"unset", "true", "false"} /\ pending \in BOOLEAN
    BY <1>0 DEF IsRay
  <2> HIDE DEF st, ready, pending
  <2> QED BY <1>0, <2>1 DEF ServiceObject
<1> HIDE DEF copy
<1>6. PICK w : /\ svc' = [svc EXCEPT ![s] = w]
               /\ w = svc[s] \/ (w = Stored(svc[s], copy) /\ Accepts(svc[s], copy))
  <2>1. CASE UNCHANGED svc
    BY <2>1, Same
  <2>2. CASE ~UNCHANGED svc
    BY <1>4, <2>2 DEF Call
  <2> QED BY <2>1, <2>2
<1>7. copy.rv = svc[s].rv => copy.spec = svc[s].spec
  BY <1>0, <1>5 DEF Runs, Line
<1>8. Runs(before, w, scache[s], ray[s], raycache[s], job[s], s, queue)
  BY <1>0, <1>5, <1>6, <1>7, RunsSent
<1> QED BY <1>2, <1>3, <1>6, <1>8, RunsStay

LEMMA RunsRestart ==
  ASSUME NEW before, Forward(before), IInv, Whole, RInv(before), Restart
  PROVE  RInv(before)'
<1>1. /\ UNCHANGED <<svc, ray>> /\ scache' = svc /\ raycache' = ray
      /\ job' = [s \in Services |-> Idle] /\ queue' = {s \in Services : svc[s].exists}
  BY DEF Restart, stores
<1>2. ASSUME NEW s \in Services
      PROVE  Runs(before, svc'[s], scache'[s], ray'[s], raycache'[s], job'[s], s, queue')
  <2>1. /\ svc[s] \in ServiceObject /\ scache[s] \in ServiceObject /\ job[s] \in Job
        /\ Runs(before, svc[s], scache[s], ray[s], raycache[s], job[s], s, queue)
    BY RunsHere
  <2>2. Runs(before, svc[s], svc[s], ray[s], ray[s], Idle, s, queue')
    BY <1>1, <2>1, First, RunsRestarted
  <2>3. /\ svc'[s] = svc[s] /\ scache'[s] = svc[s] /\ ray'[s] = ray[s] /\ raycache'[s] = ray[s]
        /\ job'[s] = Idle
    BY <1>1
  <2> QED BY <2>2, <2>3
<1> QED BY <1>2 DEF RInv

LEMMA RunsStep ==
  ASSUME NEW before, Forward(before), IInv, Whole, RInv(before), [Next]_vars
  PROVE  RInv(before)'
<1>1. ASSUME UNCHANGED <<svc, scache, ray, raycache, job, queue>>
      PROVE  RInv(before)'
  BY <1>1 DEF RInv
<1>2. CASE UNCHANGED vars
  BY <1>1, <1>2 DEF vars, stores, caches
<1>3. ASSUME \/ \E n \in Namespaces : SyncConfigMap(n) \/ \E h \in HFSecrets : SyncSecret(n, h)
             \/ \E h \in HFSecrets : RotateSecret(h) \/ SyncHFSecret(h)
             \/ AdvanceVersion \/ SyncVersion
      PROVE  RInv(before)'
  BY <1>1, <1>3 DEF SyncConfigMap, SyncSecret, RotateSecret, SyncHFSecret, AdvanceVersion,
       SyncVersion, stores, caches
<1>4. ASSUME NEW s \in Services, ServiceStep(s)
      PROVE  RInv(before)'
  BY <1>4, RunsResources, RunsCreateRay, RunsUpdateRay, RunsCondition, RunsClaims DEF ServiceStep
<1>5. ASSUME NEW s \in Services,
             \/ CreateService(s) \/ EditService(s) \/ DeleteService(s)
             \/ ReportStatus(s) \/ CollectRayService(s)
             \/ SyncService(s) \/ SyncRayService(s)
             \/ OnChange(s) \/ SyncRayServiceStatus(s)
      PROVE  RInv(before)'
  BY <1>5, RunsUsers, RunsKuberay, RunsInformers, RunsOnChange, RunsStatus
<1> QED BY <1>2, <1>3, <1>4, <1>5, RunsRestart DEF Next

\* A service that is reported created runs with its last spec when OnChange is done, for any
\* services and workers, through every conflict, lost call and restart, unless an edit takes
\* a service back to what an earlier spec asked for.
THEOREM CreatedRuns == ASSUME NotRestored PROVE Spec => []CreatedRunsLastSpec
<1>1. PICK before \in SUBSET (Specs \X Specs) : Forward(before)
  BY DEF NotRestored
<1>2. RInv(before) => CreatedRunsLastSpec
  <2> SUFFICES ASSUME RInv(before), AtRest, NEW s \in Services,
                      svc[s].exists, svc[s].created = "true"
               PROVE  InEffect(svc[s].spec, ray[s].spec)
    BY DEF CreatedRunsLastSpec
  <2>1. Carried(svc[s], scache[s], ray[s], job[s], s, queue)
    BY DEF RInv, Runs
  <2> QED BY <2>1 DEF AtRest, Carried
<1>3. Spec => []Whole
  BY WholeInit, WholeStep, Inductive, PTL DEF Spec
<1>4. Init => RInv(before)
  BY RunsInit
<1>5. IInv /\ Whole /\ RInv(before) /\ [Next]_vars => RInv(before)'
  BY <1>1, RunsStep
<1> QED BY <1>2, <1>3, <1>4, <1>5, Inductive, PTL DEF Spec

-----------------------------------------------------------------------------
(***************************************************************************)
(* What a service shows of its RayService.                                 *)
(***************************************************************************)

\* A service whose RayService is neither queued nor newer than its cached copy shows its
\* status, or the RayService went back to what it had reported before.
StatusAtRest ==
  \A s \in Services :
    (s \notin rayqueue /\ raycache[s] = ray[s] /\ svc[s].exists /\ ray[s].exists)
      => Shown(s) \/ WentBack(s)

\* A service that shows the n-th report shows the m-th as well, or an earlier one was equal.
Covers(n, m) == \E i \in 0..n : Reports[i] = Reports[m]

\* For the service v, its cached copy c, the cached RayService k, the job j and the keys
\* in the queue of RayServices: no copy of the service is ahead of it, and the status of
\* the cached RayService is recorded, was seen before or will be looked at.
Shows(v, c, k, j, s, keys) ==
  v.exists => /\ c.status <= v.status
              /\ j.pc # "idle" => j.obj.status <= v.status
              /\ s \in keys \/ ~k.exists \/ Covers(v.status, k.status)

PInv == \A s \in Services : Shows(svc[s], scache[s], raycache[s], job[s], s, rayqueue)

\* What a step may do to a service as far as Shows goes.
Appears(s) == svc'[s].exists => svc[s].exists \/ svc[s].rv = 0
Copies(s) ==
  \/ scache'[s].status = scache[s].status
  \/ scache'[s] = svc'[s]
  \/ job[s].pc # "idle" /\ scache'[s].status = job[s].obj.status
Holds(s) ==
  job'[s].pc # "idle" => \/ job[s].pc # "idle" /\ job'[s].obj = job[s].obj
                         \/ job'[s].obj = scache[s]
Looks(s) ==
  \/ s \in rayqueue' \/ ~raycache'[s].exists
  \/ /\ raycache'[s] = raycache[s]
     /\ \/ s \notin rayqueue
        \/ /\ svc'[s] = svc[s] /\ scache[s].exists
           /\ Reports[scache[s].status] = Reports[raycache[s].status]
        \/ svc'[s].status = raycache[s].status

LEMMA ShowsInit ==
  ASSUME Init
  PROVE  PInv
<1>1. ASSUME NEW s \in Services
      PROVE  ~svc[s].exists
  BY DEF Init, NoService
<1> QED BY <1>1 DEF PInv, Shows

LEMMA ShowsNext ==
  ASSUME IInv, IInv', Kept, PInv, NEW s \in Services,
         Appears(s), Copies(s), Holds(s), Looks(s)
  PROVE  Shows(svc[s], scache[s], raycache[s], job[s], s, rayqueue)'
<1>0. PICK v \in ServiceObject, c \in ServiceObject, j \in Job :
        v = svc[s] /\ c = scache[s] /\ j = job[s]
  BY Parts
<1>1. PICK r, k :
        /\ v = svc[s] /\ c = scache[s] /\ j = job[s] /\ r = ray[s] /\ k = raycache[s]
        /\ IsRay(r) /\ IsRay(k) /\ Safe(v, c, r, k, j)
  BY <1>0, Parts
<1>2. PICK w, d, i, q, l :
        /\ w \in ServiceObject /\ d \in ServiceObject /\ i \in Job
        /\ w = svc'[s] /\ d = scache'[s] /\ i = job'[s] /\ q = ray'[s] /\ l = raycache'[s]
        /\ IsRay(q) /\ IsRay(l) /\ Safe(w, d, q, l, i)
  <2>1. /\ svc'[s] \in ServiceObject /\ scache'[s] \in ServiceObject /\ job'[s] \in Job
        /\ IsRay(ray'[s]) /\ IsRay(raycache'[s])
        /\ Safe(svc'[s], scache'[s], ray'[s], raycache'[s], job'[s])
    BY DEF IInv, Types, ServiceSafe, IsRay
  <2> QED BY <2>1
<1>3. SUFFICES ASSUME w.exists
               PROVE  /\ d.status <= w.status
                      /\ i.pc # "idle" => i.obj.status <= w.status
                      /\ s \in rayqueue' \/ ~l.exists \/ Covers(w.status, l.status)
  BY <1>2 DEF Shows
<1>4. /\ v.rv \in Nat /\ v.status \in Nat /\ c.rv \in Nat /\ c.status \in Nat
      /\ w.status \in Nat /\ d.status \in Nat /\ k.rv \in Nat /\ k.status \in Nat
      /\ r.rv \in Nat /\ r.status \in Nat /\ l.status \in Nat
      /\ j.obj \in ServiceObject /\ j.obj.status \in Nat
  BY <1>1, <1>2, SafeTypes, JobTypes, ServiceTypes
<1>5. ASSUME NEW n \in Nat, NEW m, n <= w.status, Covers(n, m)
      PROVE  Covers(w.status, m)
  BY <1>4, <1>5 DEF Covers
<1>6. CASE v.exists
  <2>1. /\ c.status <= v.status /\ v.status <= w.status
        /\ j.pc # "idle" => j.obj.status <= v.status
        /\ s \in rayqueue \/ ~k.exists \/ Covers(v.status, k.status)
    BY <1>1, <1>2, <1>3, <1>6 DEF PInv, Shows, Kept
  <2>2. d.status <= w.status
    BY <1>1, <1>2, <1>4, <2>1 DEF Copies
  <2>3. i.pc # "idle" => i.obj.status <= w.status
    BY <1>1, <1>2, <1>4, <2>1 DEF Holds
  <2>4. s \in rayqueue' \/ ~l.exists \/ Covers(w.status, l.status)
    <3>1. CASE s \in rayqueue' \/ ~l.exists
      BY <3>1
    <3>2. CASE l = k /\ s \notin rayqueue
      BY <1>4, <1>5, <2>1, <3>2
    <3>3. CASE l = k /\ Reports[c.status] = Reports[k.status]
      <4>1. Covers(c.status, k.status) /\ c.status <= w.status
        BY <1>4, <2>1, <3>3 DEF Covers
      <4> QED BY <1>4, <1>5, <3>3, <4>1
    <3>4. CASE l = k /\ w.status = k.status
      BY <1>4, <3>4 DEF Covers
    <3> QED BY <1>1, <1>2, <3>1, <3>2, <3>3, <3>4 DEF Looks
  <2> QED BY <2>2, <2>3, <2>4
<1>7. CASE ~v.exists
  <2>1. v.rv = 0
    BY <1>1, <1>2, <1>3, <1>7 DEF Appears
  <2>2. /\ ~r.exists /\ j.pc = "idle" /\ ~c.exists /\ r.status = 0
        /\ k.status = 0 /\ v.status = 0 /\ c.status = 0
    BY <1>1, <1>4, <2>1 DEF Safe, Gone, Older
  <2>3. d.status <= w.status
    BY <1>1, <1>2, <1>4, <2>2 DEF Copies
  <2>4. i.pc # "idle" => i.obj.status <= w.status
    BY <1>1, <1>2, <1>4, <2>2 DEF Holds
  <2>5. s \in rayqueue' \/ ~l.exists \/ Covers(w.status, l.status)
    <3>1. l.status = 0 \/ w.status = l.status \/ s \in rayqueue' \/ ~l.exists
      BY <1>1, <1>2, <2>2 DEF Looks
    <3>2. 0 \in 0..w.status /\ w.status \in 0..w.status
      BY <1>4
    <3> QED BY <3>1, <3>2 DEF Covers
  <2> QED BY <2>3, <2>4, <2>5
<1> QED BY <1>6, <1>7

-----------------------------------------------------------------------------
\* The steps.

Goes(s) == Appears(s) /\ Copies(s) /\ Holds(s) /\ Looks(s)

LEMMA GoesStill ==
  ASSUME NEW s, svc'[s] = svc[s], scache'[s] = scache[s], job'[s] = job[s],
         raycache'[s] = raycache[s], s \in rayqueue => s \in rayqueue'
  PROVE  Goes(s)
BY DEF Goes, Appears, Copies, Holds, Looks

\* Steps that leave caches and queues alone: users and kuberay.
LEMMA GoesWorld ==
  ASSUME IInv, NEW s \in Services, NEW t \in Services,
         CreateService(s) \/ EditService(s) \/ DeleteService(s)
           \/ ReportStatus(s) \/ CollectRayService(s)
  PROVE  Goes(t)
<1>1. UNCHANGED <<scache, raycache, rayqueue, job>>
  BY DEF CreateService, EditService, DeleteService, ReportStatus, CollectRayService, caches
<1>2. Appears(t)
  <2>1. CASE ReportStatus(s) \/ CollectRayService(s)
    BY <2>1 DEF ReportStatus, CollectRayService, Appears
  <2>2. CASE CreateService(s) \/ EditService(s) \/ DeleteService(s)
    <3>1. /\ svc[s].exists \/ svc[s].rv = 0
          /\ \E w : svc' = [svc EXCEPT ![s] = w]
      BY <2>2 DEF CreateService, EditService, DeleteService
    <3>2. t # s => svc'[t] = svc[t]
      BY <3>1 DEF IInv, Types
    <3> QED BY <3>1, <3>2 DEF Appears
  <2> QED BY <2>1, <2>2
<1> QED BY <1>1, <1>2 DEF Goes, Copies, Holds, Looks

LEMMA GoesInformers ==
  ASSUME IInv, NEW s \in Services, NEW t \in Services, SyncService(s) \/ SyncRayService(s)
  PROVE  Goes(t)
<1>1. CASE SyncService(s)
  <2>1. /\ UNCHANGED <<svc, raycache, rayqueue>> /\ scache' = [scache EXCEPT ![s] = svc[s]]
        /\ job' = [job EXCEPT ![s].shared = FALSE]
    BY <1>1 DEF SyncService, stores
  <2>2. \/ scache'[t] = scache[t]
        \/ scache'[t] = svc'[t]
    BY <2>1 DEF IInv, Types
  <2>3. job'[t].pc = job[t].pc /\ job'[t].obj = job[t].obj
    <3>1. PICK j \in Job : j = job[s]
      BY Parts
    <3>2. job' = [job EXCEPT ![s] = [j EXCEPT !.shared = FALSE]]
      BY <2>1, <3>1
    <3>3. [j EXCEPT !.shared = FALSE].pc = j.pc /\ [j EXCEPT !.shared = FALSE].obj = j.obj
      BY DEF Job
    <3>4. job'[t] = IF t = s THEN [j EXCEPT !.shared = FALSE] ELSE job[t]
      BY <3>2 DEF IInv, Types
    <3> QED BY <3>1, <3>3, <3>4
  <2> QED BY <2>1, <2>2, <2>3 DEF Goes, Appears, Copies, Holds, Looks
<1>2. CASE SyncRayService(s)
  <2>1. /\ UNCHANGED <<svc, scache, job>> /\ rayqueue' = rayqueue \cup {s}
        /\ raycache' = [raycache EXCEPT ![s] = ray[s]]
    BY <1>2 DEF SyncRayService, stores
  <2>2. t # s => raycache'[t] = raycache[t]
    BY <2>1 DEF IInv, Types
  <2> QED BY <2>1, <2>2 DEF Goes, Appears, Copies, Holds, Looks
<1> QED BY <1>1, <1>2

\* A job that goes on, or begins, while neither the service nor its copies change.
LEMMA GoesOn ==
  ASSUME IInv, NEW s \in Services, NEW t \in Services,
         UNCHANGED <<svc, scache, raycache, rayqueue>>,
         NEW i, job' = [job EXCEPT ![s] = i],
         i.pc = "idle" \/ i.obj = scache[s] \/ (job[s].pc # "idle" /\ i.obj = job[s].obj)
  PROVE  Goes(t)
<1>1. job'[t] = IF t = s THEN i ELSE job[t]
  BY DEF IInv, Types
<1> QED BY <1>1 DEF Goes, Appears, Copies, Holds, Looks

LEMMA GoesOnChange ==
  ASSUME IInv, NEW s \in Services, NEW t \in Services, OnChange(s)
  PROVE  Goes(t)
<1>1. UNCHANGED <<svc, scache, raycache, rayqueue>>
  BY DEF OnChange, stores, caches
<1> DEFINE next(pc, cond) == [pc |-> pc, obj |-> scache[s], shared |-> TRUE, cond |-> cond,
                              failed |-> FALSE]
<1>2. \/ UNCHANGED job
      \/ \E pc \in {"condition", "configMap"}, cond \in {"noVersion", "notConfigured", "unset"} :
           job' = [job EXCEPT ![s] = next(pc, cond)]
  BY DEF OnChange
<1>3. CASE UNCHANGED job
  BY <1>1, <1>3, GoesStill
<1>4. ASSUME NEW pc, NEW cond, job' = [job EXCEPT ![s] = next(pc, cond)]
      PROVE  Goes(t)
  <2>1. next(pc, cond).obj = scache[s]
    OBVIOUS
  <2> HIDE DEF next
  <2> QED BY <1>1, <1>4, <2>1, GoesOn
<1> HIDE DEF next
<1> QED BY <1>2, <1>3, <1>4

\* The ways a job goes on.
LEMMA JobGoesOn ==
  ASSUME IInv, NEW s \in Services,
         \/ \E pc : Goto(s, pc)
         \/ \E cond : Report(s, cond)
         \/ \E failed : job' = [job EXCEPT ![s].pc = "claims", ![s].failed = failed]
  PROVE  \E i : job' = [job EXCEPT ![s] = i] /\ i.obj = job[s].obj
<1>1. PICK j \in Job : j = job[s]
  BY Parts
<1>2. ASSUME NEW pc, Goto(s, pc)
      PROVE  \E i : job' = [job EXCEPT ![s] = i] /\ i.obj = j.obj
  <2>1. /\ job' = [job EXCEPT ![s] = [j EXCEPT !.pc = pc]]
        /\ [j EXCEPT !.pc = pc].obj = j.obj
    BY <1>1, <1>2 DEF Goto, Job
  <2> QED BY <2>1
<1>3. ASSUME NEW cond, Report(s, cond)
      PROVE  \E i : job' = [job EXCEPT ![s] = i] /\ i.obj = j.obj
  <2>1. /\ job' = [job EXCEPT ![s] = [j EXCEPT !.pc = "condition", !.cond = cond]]
        /\ [j EXCEPT !.pc = "condition", !.cond = cond].obj = j.obj
    BY <1>1, <1>3 DEF Report, Job
  <2> QED BY <2>1
<1>4. ASSUME NEW failed, job' = [job EXCEPT ![s].pc = "claims", ![s].failed = failed]
      PROVE  \E i : job' = [job EXCEPT ![s] = i] /\ i.obj = j.obj
  <2>1. /\ job' = [job EXCEPT ![s] = [j EXCEPT !.pc = "claims", !.failed = failed]]
        /\ [j EXCEPT !.pc = "claims", !.failed = failed].obj = j.obj
    BY <1>1, <1>4 DEF Job
  <2> QED BY <2>1
<1> QED BY <1>1, <1>2, <1>3, <1>4

LEMMA GoesResources ==
  ASSUME IInv, NEW s \in Services, NEW t \in Services,
         \/ CreateModelConfigMap(s) \/ SyncClusterSecretsToLocalNS(s)
         \/ CreateRayService(s) \/ UpdateRayService(s)
  PROVE  Goes(t)
<1>1. UNCHANGED <<svc, scache, raycache, rayqueue>> /\ job[s].pc # "idle"
  BY DEF CreateModelConfigMap, SyncClusterSecretsToLocalNS, CreateRayService,
         UpdateRayService, caches
<1>2. \/ \E pc : Goto(s, pc)
      \/ \E cond : Report(s, cond)
      \/ \E failed : job' = [job EXCEPT ![s].pc = "claims", ![s].failed = failed]
  <2>1. CASE CreateModelConfigMap(s)
    BY <2>1 DEF CreateModelConfigMap
  <2>2. CASE SyncClusterSecretsToLocalNS(s)
    BY <2>2 DEF SyncClusterSecretsToLocalNS
  <2>3. CASE CreateRayService(s)
    BY <2>3 DEF CreateRayService
  <2>4. CASE UpdateRayService(s)
    BY <2>4 DEF UpdateRayService
  <2> QED BY <2>1, <2>2, <2>3, <2>4
<1> QED BY <1>1, <1>2, JobGoesOn, GoesOn

\* A call that is accepted finds the service there, so that none appears.
LEMMA CallAppears ==
  ASSUME IInv, NEW s \in Services, NEW t \in Services, NEW kept,
         kept = svc[s] \/ svc[s].exists, svc' = [svc EXCEPT ![s] = kept]
  PROVE  Appears(t)
<1>1. svc'[t] = IF t = s THEN kept ELSE svc[t]
  BY DEF IInv, Types
<1> QED BY <1>1 DEF Appears

LEMMA GoesCondition ==
  ASSUME IInv, NEW s \in Services, NEW t \in Services, UpdateMLServiceCondition(s)
  PROVE  Goes(t)
<1>1. UNCHANGED <<raycache, rayqueue>> /\ job[s].pc = "condition"
  BY DEF UpdateMLServiceCondition
<1> DEFINE copy == StatusCopy(s)
<1>2. PICK i : job' = [job EXCEPT ![s] = i] /\ i.obj = job[s].obj
  <2>1. \/ Goto(s, "claims")
        \/ \E failed : job' = [job EXCEPT ![s].pc = "claims", ![s].failed = failed]
    BY DEF UpdateMLServiceCondition
  <2> QED BY <2>1, JobGoesOn
<1>3. job'[t] = IF t = s THEN i ELSE job[t]
  BY <1>2 DEF IInv, Types
<1>4. Holds(t)
  BY <1>1, <1>2, <1>3 DEF Holds
<1>5. Appears(t)
  <2>1. \/ UNCHANGED svc
        \/ \E ok \in BOOLEAN, kept \in {svc[s], Stored(svc[s], copy)} :
             /\ Call(svc[s], Stored(svc[s], copy), Accepts(svc[s], copy), kept, ok)
             /\ svc' = [svc EXCEPT ![s] = kept]
    BY DEF UpdateMLServiceCondition
  <2> HIDE DEF copy
  <2>2. CASE UNCHANGED svc
    BY <2>2 DEF Appears
  <2>3. ASSUME NEW ok \in BOOLEAN, NEW kept, kept \in {svc[s], Stored(svc[s], copy)},
               Call(svc[s], Stored(svc[s], copy), Accepts(svc[s], copy), kept, ok),
               svc' = [svc EXCEPT ![s] = kept]
        PROVE  Appears(t)
    <3>1. kept = svc[s] \/ svc[s].exists
      BY <2>3 DEF Call, Accepts
    <3> QED BY <2>3, <3>1, CallAppears
  <2> QED BY <2>1, <2>2, <2>3
<1>6. Copies(t)
  <2>1. scache' = scache \/ scache' = [scache EXCEPT ![s] = copy]
    BY DEF UpdateMLServiceCondition
  <2>2. copy.status = job[s].obj.status
    <3>1. PICK o \in ServiceObject : o = job[s].obj
      BY Parts, JobTypes
    <3>2. copy = [o EXCEPT !.created = job[s].cond]
      BY <3>1 DEF StatusCopy
    <3>3. [o EXCEPT !.created = job[s].cond].status = o.status
      BY DEF ServiceObject
    <3> QED BY <3>1, <3>2, <3>3
  <2> HIDE DEF copy
  <2>3. scache'[t] = scache[t] \/ (t = s /\ scache'[t] = copy)
    BY <2>1 DEF IInv, Types
  <2> QED BY <1>1, <2>2, <2>3 DEF Copies
<1> QED BY <1>1, <1>4, <1>5, <1>6 DEF Goes, Looks

LEMMA GoesClaims ==
  ASSUME IInv, NEW s \in Services, NEW t \in Services, CreateMLServicePVCs(s)
  PROVE  Goes(t)
<1>1. UNCHANGED <<svc, scache, raycache, rayqueue>> /\ job' = [job EXCEPT ![s] = Idle]
  BY DEF CreateMLServicePVCs, stores, caches
<1> QED BY <1>1, First, GoesOn

LEMMA GoesStatus ==
  ASSUME IInv, NEW s \in Services, NEW t \in Services, SyncRayServiceStatus(s)
  PROVE  Goes(t)
<1>1. UNCHANGED <<scache, raycache, job>>
  BY DEF SyncRayServiceStatus, caches
<1> DEFINE st == raycache[s].status
           run == Reports[st] \in Running
           copy == [scache[s] EXCEPT !.status = st,
                                     !.ready = IF run THEN "true" ELSE "false",
                                     !.pending = @ \/ ~run]
<1>2. \/ UNCHANGED svc /\ Return(s, FALSE)
      \/ UNCHANGED svc /\ Return(s, TRUE) /\ ~raycache[s].exists
      \/ /\ UNCHANGED svc /\ Return(s, TRUE) /\ scache[s].exists
         /\ Reports[scache[s].status] = Reports[st]
      \/ \E ok \in BOOLEAN, kept \in {svc[s], Stored(svc[s], copy)} :
           /\ Call(svc[s], Stored(svc[s], copy), Accepts(svc[s], copy), kept, ok)
           /\ svc' = [svc EXCEPT ![s] = kept]
           /\ Return(s, ok)
  BY DEF SyncRayServiceStatus
<1>3. copy \in ServiceObject /\ copy.status = st
  <2>1. PICK c \in ServiceObject : c = scache[s]
    BY Parts
  <2>2. PICK n \in Nat : n = st
    BY Parts, RayTypes
  <2>3. PICK p \in BOOLEAN : p = (c.pending \/ ~run)
    BY DEF ServiceObject
  <2>4. PICK q \in {"unset", "true", "false"} : q = IF run THEN "true" ELSE "false"
    OBVIOUS
  <2>5. copy = [c EXCEPT !.status = n, !.ready = q, !.pending = p]
    BY <2>1, <2>2, <2>3, <2>4
  <2>6. /\ [c EXCEPT !.status = n, !.ready = q, !.pending = p] \in ServiceObject
        /\ [c EXCEPT !.status = n, !.ready = q, !.pending = p].status = n
    BY DEF ServiceObject
  <2> HIDE DEF copy
  <2> QED BY <2>2, <2>5, <2>6
<1> HIDE DEF copy
<1>4. Appears(t)
  <2>1. CASE UNCHANGED svc
    BY <2>1 DEF Appears
  <2>2. ASSUME NEW ok \in BOOLEAN, NEW kept, kept \in {svc[s], Stored(svc[s], copy)},
               Call(svc[s], Stored(svc[s], copy), Accepts(svc[s], copy), kept, ok),
               svc' = [svc EXCEPT ![s] = kept]
        PROVE  Appears(t)
    <3>1. kept = svc[s] \/ svc[s].exists
      BY <2>2 DEF Call, Accepts
    <3> QED BY <2>2, <3>1, CallAppears
  <2> QED BY <1>2, <2>1, <2>2
<1>5. t # s => svc'[t] = svc[t] /\ (t \in rayqueue <=> t \in rayqueue')
  BY <1>2 DEF IInv, Types, Return
<1>6. CASE t # s
  BY <1>1, <1>5, <1>6, GoesStill
<1>7. CASE t = s
  <2>1. Looks(s)
    <3>0. s \in rayqueue
      BY DEF SyncRayServiceStatus
    <3>1. CASE Return(s, FALSE)
      BY <3>0, <3>1 DEF Return, Looks
    <3>2. CASE ~raycache[s].exists
      BY <1>1, <3>2 DEF Looks
    <3>3. CASE /\ UNCHANGED svc /\ scache[s].exists
               /\ Reports[scache[s].status] = Reports[st]
      BY <1>1, <3>3 DEF Looks
    <3>4. ASSUME NEW ok \in BOOLEAN, NEW kept,
                 Call(svc[s], Stored(svc[s], copy), Accepts(svc[s], copy), kept, ok),
                 svc' = [svc EXCEPT ![s] = kept], Return(s, ok)
          PROVE  Looks(s)
      <4>1. CASE ok
        <5>1. kept = Stored(svc[s], copy)
          BY <3>4, <4>1 DEF Call
        <5>2. svc[s] \in ServiceObject
          BY Parts
        <5>3. kept.status = st
          BY <1>3, <5>1, <5>2, ServiceWrites
        <5>4. svc'[s] = kept
          BY <3>4 DEF IInv, Types
        <5> QED BY <1>1, <5>3, <5>4 DEF Looks
      <4>2. CASE ~ok
        BY <3>0, <3>4, <4>2 DEF Return, Looks
      <4> QED BY <4>1, <4>2
    <3> QED BY <1>2, <3>1, <3>2, <3>3, <3>4
  <2> QED BY <1>1, <1>4, <1>7, <2>1 DEF Goes, Copies, Holds
<1> QED BY <1>6, <1>7

LEMMA GoesRestart ==
  ASSUME IInv, NEW t \in Services, Restart
  PROVE  Goes(t)
<1>1. /\ UNCHANGED <<svc, ray>> /\ scache' = svc /\ raycache' = ray
      /\ rayqueue' = {s \in Services : ray[s].exists} /\ job' = [s \in Services |-> Idle]
  BY DEF Restart, stores
<1>2. job'[t].pc = "idle"
  BY <1>1, First
<1> QED BY <1>1, <1>2 DEF Goes, Appears, Copies, Holds, Looks

LEMMA ShowsStep == IInv /\ PInv /\ [Next]_vars => PInv'
<1> SUFFICES ASSUME IInv, PInv, [Next]_vars PROVE PInv'
  OBVIOUS
<1>0. IInv' /\ Kept
  BY Step
<1>1. ASSUME NEW t \in Services
      PROVE  Goes(t)
  <2>1. ASSUME NEW s \in Services,
               \/ CreateService(s) \/ EditService(s) \/ DeleteService(s)
               \/ ReportStatus(s) \/ CollectRayService(s)
        PROVE  Goes(t)
    BY <2>1, GoesWorld
  <2>2. ASSUME NEW s \in Services, SyncService(s) \/ SyncRayService(s)
        PROVE  Goes(t)
    BY <2>2, GoesInformers
  <2>3. ASSUME NEW s \in Services, OnChange(s)
        PROVE  Goes(t)
    BY <2>3, GoesOnChange
  <2>4. ASSUME NEW s \in Services, ServiceStep(s)
        PROVE  Goes(t)
    BY <2>4, GoesResources, GoesCondition, GoesClaims DEF ServiceStep
  <2>5. ASSUME NEW s \in Services, SyncRayServiceStatus(s)
        PROVE  Goes(t)
    BY <2>5, GoesStatus
  <2>6. ASSUME UNCHANGED <<svc, scache, raycache, rayqueue, job>>
        PROVE  Goes(t)
    BY <2>6, GoesStill
  <2>7. ASSUME NEW n \in Namespaces, SyncConfigMap(n) \/ \E h \in HFSecrets : SyncSecret(n, h)
        PROVE  Goes(t)
    BY <2>6, <2>7 DEF SyncConfigMap, SyncSecret, stores
  <2>8. ASSUME NEW h \in HFSecrets, RotateSecret(h) \/ SyncHFSecret(h)
        PROVE  Goes(t)
    BY <2>6, <2>8 DEF RotateSecret, SyncHFSecret, stores, caches
  <2>9. CASE AdvanceVersion \/ SyncVersion \/ UNCHANGED vars
    BY <2>6, <2>9 DEF AdvanceVersion, SyncVersion, vars, stores, caches
  <2>10. CASE Restart
    BY <2>10, GoesRestart
  <2> QED BY <2>1, <2>2, <2>3, <2>4, <2>5, <2>7, <2>8, <2>9, <2>10 DEF Next
<1>2. ASSUME NEW t \in Services
      PROVE  Shows(svc[t], scache[t], raycache[t], job[t], t, rayqueue)'
  BY <1>0, <1>1, ShowsNext DEF Goes
<1> QED BY <1>2 DEF PInv

\* The safety half of what syncRayServiceStatus promises: its queue cannot be empty before
\* the service shows the status of its RayService, as far as the cache has it, whatever
\* conflicts with OnChange, lost calls and restarts there were; but for a RayService that
\* went back to an earlier status.
THEOREM StatusIsShown == Spec => []StatusAtRest
<1>1. Init => IInv /\ PInv
  BY Initially, ShowsInit
<1>2. IInv /\ PInv /\ [Next]_vars => IInv' /\ PInv'
  BY Step, ShowsStep
<1>3. IInv /\ PInv => StatusAtRest
  <2> SUFFICES ASSUME IInv, PInv, NEW s \in Services, s \notin rayqueue,
                      raycache[s] = ray[s], svc[s].exists, ray[s].exists
               PROVE  Shown(s) \/ WentBack(s)
    BY DEF StatusAtRest
  <2>1. Covers(svc[s].status, ray[s].status) /\ svc[s].status \in Nat
    BY Parts, ServiceTypes DEF PInv, Shows
  <2> QED BY <2>1 DEF Covers, Shown, WentBack
<1> QED BY <1>1, <1>2, <1>3, PTL DEF Spec
==============================================================================
