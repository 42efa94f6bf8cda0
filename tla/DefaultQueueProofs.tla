------------------------- MODULE DefaultQueueProofs -------------------------
(***************************************************************************)
(* Theorems about DefaultQueue, for any queues, any number of requests and *)
(* any number of disturbances.                                             *)
(*                                                                         *)
(* The invariant has three parts: the types; that every copy a request or  *)
(* the cache holds is the stored queue or an older version of it           *)
(* (CopiesOld); and what a request that runs alone can rely on (Alone).    *)
(***************************************************************************)
EXTENDS DefaultQueue, FiniteSetTheorems, TLAPS

-----------------------------------------------------------------------------
\* The API server stores queues, and versions only grow.

Older(copy, obj) == copy = obj \/ copy.rv < obj.rv

LEMMA StoredQueue ==
  ASSUME NEW cur \in QueueObject, NEW new \in QueueObject, Accepts(cur, new)
  PROVE  /\ Stored(cur, new) \in QueueObject
         /\ Older(cur, Stored(cur, new))
         /\ Stored(cur, new).marked = new.marked
         /\ new.exists => Stored(cur, new).exists
<1>1. cur.rv \in Nat /\ cur.rv + 1 \in Nat /\ cur.rv < cur.rv + 1
  BY DEF QueueObject
<1>2. ASSUME NEW n \in Nat
      PROVE  /\ [new EXCEPT !.rv = n] \in QueueObject /\ [new EXCEPT !.rv = n].rv = n
             /\ [new EXCEPT !.rv = n].marked = new.marked
             /\ [new EXCEPT !.rv = n].exists = new.exists
  BY DEF QueueObject
<1>3. CASE new = cur
  BY <1>3 DEF Stored, Older
<1>4. CASE new # cur
  BY <1>1, <1>2, <1>4 DEF Stored, Older
<1> QED BY <1>3, <1>4

LEMMA ChangedQueue ==
  ASSUME NEW cur \in QueueObject, NEW new \in QueueObject
  PROVE  /\ Changed(cur, new) \in QueueObject /\ Removed(cur) \in QueueObject
         /\ Older(cur, Changed(cur, new)) /\ Older(cur, Removed(cur))
         /\ Changed(cur, new).exists = new.exists /\ Changed(cur, new).marked = new.marked
         /\ ~Removed(cur).exists
<1>1. cur.rv \in Nat /\ cur.rv + 1 \in Nat /\ cur.rv < cur.rv + 1
  BY DEF QueueObject
<1>2. ASSUME NEW n \in Nat
      PROVE  /\ [new EXCEPT !.rv = n] \in QueueObject /\ [new EXCEPT !.rv = n].rv = n
             /\ [new EXCEPT !.rv = n].marked = new.marked
             /\ [new EXCEPT !.rv = n].exists = new.exists
  BY DEF QueueObject
<1>3. ASSUME NEW n \in Nat
      PROVE  /\ [cur EXCEPT !.exists = FALSE, !.rv = n] \in QueueObject
             /\ [cur EXCEPT !.exists = FALSE, !.rv = n].rv = n
             /\ ~[cur EXCEPT !.exists = FALSE, !.rv = n].exists
  BY DEF QueueObject
<1> QED BY <1>1, <1>2, <1>3 DEF Changed, Removed, Older

LEMMA QueueObjects ==
  /\ NoQueue \in QueueObject /\ DefaultQueueObject \in QueueObject
  /\ PlainQueueObject \in QueueObject
BY DEF NoQueue, DefaultQueueObject, PlainQueueObject, QueueObject

LEMMA MarkedQueue ==
  ASSUME NEW obj \in QueueObject, NEW m \in BOOLEAN
  PROVE  /\ [obj EXCEPT !.marked = m] \in QueueObject
         /\ [obj EXCEPT !.marked = m].marked = m
         /\ [obj EXCEPT !.marked = m].exists = obj.exists
         /\ [obj EXCEPT !.marked = m].rv = obj.rv
BY DEF QueueObject

LEMMA OlderStill ==
  ASSUME NEW a \in QueueObject, NEW b \in QueueObject, NEW c \in QueueObject,
         Older(a, b), Older(b, c)
  PROVE  Older(a, c)
BY DEF Older, QueueObject

\* Only one queue changes in an Update of a handler, to a version that is marked as the
\* copy is.
LEMMA SubmitEffect ==
  ASSUME TypeOK, NEW q \in Queues, NEW new \in QueueObject, NEW ok \in BOOLEAN,
         Submit(q, new, ok)
  PROVE  /\ queue' \in [Queues -> QueueObject] /\ disturbed' \in 0..MaxDisturbances
         /\ \A p \in Queues : Older(queue[p], queue'[p])
         /\ \A p \in Queues : p # q => queue'[p] = queue[p]
         /\ queue'[q] = queue[q] \/ (Accepts(queue[q], new) /\ queue'[q].marked = new.marked)
         /\ ok => /\ Accepts(queue[q], new) /\ queue'[q].marked = new.marked
                  /\ new.exists => queue'[q].exists
<1>1. queue[q] \in QueueObject /\ queue \in [Queues -> QueueObject]
  BY DEF TypeOK
<1>2. disturbed' \in 0..MaxDisturbances
  BY QueueBounds DEF Submit, Disturb, TypeOK
<1>3. CASE queue' = queue /\ ~Accepts(queue[q], new) /\ ~ok
  BY <1>1, <1>2, <1>3 DEF Older
<1>4. CASE /\ Accepts(queue[q], new)
           /\ queue' = [queue EXCEPT ![q] = Stored(queue[q], new)]
  <2>1. /\ Stored(queue[q], new) \in QueueObject
        /\ Older(queue[q], Stored(queue[q], new))
        /\ Stored(queue[q], new).marked = new.marked
        /\ new.exists => Stored(queue[q], new).exists
    BY <1>1, <1>4, StoredQueue
  <2>2. queue'[q] = Stored(queue[q], new) /\ \A p \in Queues : p # q => queue'[p] = queue[p]
    BY <1>1, <1>4
  <2>3. \A p \in Queues : Older(queue[p], queue'[p])
    BY <2>1, <2>2 DEF Older
  <2> QED BY <1>1, <1>2, <1>4, <2>1, <2>2, <2>3
<1> QED BY <1>3, <1>4 DEF Submit

LEMMA MarkEffect ==
  ASSUME TypeOK, NEW q \in Queues, NEW obj \in QueueObject, NEW m \in BOOLEAN,
         NEW ok \in BOOLEAN, Submit(q, [obj EXCEPT !.marked = m], ok)
  PROVE  /\ \A p \in Queues : p # q => queue'[p] = queue[p]
         /\ queue'[q] = queue[q] \/ (Accepts(queue[q], obj) /\ queue'[q].marked = m)
         /\ ok => queue'[q].marked = m /\ (obj.exists => queue'[q].exists)
<1> DEFINE new == [obj EXCEPT !.marked = m]
<1>1. new \in QueueObject /\ new.marked = m /\ new.exists = obj.exists /\ new.rv = obj.rv
  BY MarkedQueue
<1>2. Submit(q, new, ok)
  OBVIOUS
<1> HIDE DEF new
<1> QED BY <1>1, <1>2, SubmitEffect DEF Accepts

-----------------------------------------------------------------------------
\* Type correctness.

LEMMA AnswerType ==
  ASSUME TypeOK, NEW r \in Requests, NEW result \in {"ok", "failed"}, Answer(r, result)
  PROVE  req' \in [Requests -> Request]
<1>1. [NoRequest EXCEPT !.pc = result] \in Request
  BY QueueAssumption, QueueObjects DEF NoRequest, Request
<1> QED BY <1>1 DEF Answer, TypeOK

LEMMA TypeInit == Init => TypeOK
<1> SUFFICES ASSUME Init PROVE TypeOK
  OBVIOUS
<1>1. NoRequest \in Request
  BY QueueAssumption, QueueObjects DEF NoRequest, Request
<1>2. disturbed \in 0..MaxDisturbances
  BY QueueBounds DEF Init
<1>3. excused \in BOOLEAN
  BY DEF Init
<1>4. queue \in [Queues -> QueueObject] /\ cache \in [Queues -> QueueObject]
  BY QueueObjects DEF Init
<1> QED BY <1>1, <1>2, <1>3, <1>4 DEF Init, TypeOK

LEMMA GetQueueType ==
  ASSUME TypeOK, NEW r \in Requests, NEW q \in Queues, GetQueue(r, q)
  PROVE  TypeOK'
<1>1. CASE Answer(r, "failed") /\ UNCHANGED excused
  <2>1. req' \in [Requests -> Request]
    BY <1>1, AnswerType
  <2> QED BY <1>1, <2>1 DEF GetQueue, TypeOK
<1>2. CASE ~(Answer(r, "failed") /\ UNCHANGED excused)
  <2> DEFINE alone == cache = queue /\ \A s \in Requests : ~Running(s)
  <2>1. /\ req' = [s \in Requests |->
                     IF s = r THEN [pc |-> "list", name |-> q, copy |-> cache[q],
                                    left |-> {}, alone |-> alone]
                              ELSE [req[s] EXCEPT !.alone = FALSE]]
        /\ excused' = (excused \/ ~alone)
        /\ UNCHANGED <<queue, cache, disturbed>>
    BY <1>2 DEF GetQueue
  <2>2. [pc |-> "list", name |-> q, copy |-> cache[q], left |-> {}, alone |-> alone] \in Request
    <3> HIDE DEF alone
    <3>1. cache[q] \in QueueObject
      BY DEF TypeOK
    <3>2. alone \in BOOLEAN
      BY DEF alone
    <3> QED BY <3>1, <3>2 DEF Request
  <2>3. \A s \in Requests : [req[s] EXCEPT !.alone = FALSE] \in Request
    BY DEF TypeOK, Request
  <2>4. req' \in [Requests -> Request]
    BY <2>1, <2>2, <2>3
  <2>5. excused' \in BOOLEAN
    BY <2>1 DEF TypeOK
  <2> QED BY <2>1, <2>4, <2>5 DEF TypeOK
<1> QED BY <1>1, <1>2

LEMMA ListQueuesType ==
  ASSUME TypeOK, NEW r \in Requests, ListQueues(r)
  PROVE  TypeOK'
<1> DEFINE listed == {[name |-> q, obj |-> cache[q]] :
                        q \in {p \in Queues : cache[p].exists /\ cache[p].marked}}
<1>1. listed \in SUBSET [name : Queues, obj : QueueObject]
  BY DEF TypeOK
<1>2. [req[r] EXCEPT !.pc = "unset", !.left = listed] \in Request
  <2> HIDE DEF listed
  <2> QED BY <1>1 DEF TypeOK, Request
<1>3. req' = [req EXCEPT ![r] = [req[r] EXCEPT !.pc = "unset", !.left = listed]]
  BY DEF ListQueues, TypeOK
<1>4. req' \in [Requests -> Request]
  <2> HIDE DEF listed
  <2> QED BY <1>2, <1>3 DEF TypeOK
<1> QED BY <1>4 DEF ListQueues, TypeOK

LEMMA UnsetQueueType ==
  ASSUME TypeOK, NEW r \in Requests, UnsetQueue(r)
  PROVE  TypeOK'
<1>1. PICK c \in req[r].left, ok \in BOOLEAN :
        /\ Submit(c.name, [c.obj EXCEPT !.marked = FALSE], ok)
        /\ IF ok THEN req' = [req EXCEPT ![r].left = req[r].left \ {c}]
                 ELSE Answer(r, "failed")
  BY DEF UnsetQueue
<1>2. c.name \in Queues /\ c.obj \in QueueObject
  BY DEF TypeOK, Request
<1>3. queue' \in [Queues -> QueueObject] /\ disturbed' \in 0..MaxDisturbances
  <2> DEFINE new == [c.obj EXCEPT !.marked = FALSE]
  <2>1. new \in QueueObject
    BY <1>2, MarkedQueue
  <2>2. Submit(c.name, new, ok)
    BY <1>1
  <2> HIDE DEF new
  <2> QED BY <1>2, <2>1, <2>2, SubmitEffect
<1>4. [req[r] EXCEPT !.left = req[r].left \ {c}] \in Request
  BY DEF TypeOK, Request
<1>5. req' \in [Requests -> Request]
  <2>1. CASE ok
    BY <1>1, <1>4, <2>1 DEF TypeOK
  <2>2. CASE ~ok
    BY <1>1, <2>2, AnswerType
  <2> QED BY <2>1, <2>2
<1> QED BY <1>3, <1>5 DEF UnsetQueue, TypeOK

LEMMA SetQueueType ==
  ASSUME TypeOK, NEW r \in Requests, SetQueue(r)
  PROVE  TypeOK'
<1>1. PICK ok \in BOOLEAN :
        /\ Submit(req[r].name, [req[r].copy EXCEPT !.marked = TRUE], ok)
        /\ Answer(r, IF ok THEN "ok" ELSE "failed")
        /\ excused' = (excused /\ ~(ok /\ req[r].alone))
  BY DEF SetQueue
<1>2. req[r].name \in Queues /\ req[r].copy \in QueueObject
  BY DEF TypeOK, Request
<1>3. queue' \in [Queues -> QueueObject] /\ disturbed' \in 0..MaxDisturbances
  BY <1>1, <1>2, MarkedQueue, SubmitEffect
<1>4. req' \in [Requests -> Request]
  <2>1. (IF ok THEN "ok" ELSE "failed") \in {"ok", "failed"}
    OBVIOUS
  <2> QED BY <1>1, <2>1, AnswerType
<1> QED BY <1>1, <1>3, <1>4 DEF SetQueue, TypeOK

\* A queue that is added, edited or deleted.
LEMMA AddEffect ==
  ASSUME TypeOK, AddDefaultQueue
  PROVE  /\ queue' \in [Queues -> QueueObject]
         /\ \A p \in Queues : Older(queue[p], queue'[p])
         /\ \A p \in Queues : p # DefaultQueueName => queue'[p] = queue[p]
         /\ queue'[DefaultQueueName] = queue[DefaultQueueName]
              \/ /\ ~queue[DefaultQueueName].exists
                 /\ queue'[DefaultQueueName].exists /\ queue'[DefaultQueueName].marked
<1>1. /\ queue[DefaultQueueName] \in QueueObject /\ queue \in [Queues -> QueueObject]
      /\ DefaultQueueObject.exists /\ DefaultQueueObject.marked
  BY QueueAssumption DEF TypeOK, DefaultQueueObject
<1>2. LET new == Changed(queue[DefaultQueueName], DefaultQueueObject)
      IN new \in QueueObject /\ Older(queue[DefaultQueueName], new) /\ new.exists /\ new.marked
  BY <1>1, ChangedQueue, QueueObjects
<1> QED BY <1>1, <1>2, QueueAssumption DEF AddDefaultQueue, Older

LEMMA UserEffect ==
  ASSUME TypeOK, NEW q \in Queues, EditQueue(q) \/ DeleteQueue(q)
  PROVE  /\ queue' \in [Queues -> QueueObject] /\ disturbed' \in 0..MaxDisturbances
         /\ \A p \in Queues : Older(queue[p], queue'[p])
         /\ \A p \in Queues : p # q => queue'[p] = queue[p]
         /\ queue'[q].exists => queue'[q].marked = queue[q].marked
<1>1. queue[q] \in QueueObject /\ queue \in [Queues -> QueueObject]
  BY DEF TypeOK
<1>2. disturbed' \in 0..MaxDisturbances
  BY QueueBounds DEF EditQueue, DeleteQueue, Disturb, TypeOK
<1>3. /\ Changed(queue[q], queue[q]) \in QueueObject /\ Removed(queue[q]) \in QueueObject
      /\ Older(queue[q], Changed(queue[q], queue[q])) /\ Older(queue[q], Removed(queue[q]))
      /\ Changed(queue[q], queue[q]).marked = queue[q].marked
      /\ ~Removed(queue[q]).exists
  BY <1>1, ChangedQueue
<1> QED BY <1>1, <1>2, <1>3 DEF EditQueue, DeleteQueue, Older

LEMMA RestartType ==
  ASSUME TypeOK, Restart
  PROVE  TypeOK'
<1>1. queue' \in [Queues -> QueueObject]
  BY AddEffect DEF Restart
<1>2. [NoRequest EXCEPT !.pc = "failed"] \in Request
  BY QueueAssumption, QueueObjects DEF NoRequest, Request
<1>3. req' \in [Requests -> Request]
  BY <1>2 DEF Restart, TypeOK
<1>4. disturbed' \in 0..MaxDisturbances /\ excused' \in BOOLEAN
  BY QueueBounds DEF Restart, Disturb, TypeOK
<1> QED BY <1>1, <1>3, <1>4 DEF Restart, TypeOK

LEMMA TypeStep == TypeOK /\ [Next]_vars => TypeOK'
<1> SUFFICES ASSUME TypeOK, [Next]_vars PROVE TypeOK'
  OBVIOUS
<1>1. ASSUME NEW r \in Requests, NEW q \in Queues, GetQueue(r, q) PROVE TypeOK'
  BY <1>1, GetQueueType
<1>2. ASSUME NEW r \in Requests, ListQueues(r) PROVE TypeOK'
  BY <1>2, ListQueuesType
<1>3. ASSUME NEW r \in Requests, UnsetQueue(r) PROVE TypeOK'
  BY <1>3, UnsetQueueType
<1>4. ASSUME NEW r \in Requests, SetQueue(r) PROVE TypeOK'
  BY <1>4, SetQueueType
<1>5. ASSUME NEW q \in Queues, SyncQueue(q) PROVE TypeOK'
  BY <1>5 DEF SyncQueue, TypeOK
<1>6. ASSUME NEW q \in Queues, EditQueue(q) \/ DeleteQueue(q) PROVE TypeOK'
  <2>1. queue' \in [Queues -> QueueObject] /\ disturbed' \in 0..MaxDisturbances
    BY <1>6, UserEffect
  <2> QED BY <1>6, <2>1 DEF EditQueue, DeleteQueue, TypeOK
<1>7. CASE Restart
  BY <1>7, RestartType
<1>8. CASE UNCHANGED vars
  BY <1>8 DEF vars, TypeOK
<1> QED BY <1>1, <1>2, <1>3, <1>4, <1>5, <1>6, <1>7, <1>8 DEF Next

\* Every variable has its type.
THEOREM QueueTypes == Spec => []TypeOK
BY TypeInit, TypeStep, PTL DEF Spec

-----------------------------------------------------------------------------
\* Every copy is the stored queue or an older one, so that a copy whose Update is
\* accepted is what is stored.

CopiesOld ==
  /\ \A q \in Queues : Older(cache[q], queue[q])
  /\ \A r \in Requests :
       Running(r) => req[r].copy.exists /\ Older(req[r].copy, queue[req[r].name])
  /\ \A r \in Requests : \A c \in req[r].left : c.obj.marked /\ Older(c.obj, queue[c.name])

LEMMA QueuesGrow ==
  ASSUME TypeOK, [Next]_vars
  PROVE  \A q \in Queues : Older(queue[q], queue'[q])
<1>1. ASSUME NEW r \in Requests, UnsetQueue(r)
      PROVE  \A q \in Queues : Older(queue[q], queue'[q])
  <2>1. PICK c \in req[r].left, ok \in BOOLEAN :
          Submit(c.name, [c.obj EXCEPT !.marked = FALSE], ok)
    BY <1>1 DEF UnsetQueue
  <2>2. c.name \in Queues /\ c.obj \in QueueObject
    BY DEF TypeOK, Request
  <2> QED BY <2>1, <2>2, MarkedQueue, SubmitEffect
<1>2. ASSUME NEW r \in Requests, SetQueue(r)
      PROVE  \A q \in Queues : Older(queue[q], queue'[q])
  <2>1. PICK ok \in BOOLEAN : Submit(req[r].name, [req[r].copy EXCEPT !.marked = TRUE], ok)
    BY <1>2 DEF SetQueue
  <2>2. req[r].name \in Queues /\ req[r].copy \in QueueObject
    BY DEF TypeOK, Request
  <2> QED BY <2>1, <2>2, MarkedQueue, SubmitEffect
<1>3. ASSUME NEW q \in Queues, EditQueue(q) \/ DeleteQueue(q)
      PROVE  \A p \in Queues : Older(queue[p], queue'[p])
  BY <1>3, UserEffect
<1>4. ASSUME Restart
      PROVE  \A q \in Queues : Older(queue[q], queue'[q])
  BY <1>4, AddEffect DEF Restart
<1>5. ASSUME UNCHANGED queue
      PROVE  \A q \in Queues : Older(queue[q], queue'[q])
  BY <1>5 DEF Older
<1> QED BY <1>1, <1>2, <1>3, <1>4, <1>5 DEF Next, vars, GetQueue, ListQueues, SyncQueue

\* The copies a request and the cache already had stay old.
LEMMA CopiesStayOld ==
  ASSUME TypeOK, TypeOK', CopiesOld, [Next]_vars
  PROVE  /\ \A q \in Queues : Older(cache[q], queue'[q])
         /\ \A r \in Requests :
              Running(r) => req[r].copy.exists /\ Older(req[r].copy, queue'[req[r].name])
         /\ \A r \in Requests : \A c \in req[r].left :
              c.obj.marked /\ Older(c.obj, queue'[c.name])
<1>1. \A q \in Queues : Older(queue[q], queue'[q]) /\ queue[q] \in QueueObject
                                                   /\ queue'[q] \in QueueObject
  BY QueuesGrow DEF TypeOK
<1>2. ASSUME NEW q \in Queues PROVE Older(cache[q], queue'[q])
  <2>1. cache[q] \in QueueObject /\ Older(cache[q], queue[q])
    BY DEF TypeOK, CopiesOld
  <2> QED BY <1>1, <2>1, OlderStill
<1>3. ASSUME NEW r \in Requests, Running(r)
      PROVE  req[r].copy.exists /\ Older(req[r].copy, queue'[req[r].name])
  <2>1. /\ req[r].copy \in QueueObject /\ req[r].name \in Queues
        /\ req[r].copy.exists /\ Older(req[r].copy, queue[req[r].name])
    BY <1>3 DEF TypeOK, Request, CopiesOld
  <2> QED BY <1>1, <2>1, OlderStill
<1>4. ASSUME NEW r \in Requests, NEW c \in req[r].left
      PROVE  c.obj.marked /\ Older(c.obj, queue'[c.name])
  <2>1. /\ c.obj \in QueueObject /\ c.name \in Queues
        /\ c.obj.marked /\ Older(c.obj, queue[c.name])
    BY DEF TypeOK, Request, CopiesOld
  <2> QED BY <1>1, <2>1, OlderStill
<1> QED BY <1>2, <1>3, <1>4

\* What a step makes of the requests.
LEMMA RequestsAfter ==
  ASSUME TypeOK, [Next]_vars
  PROVE  \A s \in Requests :
           \/ /\ req'[s].copy = req[s].copy /\ req'[s].name = req[s].name
              /\ req'[s].left \subseteq req[s].left
              /\ Running(s)' => Running(s)
           \/ ~Running(s)' /\ req'[s].left = {}
           \/ \E q \in Queues : GetQueue(s, q) /\ cache[q].exists
                                /\ req'[s].copy = cache[q] /\ req'[s].name = q
                                /\ req'[s].left = {}
           \/ /\ ListQueues(s) /\ req'[s].copy = req[s].copy /\ req'[s].name = req[s].name
              /\ req'[s].left = {[name |-> q, obj |-> cache[q]] :
                                  q \in {p \in Queues : cache[p].exists /\ cache[p].marked}}
<1> SUFFICES ASSUME NEW s \in Requests
             PROVE  \/ /\ req'[s].copy = req[s].copy /\ req'[s].name = req[s].name
                       /\ req'[s].left \subseteq req[s].left
                       /\ Running(s)' => Running(s)
                    \/ ~Running(s)' /\ req'[s].left = {}
                    \/ \E q \in Queues : GetQueue(s, q) /\ cache[q].exists
                                         /\ req'[s].copy = cache[q] /\ req'[s].name = q
                                         /\ req'[s].left = {}
                    \/ /\ ListQueues(s) /\ req'[s].copy = req[s].copy
                       /\ req'[s].name = req[s].name
                       /\ req'[s].left = {[name |-> q, obj |-> cache[q]] :
                            q \in {p \in Queues : cache[p].exists /\ cache[p].marked}}
  OBVIOUS
<1> DEFINE Kept == /\ req'[s].copy = req[s].copy /\ req'[s].name = req[s].name
                   /\ req'[s].left \subseteq req[s].left
                   /\ Running(s)' => Running(s)
           Ended == ~Running(s)' /\ req'[s].left = {}
<1>0. req \in [Requests -> Request] /\ req[s] \in Request
  BY DEF TypeOK
<1>1. ASSUME NEW r \in Requests, NEW result \in {"ok", "failed"}, Answer(r, result)
      PROVE  Kept \/ Ended
  BY <1>0, <1>1 DEF Answer, NoRequest, Running
<1>2. ASSUME NEW r \in Requests, NEW q \in Queues, GetQueue(r, q), ~Answer(r, "failed"), r # s
      PROVE  Kept
  BY <1>0, <1>2 DEF GetQueue, Request, Running
<1>3. ASSUME NEW q \in Queues, GetQueue(s, q), ~Answer(s, "failed")
      PROVE  /\ cache[q].exists /\ req'[s].copy = cache[q] /\ req'[s].name = q
             /\ req'[s].left = {}
  BY <1>0, <1>3 DEF GetQueue
<1>4. ASSUME NEW r \in Requests, ListQueues(r), r # s
      PROVE  Kept
  BY <1>0, <1>4 DEF ListQueues, Running
<1>5. ASSUME ListQueues(s)
      PROVE  /\ req'[s].copy = req[s].copy /\ req'[s].name = req[s].name
             /\ req'[s].left = {[name |-> q, obj |-> cache[q]] :
                  q \in {p \in Queues : cache[p].exists /\ cache[p].marked}}
  BY <1>0, <1>5 DEF ListQueues, Request
<1>6. ASSUME NEW r \in Requests, UnsetQueue(r)
      PROVE  Kept \/ Ended
  <2>1. CASE Answer(r, "failed")
    BY <1>1, <2>1
  <2>2. CASE \E c \in req[r].left :
               req' = [req EXCEPT ![r].left = req[r].left \ {c}]
    BY <1>0, <2>2 DEF Request, Running
  <2> QED BY <1>6, <2>1, <2>2 DEF UnsetQueue
<1>7. ASSUME NEW r \in Requests, SetQueue(r)
      PROVE  Kept \/ Ended
  <2>1. PICK ok \in BOOLEAN : Answer(r, IF ok THEN "ok" ELSE "failed")
    BY <1>7 DEF SetQueue
  <2> QED BY <1>1, <2>1
<1>8. ASSUME Restart
      PROVE  Kept \/ Ended
  BY <1>0, <1>8 DEF Restart, NoRequest, Running
<1>9. ASSUME UNCHANGED req
      PROVE  Kept
  BY <1>9 DEF Running
<1> HIDE DEF Kept, Ended
<1>10. CASE \E r \in Requests, q \in Queues : GetQueue(r, q)
  BY <1>1, <1>2, <1>3, <1>10 DEF Kept, Ended
<1>11. CASE \E r \in Requests : ListQueues(r)
  BY <1>4, <1>5, <1>11 DEF Kept
<1>12. CASE \E r \in Requests : UnsetQueue(r) \/ SetQueue(r)
  BY <1>6, <1>7, <1>12 DEF Kept, Ended
<1>13. CASE Restart \/ UNCHANGED req
  BY <1>8, <1>9, <1>13 DEF Kept, Ended
<1> QED BY <1>10, <1>11, <1>12, <1>13 DEF Next, vars, SyncQueue, EditQueue, DeleteQueue

LEMMA CopiesInit == Init => CopiesOld
BY DEF Init, CopiesOld, Older, NoRequest, Running

LEMMA CopiesStep == TypeOK /\ TypeOK' /\ CopiesOld /\ [Next]_vars => CopiesOld'
<1> SUFFICES ASSUME TypeOK, TypeOK', CopiesOld, [Next]_vars PROVE CopiesOld'
  OBVIOUS
<1>1. ASSUME NEW q \in Queues PROVE Older(cache'[q], queue'[q])
  <2>1. cache'[q] = cache[q] \/ cache'[q] = queue'[q]
    BY DEF Next, vars, GetQueue, ListQueues, UnsetQueue, SetQueue, SyncQueue, EditQueue,
           DeleteQueue, Restart, TypeOK
  <2> QED BY <2>1, CopiesStayOld DEF Older
<1>2. ASSUME NEW r \in Requests, Running(r)'
      PROVE  req'[r].copy.exists /\ Older(req'[r].copy, queue'[req'[r].name])
  <2>1. CASE \E q \in Queues : GetQueue(r, q) /\ cache[q].exists
                               /\ req'[r].copy = cache[q] /\ req'[r].name = q
    BY <2>1, CopiesStayOld
  <2>2. CASE ListQueues(r) /\ req'[r].copy = req[r].copy /\ req'[r].name = req[r].name
    BY <2>2, CopiesStayOld DEF ListQueues, Running
  <2> QED BY <1>2, <2>1, <2>2, RequestsAfter, CopiesStayOld
<1>3. ASSUME NEW r \in Requests, NEW c \in req'[r].left
      PROVE  c.obj.marked /\ Older(c.obj, queue'[c.name])
  <2>1. CASE req'[r].left = {[name |-> q, obj |-> cache[q]] :
                               q \in {p \in Queues : cache[p].exists /\ cache[p].marked}}
    BY <1>3, <2>1, CopiesStayOld
  <2> QED BY <1>3, <2>1, RequestsAfter, CopiesStayOld
<1> QED BY <1>1, <1>2, <1>3 DEF CopiesOld

THEOREM CopiesAreOld == Spec => [](TypeOK /\ CopiesOld)
<1>1. Init => TypeOK /\ CopiesOld
  BY TypeInit, CopiesInit
<1>2. TypeOK /\ CopiesOld /\ [Next]_vars => (TypeOK /\ CopiesOld)'
  BY TypeStep, CopiesStep
<1> QED BY <1>1, <1>2, PTL DEF Spec

-----------------------------------------------------------------------------
\* What the actions make of the defaults.

LEMMA DefaultsAfterUnset ==
  ASSUME TypeOK, NEW r \in Requests, UnsetQueue(r)
  PROVE  /\ Defaults' \subseteq Defaults
         /\ \/ Answer(r, "failed")
            \/ \E c \in req[r].left : /\ req' = [req EXCEPT ![r].left = req[r].left \ {c}]
                                      /\ c.name \notin Defaults'
<1>1. PICK c \in req[r].left, ok \in BOOLEAN :
        /\ Submit(c.name, [c.obj EXCEPT !.marked = FALSE], ok)
        /\ IF ok THEN req' = [req EXCEPT ![r].left = req[r].left \ {c}]
                 ELSE Answer(r, "failed")
  BY DEF UnsetQueue
<1>2. c.name \in Queues /\ c.obj \in QueueObject
  BY DEF TypeOK, Request
<1>3. /\ \A p \in Queues : p # c.name => queue'[p] = queue[p]
      /\ queue'[c.name] = queue[c.name] \/ ~queue'[c.name].marked
      /\ ok => ~queue'[c.name].marked
  <2>1. PICK q \in Queues, obj \in QueueObject : q = c.name /\ obj = c.obj
    BY <1>2
  <2>2. Submit(q, [obj EXCEPT !.marked = FALSE], ok)
    BY <1>1, <2>1
  <2>3. /\ \A p \in Queues : p # q => queue'[p] = queue[p]
        /\ queue'[q] = queue[q] \/ (Accepts(queue[q], obj) /\ queue'[q].marked = FALSE)
        /\ ok => queue'[q].marked = FALSE /\ (obj.exists => queue'[q].exists)
    BY <2>2, MarkEffect
  <2> QED BY <2>1, <2>3
<1> QED BY <1>1, <1>3 DEF Defaults

LEMMA DefaultsAfterSet ==
  ASSUME TypeOK, CopiesOld, NEW r \in Requests, SetQueue(r)
  PROVE  /\ Defaults' \subseteq Defaults \cup {req[r].name}
         /\ \/ Answer(r, "failed") /\ excused' = excused
            \/ /\ Answer(r, "ok") /\ excused' = (excused /\ ~req[r].alone)
               /\ req[r].name \in Defaults'
<1>1. PICK ok \in BOOLEAN :
        /\ Submit(req[r].name, [req[r].copy EXCEPT !.marked = TRUE], ok)
        /\ Answer(r, IF ok THEN "ok" ELSE "failed")
        /\ excused' = (excused /\ ~(ok /\ req[r].alone))
  BY DEF SetQueue
<1>2. req[r].name \in Queues /\ req[r].copy \in QueueObject /\ req[r].copy.exists
  BY DEF TypeOK, Request, CopiesOld, SetQueue, Running
<1>3. /\ \A p \in Queues : p # req[r].name => queue'[p] = queue[p]
      /\ ok => queue'[req[r].name].marked /\ queue'[req[r].name].exists
  <2>1. PICK q \in Queues, obj \in QueueObject : q = req[r].name /\ obj = req[r].copy
    BY <1>2
  <2>2. Submit(q, [obj EXCEPT !.marked = TRUE], ok)
    BY <1>1, <2>1
  <2>3. /\ \A p \in Queues : p # q => queue'[p] = queue[p]
        /\ queue'[q] = queue[q] \/ (Accepts(queue[q], obj) /\ queue'[q].marked = TRUE)
        /\ ok => queue'[q].marked = TRUE /\ (obj.exists => queue'[q].exists)
    BY <2>2, MarkEffect
  <2> QED BY <1>2, <2>1, <2>3
<1>4. CASE ok
  <2>1. excused' = (excused /\ ~req[r].alone)
    BY <1>1, <1>4
  <2> QED BY <1>1, <1>2, <1>3, <1>4, <2>1 DEF Defaults
<1>5. CASE ~ok
  <2>1. excused' = excused
    BY <1>1, <1>5 DEF TypeOK
  <2> QED BY <1>1, <1>3, <1>5, <2>1 DEF Defaults
<1> QED BY <1>4, <1>5

LEMMA DefaultsAfterUser ==
  ASSUME TypeOK, NEW q \in Queues, EditQueue(q) \/ DeleteQueue(q)
  PROVE  Defaults' \subseteq Defaults
<1>1. queue[q].exists
  BY DEF EditQueue, DeleteQueue
<1> QED BY <1>1, UserEffect DEF Defaults

LEMMA DefaultsAfterRestart ==
  ASSUME TypeOK, Restart
  PROVE  /\ Defaults' \subseteq Defaults \cup {DefaultQueueName}
         /\ queue[DefaultQueueName].exists => Defaults' = Defaults
<1>1. AddDefaultQueue
  BY DEF Restart
<1>2. queue[DefaultQueueName].exists => queue' = queue
  BY <1>1 DEF AddDefaultQueue
<1> QED BY <1>1, <1>2, AddEffect DEF Defaults

-----------------------------------------------------------------------------
\* A request that runs alone runs beside no other, and the defaults are among those the
\* cache shows it until it lists them, and among those it has still to unmark afterwards.

Alone ==
  /\ \A r, s \in Requests : Running(r) /\ req[r].alone /\ Running(s) => r = s
  /\ \A r \in Requests : ~excused /\ Running(r) => req[r].alone
  /\ \A r \in Requests : req[r].pc = "list" /\ req[r].alone =>
       \A q \in Defaults : cache[q].exists /\ cache[q].marked
  /\ \A r \in Requests : req[r].pc = "unset" /\ req[r].alone =>
       \A q \in Defaults : \E c \in req[r].left : c.name = q
  /\ ~excused => \A p, q \in Defaults : p = q

LEMMA AloneInit == Init => Alone
BY DEF Init, Alone, Defaults, Running, NoRequest, PlainQueueObject

\* A step after which fewer requests run, with what they had.
LEMMA AloneKept ==
  ASSUME TypeOK, Alone, Defaults' \subseteq Defaults, excused' = excused,
         \A q \in Defaults' : cache'[q] = cache[q] \/ cache'[q] = queue'[q],
         \A r \in Requests : Running(r)' => req'[r] = req[r]
  PROVE  Alone'
<1>1. \A r \in Requests : Running(r)' => Running(r) /\ req'[r] = req[r]
  BY DEF Running
<1>2. \A r, s \in Requests : Running(r)' /\ req'[r].alone /\ Running(s)' => r = s
  BY <1>1 DEF Alone
<1>3. \A r \in Requests : ~excused' /\ Running(r)' => req'[r].alone
  BY <1>1 DEF Alone
<1>4. \A r \in Requests : req'[r].pc = "list" /\ req'[r].alone =>
        \A q \in Defaults' : cache'[q].exists /\ cache'[q].marked
  BY DEF Alone, Running, Defaults
<1>5. \A r \in Requests : req'[r].pc = "unset" /\ req'[r].alone =>
        \A q \in Defaults' : \E c \in req'[r].left : c.name = q
  BY DEF Alone, Running
<1>6. ~excused' => \A p, q \in Defaults' : p = q
  BY DEF Alone
<1> QED BY <1>2, <1>3, <1>4, <1>5, <1>6 DEF Alone

LEMMA AloneGet ==
  ASSUME TypeOK, Alone, NEW r \in Requests, NEW q \in Queues, GetQueue(r, q)
  PROVE  Alone'
<1>0. req \in [Requests -> Request] /\ Defaults' = Defaults
  BY DEF TypeOK, GetQueue, Defaults
<1>1. CASE Answer(r, "failed") /\ UNCHANGED excused
  <2>1. \A s \in Requests : Running(s)' => req'[s] = req[s]
    BY <1>0, <1>1 DEF Answer, Running, NoRequest
  <2> QED BY <1>0, <1>1, <2>1, AloneKept DEF GetQueue
<1>2. CASE ~(Answer(r, "failed") /\ UNCHANGED excused)
  <2> DEFINE alone == cache = queue /\ \A s \in Requests : ~Running(s)
  <2>1. /\ req' = [s \in Requests |->
                     IF s = r THEN [pc |-> "list", name |-> q, copy |-> cache[q],
                                    left |-> {}, alone |-> alone]
                              ELSE [req[s] EXCEPT !.alone = FALSE]]
        /\ excused' = (excused \/ ~alone)
        /\ UNCHANGED <<queue, cache, disturbed>>
    BY <1>2 DEF GetQueue
  <2> HIDE DEF alone
  <2>2. /\ req'[r].pc = "list" /\ req'[r].alone = alone
        /\ \A s \in Requests \ {r} : /\ req'[s].pc = req[s].pc
                                     /\ ~req'[s].alone
    BY <1>0, <2>1 DEF Request
  <2>3. \A s \in Requests \ {r} : alone => ~Running(s)'
    BY <2>2 DEF alone, Running
  <2>4. \A s, t \in Requests : Running(s)' /\ req'[s].alone /\ Running(t)' => s = t
    BY <2>2, <2>3
  <2>5. \A s \in Requests : ~excused' /\ Running(s)' => req'[s].alone
    BY <2>1, <2>2, <2>3
  <2>6. \A s \in Requests : req'[s].pc = "list" /\ req'[s].alone =>
          \A p \in Defaults' : cache'[p].exists /\ cache'[p].marked
    BY <2>1, <2>2 DEF alone, Defaults
  <2>7. \A s \in Requests : req'[s].pc = "unset" /\ req'[s].alone =>
          \A p \in Defaults' : \E c \in req'[s].left : c.name = p
    BY <2>2
  <2>8. ~excused' => \A p1, p2 \in Defaults' : p1 = p2
    BY <1>0, <2>1 DEF Alone
  <2> QED BY <2>4, <2>5, <2>6, <2>7, <2>8 DEF Alone
<1> QED BY <1>1, <1>2

LEMMA AloneList ==
  ASSUME TypeOK, Alone, NEW r \in Requests, ListQueues(r)
  PROVE  Alone'
<1> DEFINE listed == {[name |-> q, obj |-> cache[q]] :
                        q \in {p \in Queues : cache[p].exists /\ cache[p].marked}}
<1>1. /\ req[r].pc = "list" /\ UNCHANGED <<queue, cache, excused>>
      /\ req'[r].pc = "unset" /\ req'[r].left = listed /\ req'[r].alone = req[r].alone
      /\ \A s \in Requests \ {r} : req'[s] = req[s]
  BY DEF ListQueues, TypeOK, Request
<1>2. Defaults' = Defaults /\ Defaults \subseteq Queues
  BY <1>1 DEF Defaults
<1>3. \A q \in Defaults : cache[q].exists /\ cache[q].marked =>
        \E c \in listed : c.name = q
  <2> SUFFICES ASSUME NEW q \in Defaults, cache[q].exists, cache[q].marked
               PROVE  \E c \in listed : c.name = q
    OBVIOUS
  <2>1. [name |-> q, obj |-> cache[q]] \in listed
    BY DEF Defaults
  <2>2. [name |-> q, obj |-> cache[q]].name = q
    OBVIOUS
  <2> HIDE DEF listed
  <2> QED BY <2>1, <2>2
<1> HIDE DEF listed
<1>4. \A s \in Requests : Running(s)' <=> Running(s)
  BY <1>1 DEF Running
<1>5. \A s, t \in Requests : Running(s)' /\ req'[s].alone /\ Running(t)' => s = t
  BY <1>1, <1>4 DEF Alone
<1>6. \A s \in Requests : ~excused' /\ Running(s)' => req'[s].alone
  BY <1>1, <1>4 DEF Alone
<1>7. \A s \in Requests : req'[s].pc = "list" /\ req'[s].alone =>
        \A p \in Defaults' : cache'[p].exists /\ cache'[p].marked
  BY <1>1, <1>2 DEF Alone
<1>8. \A s \in Requests : req'[s].pc = "unset" /\ req'[s].alone =>
        \A p \in Defaults' : \E c \in req'[s].left : c.name = p
  BY <1>1, <1>2, <1>3 DEF Alone
<1>9. ~excused' => \A p1, p2 \in Defaults' : p1 = p2
  BY <1>1, <1>2 DEF Alone
<1> QED BY <1>5, <1>6, <1>7, <1>8, <1>9 DEF Alone

LEMMA AloneUnset ==
  ASSUME TypeOK, Alone, NEW r \in Requests, UnsetQueue(r)
  PROVE  Alone'
<1>0. /\ req \in [Requests -> Request] /\ req[r].pc = "unset"
      /\ UNCHANGED <<cache, excused>> /\ Defaults' \subseteq Defaults
  BY DefaultsAfterUnset DEF TypeOK, UnsetQueue
<1>1. CASE Answer(r, "failed")
  <2>1. \A s \in Requests : Running(s)' => req'[s] = req[s]
    BY <1>0, <1>1 DEF Answer, Running, NoRequest
  <2> QED BY <1>0, <2>1, AloneKept
<1>2. CASE \E c \in req[r].left : /\ req' = [req EXCEPT ![r].left = req[r].left \ {c}]
                                /\ c.name \notin Defaults'
  <2>1. PICK c \in req[r].left : /\ req' = [req EXCEPT ![r].left = req[r].left \ {c}]
                                /\ c.name \notin Defaults'
    BY <1>2
  <2>2. /\ req'[r].pc = "unset" /\ req'[r].left = req[r].left \ {c}
        /\ req'[r].alone = req[r].alone
        /\ \A s \in Requests \ {r} : req'[s] = req[s]
    BY <1>0, <2>1 DEF Request
  <2>3. \A s \in Requests : Running(s)' <=> Running(s)
    BY <1>0, <2>2 DEF Running
  <2>4. \A s, t \in Requests : Running(s)' /\ req'[s].alone /\ Running(t)' => s = t
    BY <2>2, <2>3 DEF Alone
  <2>5. \A s \in Requests : ~excused' /\ Running(s)' => req'[s].alone
    BY <1>0, <2>2, <2>3 DEF Alone
  <2>6. \A s \in Requests : req'[s].pc = "list" /\ req'[s].alone =>
          \A p \in Defaults' : cache'[p].exists /\ cache'[p].marked
    BY <1>0, <2>2 DEF Alone
  <2>7. \A s \in Requests : req'[s].pc = "unset" /\ req'[s].alone =>
          \A p \in Defaults' : \E d \in req'[s].left : d.name = p
    BY <1>0, <2>1, <2>2 DEF Alone
  <2>8. ~excused' => \A p1, p2 \in Defaults' : p1 = p2
    BY <1>0 DEF Alone
  <2> QED BY <2>4, <2>5, <2>6, <2>7, <2>8 DEF Alone
<1> QED BY <1>1, <1>2, DefaultsAfterUnset

\* A request that runs alone has unmarked every default when it marks its own.
LEMMA SetAlone ==
  ASSUME TypeOK, CopiesOld, Alone, NEW r \in Requests, SetQueue(r), req[r].alone
  PROVE  /\ Defaults' \subseteq {req[r].name}
         /\ ~Answer(r, "failed") => Defaults' = {req[r].name}
<1>1. Defaults = {}
  BY DEF Alone, SetQueue
<1> QED BY <1>1, DefaultsAfterSet

LEMMA AloneSet ==
  ASSUME TypeOK, CopiesOld, Alone, NEW r \in Requests, SetQueue(r)
  PROVE  Alone'
<1>0. req \in [Requests -> Request] /\ UNCHANGED cache /\ Running(r)
  BY DEF TypeOK, SetQueue, Running
<1>1. \A s \in Requests : Running(s)' => Running(s) /\ s # r /\ req'[s] = req[s]
  BY <1>0, DefaultsAfterSet DEF Answer, Running, NoRequest
<1>2. CASE req[r].alone
  <2>1. \A s \in Requests : ~Running(s)'
    BY <1>0, <1>1, <1>2 DEF Alone
  <2>2. \A p1, p2 \in Defaults' : p1 = p2
    BY <1>2, SetAlone
  <2> QED BY <2>1, <2>2 DEF Alone, Running
<1>3. CASE ~req[r].alone
  <2>1. excused /\ excused'
    BY <1>0, <1>3, DefaultsAfterSet DEF Alone
  <2>2. \A s \in Requests : Running(s)' => ~req'[s].alone
    BY <1>0, <1>1 DEF Alone
  <2> QED BY <2>1, <2>2 DEF Alone, Running
<1> QED BY <1>2, <1>3

LEMMA AloneRestart ==
  ASSUME TypeOK, Alone, Restart
  PROVE  Alone'
<1>1. \A s \in Requests : ~Running(s)'
  BY DEF Restart, Running, NoRequest
<1>2. ASSUME ~excused' PROVE \A p, q \in Defaults' : p = q
  <2>1. ~excused /\ (queue[DefaultQueueName].exists \/ Defaults = {})
    BY <1>2 DEF Restart
  <2> QED BY <2>1, DefaultsAfterRestart DEF Alone
<1> QED BY <1>1, <1>2 DEF Alone, Running

LEMMA AloneStep == TypeOK /\ CopiesOld /\ Alone /\ [Next]_vars => Alone'
<1> SUFFICES ASSUME TypeOK, CopiesOld, Alone, [Next]_vars PROVE Alone'
  OBVIOUS
<1>1. ASSUME NEW r \in Requests, NEW q \in Queues, GetQueue(r, q) PROVE Alone'
  BY <1>1, AloneGet
<1>2. ASSUME NEW r \in Requests, ListQueues(r) PROVE Alone'
  BY <1>2, AloneList
<1>3. ASSUME NEW r \in Requests, UnsetQueue(r) PROVE Alone'
  BY <1>3, AloneUnset
<1>4. ASSUME NEW r \in Requests, SetQueue(r) PROVE Alone'
  BY <1>4, AloneSet
<1>5. ASSUME NEW q \in Queues, SyncQueue(q) PROVE Alone'
  <2>1. /\ Defaults' = Defaults /\ excused' = excused /\ req' = req
        /\ \A p \in Queues : cache'[p] = cache[p] \/ cache'[p] = queue'[p]
    BY <1>5 DEF SyncQueue, Defaults, TypeOK
  <2> QED BY <2>1, AloneKept DEF Defaults
<1>6. ASSUME NEW q \in Queues, EditQueue(q) \/ DeleteQueue(q) PROVE Alone'
  BY <1>6, DefaultsAfterUser, AloneKept DEF EditQueue, DeleteQueue
<1>7. CASE Restart
  BY <1>7, AloneRestart
<1>8. CASE UNCHANGED vars
  BY <1>8, AloneKept DEF vars, Defaults
<1> QED BY <1>1, <1>2, <1>3, <1>4, <1>5, <1>6, <1>7, <1>8 DEF Next

-----------------------------------------------------------------------------
(***************************************************************************)
(* The properties.                                                         *)
(***************************************************************************)

IInv == TypeOK /\ CopiesOld /\ Alone

LEMMA Inductive == Spec => []IInv
<1>1. Init => IInv
  BY TypeInit, CopiesInit, AloneInit DEF IInv
<1>2. IInv /\ [Next]_vars => IInv'
  BY TypeStep, CopiesStep, AloneStep DEF IInv
<1> QED BY <1>1, <1>2, PTL DEF Spec

\* Requests of setDefaultQueue that run alone, conflicts, deletions and restarts never make
\* a second default queue.
THEOREM AtMostOneDefault == Spec => []OneDefault
<1>1. IInv => OneDefault
  <2> SUFFICES ASSUME IInv, ~excused PROVE Cardinality(Defaults) <= 1
    BY DEF OneDefault
  <2>1. CASE Defaults = {}
    BY <2>1, FS_EmptySet
  <2>2. CASE Defaults # {}
    <3>1. PICK q \in Defaults : TRUE
      BY <2>2
    <3>2. Defaults = {q}
      BY <3>1 DEF IInv, Alone
    <3>3. Cardinality({q}) = 1
      BY FS_Singleton
    <3> QED BY <3>2, <3>3
  <2> QED BY <2>1, <2>2
<1> QED BY <1>1, Inductive, PTL

\* An unmarking of unsetAllDefaultQueues is of the very mark that the request has listed.
THEOREM MarksAreSeen == Spec => NoBlindUnmark
<1>1. IInv /\ [Next]_vars =>
        \A q \in Queues : (queue[q].marked /\ queue'[q].exists /\ ~queue'[q].marked)
          => \E r \in Requests : [name |-> q, obj |-> queue[q]] \in req[r].left
  <2> SUFFICES ASSUME IInv, [Next]_vars, NEW q \in Queues,
                      queue[q].marked, queue'[q].exists, ~queue'[q].marked
               PROVE  \E r \in Requests : [name |-> q, obj |-> queue[q]] \in req[r].left
    OBVIOUS
  <2>0. TypeOK /\ CopiesOld
    BY DEF IInv
  <2>1. ASSUME NEW r \in Requests, UnsetQueue(r)
        PROVE  [name |-> q, obj |-> queue[q]] \in req[r].left
    <3>1. PICK c \in req[r].left, ok \in BOOLEAN :
            Submit(c.name, [c.obj EXCEPT !.marked = FALSE], ok)
      BY <2>1 DEF UnsetQueue
    <3>2. /\ c \in [name : Queues, obj : QueueObject] /\ Older(c.obj, queue[c.name])
          /\ queue[c.name] \in QueueObject
      BY <2>0 DEF TypeOK, Request, CopiesOld
    <3>3. /\ \A p \in Queues : p # c.name => queue'[p] = queue[p]
          /\ queue'[c.name] = queue[c.name] \/ Accepts(queue[c.name], c.obj)
      BY <2>0, <3>1, <3>2, MarkEffect
    <3>4. q = c.name /\ Accepts(queue[q], c.obj)
      BY <3>3
    <3>5. c.obj.rv = queue[q].rv
      BY <3>4 DEF Accepts
    <3>6. c.obj = queue[q]
      BY <3>2, <3>4, <3>5 DEF Older, QueueObject
    <3>7. c = [name |-> q, obj |-> queue[q]]
      BY <3>2, <3>4, <3>6
    <3> QED BY <3>7
  <2>2. ASSUME NEW r \in Requests, SetQueue(r)
        PROVE  FALSE
    <3>1. PICK ok \in BOOLEAN : Submit(req[r].name, [req[r].copy EXCEPT !.marked = TRUE], ok)
      BY <2>2 DEF SetQueue
    <3>2. req[r].name \in Queues /\ req[r].copy \in QueueObject
      BY <2>0 DEF TypeOK, Request
    <3>3. \A p \in Queues : queue'[p] = queue[p] \/ queue'[p].marked
      BY <2>0, <3>1, <3>2, MarkEffect
    <3> QED BY <3>3
  <2>3. ASSUME NEW p \in Queues, EditQueue(p) \/ DeleteQueue(p)
        PROVE  FALSE
    BY <2>0, <2>3, UserEffect
  <2>4. ASSUME Restart
        PROVE  FALSE
    BY <2>0, <2>4, AddEffect DEF Restart
  <2>5. ASSUME UNCHANGED queue
        PROVE  FALSE
    BY <2>5
  <2> QED BY <2>1, <2>2, <2>3, <2>4, <2>5 DEF Next, vars, GetQueue, ListQueues, SyncQueue
<1> QED BY <1>1, Inductive, PTL DEF Spec, NoBlindUnmark

\* A request that ran alone and is answered without an error has made its queue the only
\* default.
THEOREM SuccessIsSole == Spec => SuccessLeavesOneDefault
<1>1. IInv /\ [Next]_vars =>
        \A r \in Requests : (req[r].pc # "ok" /\ req'[r].pc = "ok" /\ req[r].alone)
          => Defaults' = {req[r].name}
  <2> SUFFICES ASSUME IInv, [Next]_vars, NEW r \in Requests,
                      req[r].pc # "ok", req'[r].pc = "ok", req[r].alone
               PROVE  Defaults' = {req[r].name}
    OBVIOUS
  <2>0. TypeOK /\ CopiesOld /\ Alone /\ req \in [Requests -> Request]
    BY DEF IInv, TypeOK
  <2>1. ASSUME NEW s \in Requests, SetQueue(s)
        PROVE  Defaults' = {req[r].name}
    <3>1. s = r /\ ~Answer(s, "failed")
      BY <2>0, <2>1, DefaultsAfterSet DEF Answer, NoRequest
    <3> QED BY <2>0, <2>1, <3>1, SetAlone
  <2>2. ASSUME NEW s \in Requests, NEW q \in Queues, GetQueue(s, q)
        PROVE  FALSE
    BY <2>0, <2>2 DEF GetQueue, Answer, NoRequest, Request
  <2>3. ASSUME NEW s \in Requests, ListQueues(s)
        PROVE  FALSE
    BY <2>0, <2>3 DEF ListQueues, Request
  <2>4. ASSUME NEW s \in Requests, UnsetQueue(s)
        PROVE  FALSE
    BY <2>0, <2>4 DEF UnsetQueue, Answer, NoRequest, Request
  <2>5. ASSUME Restart
        PROVE  FALSE
    BY <2>0, <2>5 DEF Restart, NoRequest
  <2>6. ASSUME UNCHANGED req
        PROVE  FALSE
    BY <2>6
  <2> QED BY <2>1, <2>2, <2>3, <2>4, <2>5, <2>6 DEF Next, vars, SyncQueue, EditQueue, DeleteQueue
<1> QED BY <1>1, Inductive, PTL DEF Spec, SuccessLeavesOneDefault

=============================================================================
