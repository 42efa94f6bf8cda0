---------------------------- MODULE DefaultQueue ----------------------------
(***************************************************************************)
(* The setDefault action of the queue API, pkg/api/queue, and the default  *)
(* queue the server creates when it starts, pkg/data/volcano_queue.go.     *)
(*                                                                         *)
(* A request gets its queue and lists the queues from the informer cache,  *)
(* unmarks the listed defaults one API call after another, and marks its   *)
(* queue with the copy it got at first.  Requests run concurrently, and    *)
(* the first error ends one.                                               *)
(***************************************************************************)
EXTENDS ApiServer, FiniteSets

CONSTANTS
  Queues,            \* the names of Volcano queues
  DefaultQueueName,  \* the queue the server creates
  Requests,          \* POSTs of setDefault; bounds their number
  Disturbances,      \* which of AllDisturbances may happen
  MaxDisturbances    \* bound on how many of them do

AllDisturbances == {"lostReply",                   \* stored, but the reply is lost
                    "editQueue", "deleteQueue",    \* by users
                    "restart"}                     \* the server starts again

ASSUME QueueAssumption == DefaultQueueName \in Queues
ASSUME QueueBounds == MaxDisturbances \in Nat /\ Disturbances \subseteq AllDisturbances

VARIABLES
  queue,      \* API server: the queues
  cache,      \* informer cache of queues
  req,        \* the requests
  disturbed,  \* how many disturbances there were
  excused     \* history: since the last request that ran alone and succeeded, one
              \* did not run alone or the server added a second default

vars == <<queue, cache, req, disturbed, excused>>

\* A queue is marked when it has the annotation isDefaultQueue.
QueueObject == [exists : BOOLEAN, rv : Nat, marked : BOOLEAN]
NoQueue == [exists |-> FALSE, rv |-> 0, marked |-> FALSE]

\* A request: its step, its queue, the copy it got, the copies of the listed
\* defaults it has still to unmark, and, as history, whether it runs alone: with a
\* cache that was current when it began, and beside no other.
NoRequest == [pc |-> "none", name |-> DefaultQueueName, copy |-> NoQueue, left |-> {},
              alone |-> FALSE]
Request == [pc : {"none", "list", "unset", "ok", "failed"}, name : Queues, copy : QueueObject,
            left : SUBSET [name : Queues, obj : QueueObject], alone : BOOLEAN]
Running(r) == req[r].pc \in {"list", "unset"}

Defaults == {q \in Queues : queue[q].exists /\ queue[q].marked}

\* The queues getQueueObject creates and users create.
DefaultQueueObject == [exists |-> TRUE, rv |-> 1, marked |-> TRUE]
PlainQueueObject == [exists |-> TRUE, rv |-> 1, marked |-> FALSE]

Init ==
  /\ queue = [q \in Queues |-> IF q = DefaultQueueName THEN DefaultQueueObject
                                                       ELSE PlainQueueObject]
  /\ cache = queue
  /\ req = [r \in Requests |-> NoRequest]
  /\ disturbed = 0 /\ excused = FALSE

Disturb(kind) ==
  /\ kind \in Disturbances /\ disturbed < MaxDisturbances
  /\ disturbed' = disturbed + 1

\* The handler's Update of a copy of q: refused, stored, or stored and the reply lost.
Submit(q, new, ok) ==
  \/ /\ ok /\ Accepts(queue[q], new)
     /\ queue' = [queue EXCEPT ![q] = Stored(queue[q], new)]
     /\ UNCHANGED disturbed
  \/ /\ ~ok /\ ~Accepts(queue[q], new)
     /\ UNCHANGED <<queue, disturbed>>
  \/ /\ ~ok /\ Accepts(queue[q], new)
     /\ queue' = [queue EXCEPT ![q] = Stored(queue[q], new)]
     /\ Disturb("lostReply")

Answer(r, result) == req' = [req EXCEPT ![r] = [NoRequest EXCEPT !.pc = result]]

-----------------------------------------------------------------------------
\* The steps of setDefaultQueue(name).

\* Gets the queue from the cache.
GetQueue(r, q) ==
  /\ req[r].pc = "none"
  /\ \/ /\ ~cache[q].exists
        /\ Answer(r, "failed")
        /\ UNCHANGED excused
     \/ /\ cache[q].exists
        /\ LET alone == cache = queue /\ \A s \in Requests : ~Running(s)
           IN /\ req' = [s \in Requests |->
                           IF s = r THEN [pc |-> "list", name |-> q, copy |-> cache[q],
                                          left |-> {}, alone |-> alone]
                                    ELSE [req[s] EXCEPT !.alone = FALSE]]
              /\ excused' = (excused \/ ~alone)
  /\ UNCHANGED <<queue, cache, disturbed>>

\* Mutant of ListQueues: the names are kept, not the copies.
ListQueueNames(r) ==
  /\ req[r].pc = "list"
  /\ req' = [req EXCEPT ![r].pc = "unset", ![r].left = Defaults]
  /\ UNCHANGED <<queue, cache, disturbed, excused>>

\* unsetAllDefaultQueues, the List.
ListQueues(r) ==
  /\ req[r].pc = "list"
  /\ req' = [req EXCEPT ![r].pc = "unset",
                        ![r].left = {[name |-> q, obj |-> cache[q]] :
                                       q \in {p \in Queues : cache[p].exists /\ cache[p].marked}}]
  /\ UNCHANGED <<queue, cache, disturbed, excused>>

\* Mutants of UnsetQueue: an error is passed over; the queue is got anew.
UnsetQueueAnyway(r) ==
  /\ req[r].pc = "unset"
  /\ \E c \in req[r].left, ok \in BOOLEAN :
       /\ Submit(c.name, [c.obj EXCEPT !.marked = FALSE], ok)
       /\ req' = [req EXCEPT ![r].left = req[r].left \ {c}]
  /\ UNCHANGED <<cache, excused>>

UnsetQueueRetried(r) ==
  /\ req[r].pc = "unset"
  /\ \E c \in req[r].left :
       /\ Submit(c.name, [queue[c.name] EXCEPT !.marked = FALSE], queue[c.name].exists)
       /\ IF queue[c.name].exists THEN req' = [req EXCEPT ![r].left = req[r].left \ {c}]
                                  ELSE Answer(r, "failed")
  /\ UNCHANGED <<cache, excused>>

\* unsetAllDefaultQueues, one of the Updates; the lister has no order.
UnsetQueue(r) ==
  /\ req[r].pc = "unset"
  /\ \E c \in req[r].left, ok \in BOOLEAN :
       /\ Submit(c.name, [c.obj EXCEPT !.marked = FALSE], ok)
       /\ IF ok THEN req' = [req EXCEPT ![r].left = req[r].left \ {c}]
                ELSE Answer(r, "failed")
  /\ UNCHANGED <<cache, excused>>

\* When all are unmarked, the queue is marked, with the copy got at first: when it
\* was itself a default, its unmarking has made that copy stale.
SetQueue(r) ==
  /\ req[r].pc = "unset" /\ req[r].left = {}
  /\ \E ok \in BOOLEAN : /\ Submit(req[r].name, [req[r].copy EXCEPT !.marked = TRUE], ok)
                         /\ Answer(r, IF ok THEN "ok" ELSE "failed")
                         /\ excused' = (excused /\ ~(ok /\ req[r].alone))
  /\ UNCHANGED cache

-----------------------------------------------------------------------------
\* The informer, users, and the start of the server.

SyncQueue(q) ==
  /\ cache[q] # queue[q]
  /\ cache' = [cache EXCEPT ![q] = queue[q]]
  /\ UNCHANGED <<queue, req, disturbed, excused>>

EditQueue(q) ==
  /\ queue[q].exists /\ Disturb("editQueue")
  /\ queue' = [queue EXCEPT ![q] = Changed(queue[q], queue[q])]
  /\ UNCHANGED <<cache, req, excused>>

DeleteQueue(q) ==
  /\ queue[q].exists /\ Disturb("deleteQueue")
  /\ queue' = [queue EXCEPT ![q] = Removed(queue[q])]
  /\ UNCHANGED <<cache, req, excused>>

\* addDefaultQueue: the queue is created, marked, when there is none of its name.
AddDefaultQueue ==
  queue' = IF queue[DefaultQueueName].exists THEN queue
           ELSE [queue EXCEPT ![DefaultQueueName] =
                   Changed(queue[DefaultQueueName], DefaultQueueObject)]

\* The requests in progress die with the server; the new one creates the default
\* queue and lists the queues.
Restart ==
  /\ Disturb("restart")
  /\ AddDefaultQueue
  /\ cache' = queue'
  /\ req' = [r \in Requests |-> IF Running(r) THEN [NoRequest EXCEPT !.pc = "failed"]
                                              ELSE req[r]]
  /\ excused' = (excused \/ (~queue[DefaultQueueName].exists /\ Defaults # {}))

-----------------------------------------------------------------------------
Next ==
  \/ \E r \in Requests : \/ \E q \in Queues : GetQueue(r, q)
                         \/ ListQueues(r) \/ UnsetQueue(r) \/ SetQueue(r)
  \/ \E q \in Queues : SyncQueue(q) \/ EditQueue(q) \/ DeleteQueue(q)
  \/ Restart

Spec == Init /\ [][Next]_vars

-----------------------------------------------------------------------------
\* The stored and cached queues and the copies the requests of setDefaultQueue hold.
TypeOK ==
  /\ queue \in [Queues -> QueueObject] /\ cache \in [Queues -> QueueObject]
  /\ req \in [Requests -> Request]
  /\ disturbed \in 0..MaxDisturbances /\ excused \in BOOLEAN

\* There are never two default queues, although unmarking and marking are separate
\* calls, any of which may fail halfway, unless a request of setDefaultQueue ran
\* beside another or began before the cache knew of the last one, or addDefaultQueue
\* brought back a deleted default queue.  Whatever such requests have left, the next
\* one that runs alone and succeeds puts right.
OneDefault == excused \/ Cardinality(Defaults) <= 1

\* A request that unmarks a queue has seen the mark it removes: a mark that another
\* request has set since the list of unsetAllDefaultQueues stays.
NoBlindUnmark ==
  [][\A q \in Queues : (queue[q].marked /\ queue'[q].exists /\ ~queue'[q].marked)
        => \E r \in Requests : [name |-> q, obj |-> queue[q]] \in req[r].left]_vars

\* "expected to find non-default queue": when a request of setDefaultQueue that ran alone
\* answers without an error, its queue is the only default, whatever was marked before.
SuccessLeavesOneDefault ==
  [][\A r \in Requests : (req[r].pc # "ok" /\ req'[r].pc = "ok" /\ req[r].alone)
        => Defaults' = {req[r].name}]_vars
==============================================================================
