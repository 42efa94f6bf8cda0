----------------------------- MODULE BuiltInData -----------------------------
(***************************************************************************)
(* How a server starts: pkg/server and pkg/data.  data.Init makes the      *)
(* public namespace and the default Ray cluster, and marks the namespace;  *)
(* an error ends the process, which is started again.  There may be        *)
(* several servers, and each runs data.Init, also those that do not lead.  *)
(*                                                                         *)
(* The default queue, which comes between the two, is in DefaultQueue,     *)
(* and the spec of the default cluster in MCRayCluster.  No webhook        *)
(* refuses that spec (AdmittedUnchanged).                                  *)
(***************************************************************************)
EXTENDS ApiServer

CONSTANTS
  Servers,
  Disturbances, MaxDisturbances   \* which of these may happen, and how many

AllDisturbances == {"crash",       \* a server dies
                    "lostCall",    \* a call fails, stored or not
                    "editNamespace", "deleteCluster"}   \* by users

ASSUME BuiltInBounds == MaxDisturbances \in Nat /\ Disturbances \subseteq AllDisturbances

VARIABLES
  publicNs,         \* the public namespace, with the annotation of the default cluster
  default,          \* the default Ray cluster
  main,             \* per server: where its start is, and its copy of the namespace
  disturbed         \* how many disturbances there were

vars == <<publicNs, default, main, disturbed>>

Namespace == [exists : BOOLEAN, rv : Nat, mark : BOOLEAN]
ClusterObject == [exists : BOOLEAN, rv : Nat]
Main == [pc : {"down", "namespace", "get", "create", "mark", "serving"}, ns : Namespace]

NoNamespace == [exists |-> FALSE, rv |-> 0, mark |-> FALSE]
Down == [pc |-> "down", ns |-> NoNamespace]

Init ==
  /\ publicNs = NoNamespace /\ default = [exists |-> FALSE, rv |-> 0]
  /\ main = [s \in Servers |-> Down]
  /\ disturbed = 0

Disturb(kind) ==
  /\ kind \in Disturbances /\ disturbed < MaxDisturbances
  /\ disturbed' = disturbed + 1

\* A call that stores new in place of old when possible holds: it is answered, it
\* is refused, or it fails although it was possible, stored or not.
Call(old, new, possible, stored, ok) ==
  \/ /\ ok /\ possible /\ stored = new
     /\ UNCHANGED disturbed
  \/ /\ ~ok /\ ~possible /\ stored = old
     /\ UNCHANGED disturbed
  \/ /\ ~ok /\ possible /\ stored \in {old, new}
     /\ Disturb("lostCall")

-----------------------------------------------------------------------------
Start(s) ==
  /\ main[s].pc = "down"
  /\ main' = [main EXCEPT ![s].pc = "namespace"]
  /\ UNCHANGED <<publicNs, default, disturbed>>

Exit(s) == main' = [main EXCEPT ![s] = Down]

Crash(s) ==
  /\ main[s].pc # "down" /\ Disturb("crash")
  /\ Exit(s)
  /\ UNCHANGED <<publicNs, default>>

\* It is applied: made unless it is there, and its annotations kept.
AddPublicNamespace(s) ==
  LET new == IF publicNs.exists THEN publicNs
             ELSE Changed(publicNs, [NoNamespace EXCEPT !.exists = TRUE])
  IN /\ main[s].pc = "namespace"
     /\ \E ok \in BOOLEAN, kept \in {publicNs, new} :
          /\ Call(publicNs, new, TRUE, kept, ok)
          /\ publicNs' = kept
          /\ IF ok THEN main' = [main EXCEPT ![s].pc = "get"] ELSE Exit(s)
     /\ UNCHANGED default

\* Mutant of Initialized: the annotation is not looked at.
InitializedNever(ns) == FALSE

Initialized(ns) == ns.mark

GetPublicNamespace(s) ==
  /\ main[s].pc = "get"
  /\ main' = [main EXCEPT ![s] = [pc |-> IF Initialized(publicNs) THEN "serving" ELSE "create",
                                  ns |-> publicNs]]
  /\ UNCHANGED <<publicNs, default, disturbed>>

\* Mutant of Created: the error of the Create is dropped.
CreatedAnyway(s, ok) == main' = [main EXCEPT ![s].pc = "mark"]

Created(s, ok) == IF ok THEN main' = [main EXCEPT ![s].pc = "mark"] ELSE Exit(s)

\* A cluster that is there, also one of an earlier start, ends the process.
CreateDefaultCluster(s) ==
  LET new == Changed(default, [exists |-> TRUE, rv |-> 0])
  IN /\ main[s].pc = "create"
     /\ \E ok \in BOOLEAN, kept \in {default, new} :
          /\ Call(default, new, ~default.exists, kept, ok)
          /\ default' = kept
          /\ Created(s, ok)
     /\ UNCHANGED publicNs

\* Mutant of Marked: the error of the Update is dropped.
MarkedAnyway(s, ok) == main' = [main EXCEPT ![s].pc = "serving"]

Marked(s, ok) == IF ok THEN main' = [main EXCEPT ![s].pc = "serving"] ELSE Exit(s)

\* The copy is that of GetPublicNamespace, from before the Create.
MarkInitialized(s) ==
  LET new == Stored(publicNs, [main[s].ns EXCEPT !.mark = TRUE])
  IN /\ main[s].pc = "mark"
     /\ \E ok \in BOOLEAN, kept \in {publicNs, new} :
          /\ Call(publicNs, new, Accepts(publicNs, main[s].ns), kept, ok)
          /\ publicNs' = kept
          /\ Marked(s, ok)
     /\ UNCHANGED default

MainStep(s) == \/ AddPublicNamespace(s) \/ GetPublicNamespace(s)
               \/ CreateDefaultCluster(s) \/ MarkInitialized(s)

-----------------------------------------------------------------------------
\* Users.

\* Labels or other annotations.
EditNamespace ==
  /\ publicNs.exists /\ Disturb("editNamespace")
  /\ publicNs' = Changed(publicNs, publicNs)
  /\ UNCHANGED <<default, main>>

DeleteDefaultCluster ==
  /\ default.exists /\ Disturb("deleteCluster")
  /\ default' = Removed(default)
  /\ UNCHANGED <<publicNs, main>>

-----------------------------------------------------------------------------
Next ==
  \/ \E s \in Servers : Start(s) \/ Crash(s) \/ MainStep(s)
  \/ EditNamespace \/ DeleteDefaultCluster

Spec == Init /\ [][Next]_vars

\* Processes are started again, and go on.
Fairness == \A s \in Servers : WF_vars(Start(s)) /\ WF_vars(MainStep(s))

FairSpec == Spec /\ Fairness

-----------------------------------------------------------------------------
(***************************************************************************)
(* Properties.                                                             *)
(***************************************************************************)

\* What the two objects and the starting servers can hold; a server has a copy only after
\* it asked for the namespace, and makes the cluster only with one that is not marked.
TypeOK ==
  /\ publicNs \in Namespace /\ default \in ClusterObject
  /\ main \in [Servers -> Main]
  /\ \A s \in Servers :
       /\ main[s].pc \in {"down", "namespace", "get"} => main[s].ns = NoNamespace
       /\ main[s].pc \in {"create", "mark"} => main[s].ns.exists /\ ~main[s].ns.mark
  /\ disturbed \in 0..MaxDisturbances

\* A server that serves has seen the default cluster made, by itself or by another: the
\* annotation is there, for whatever edits and crashes of all of them.
ServingMeansInitialized ==
  \A s \in Servers : main[s].pc = "serving" => publicNs.exists /\ publicNs.mark

\* The cluster and the annotation are stored by two calls of one server while others race
\* and die: an annotation that is there was not stored before the cluster, by anyone, so
\* that Init never skips a cluster that was not made.
RecordedMeansMade == publicNs.mark => default.rv # 0

\* The default cluster was created and the annotation was not stored.
Orphaned == default.exists /\ ~publicNs.mark

\* That is the only thing that can keep a server from serving for good: one that loses the
\* race for the default cluster, or meets an error, serves after another start.
EventuallyServing ==
  <>[]Orphaned \/ \A s \in Servers : <>[](main[s].pc = "serving")
==============================================================================
