------------------------- MODULE BuiltInDataProofs -------------------------
(***************************************************************************)
(* Theorems about BuiltInData, for any number of servers and disturbances. *)
(***************************************************************************)
EXTENDS BuiltInData, TLAPS

-----------------------------------------------------------------------------
\* What the API server stores.

LEMMA NamespaceTypes ==
  ASSUME NEW cur \in Namespace, NEW new \in Namespace
  PROVE  /\ Changed(cur, new) \in Namespace /\ Stored(cur, new) \in Namespace
         /\ Changed(cur, new).exists = new.exists /\ Stored(cur, new).exists = new.exists
         /\ Changed(cur, new).mark = new.mark /\ Stored(cur, new).mark = new.mark
<1>1. cur.rv + 1 \in Nat
  BY DEF Namespace
<1>2. ASSUME NEW n \in Nat
      PROVE  /\ [new EXCEPT !.rv = n] \in Namespace
             /\ [new EXCEPT !.rv = n].exists = new.exists /\ [new EXCEPT !.rv = n].mark = new.mark
  BY DEF Namespace
<1> QED BY <1>1, <1>2 DEF Changed, Stored

LEMMA ClusterTypes ==
  ASSUME NEW cur \in ClusterObject
  PROVE  /\ Changed(cur, [exists |-> TRUE, rv |-> 0]) \in ClusterObject
         /\ Removed(cur) \in ClusterObject
         /\ Changed(cur, [exists |-> TRUE, rv |-> 0]).rv # 0 /\ Removed(cur).rv # 0
<1>1. cur.rv + 1 \in Nat \ {0}
  BY DEF ClusterObject
<1>2. ASSUME NEW n \in Nat \ {0}
      PROVE  /\ [[exists |-> TRUE, rv |-> 0] EXCEPT !.rv = n] \in ClusterObject
             /\ [[exists |-> TRUE, rv |-> 0] EXCEPT !.rv = n].rv # 0
             /\ [cur EXCEPT !.exists = FALSE, !.rv = n] \in ClusterObject
             /\ [cur EXCEPT !.exists = FALSE, !.rv = n].rv # 0
  BY DEF ClusterObject
<1> QED BY <1>1, <1>2 DEF Changed, Removed

LEMMA Records ==
  /\ NoNamespace \in Namespace /\ ~NoNamespace.mark /\ ~NoNamespace.exists
  /\ Down \in Main /\ Down.pc = "down" /\ Down.ns = NoNamespace
BY DEF NoNamespace, Down, Namespace, Main

LEMMA MarkedNamespace ==
  ASSUME NEW ns \in Namespace
  PROVE  /\ [ns EXCEPT !.mark = TRUE] \in Namespace /\ [ns EXCEPT !.mark = TRUE].mark
         /\ [ns EXCEPT !.mark = TRUE].exists = ns.exists
BY DEF Namespace

LEMMA NewNamespace ==
  /\ [NoNamespace EXCEPT !.exists = TRUE] \in Namespace
  /\ [NoNamespace EXCEPT !.exists = TRUE].exists
BY DEF Namespace, NoNamespace

LEMMA CallEffect ==
  ASSUME NEW old, NEW new, NEW possible, NEW stored, NEW ok \in BOOLEAN,
         disturbed \in 0..MaxDisturbances, Call(old, new, possible, stored, ok)
  PROVE  /\ disturbed' \in 0..MaxDisturbances /\ stored \in {old, new}
         /\ ok => stored = new /\ possible
         /\ ~possible => stored = old
BY BuiltInBounds DEF Call, Disturb

-----------------------------------------------------------------------------
\* The namespace has the annotation only while it exists, which a server that has applied
\* it can rely on; a server that stores it has made the cluster, and one that serves has
\* seen it.

Started ==
  /\ publicNs.mark => publicNs.exists /\ default.rv # 0
  /\ \A s \in Servers :
       /\ main[s].pc \in {"get", "create", "mark", "serving"} => publicNs.exists
       /\ main[s].pc = "mark" => default.rv # 0
       /\ main[s].pc = "serving" => publicNs.mark

IInv == TypeOK /\ Started

LEMMA InvInit == Init => IInv
<1> SUFFICES ASSUME Init PROVE IInv
  OBVIOUS
<1>1. main \in [Servers -> Main] /\ \A s \in Servers : main[s] = Down
  BY Records DEF Init
<1>2. publicNs = NoNamespace /\ publicNs \in Namespace
  BY Records DEF Init
<1>3. default \in ClusterObject
  BY DEF Init, ClusterObject
<1>4. disturbed \in 0..MaxDisturbances
  BY BuiltInBounds DEF Init
<1>5. TypeOK
  BY <1>1, <1>2, <1>3, <1>4, Records DEF TypeOK
<1>6. Started
  BY <1>1, <1>2, Records DEF Started
<1> QED BY <1>5, <1>6 DEF IInv

\* A step that leaves the servers as they are, and nothing missing in the namespace.
LEMMA InvKept ==
  ASSUME IInv, UNCHANGED main, publicNs' \in Namespace, default' \in ClusterObject,
         disturbed' \in 0..MaxDisturbances,
         default.rv # 0 => default'.rv # 0,
         publicNs.exists => publicNs'.exists, publicNs'.mark = publicNs.mark
  PROVE  IInv'
BY DEF IInv, TypeOK, Started

\* A step of one server, to a state that it may be in.
LEMMA InvMoved ==
  ASSUME IInv, NEW s \in Servers, NEW next \in Main, main' = [main EXCEPT ![s] = next],
         publicNs' \in Namespace, default' \in ClusterObject,
         disturbed' \in 0..MaxDisturbances,
         default.rv # 0 => default'.rv # 0,
         publicNs.exists => publicNs'.exists, publicNs.mark => publicNs'.mark,
         publicNs'.mark => publicNs'.exists /\ default'.rv # 0,
         next.pc \in {"down", "namespace", "get"} => next.ns = NoNamespace,
         next.pc \in {"get", "create", "mark", "serving"} => publicNs'.exists,
         next.pc \in {"create", "mark"} => next.ns.exists /\ ~next.ns.mark,
         next.pc = "mark" => default'.rv # 0,
         next.pc = "serving" => publicNs'.mark
  PROVE  IInv'
<1>1. main'[s] = next /\ \A t \in Servers \ {s} : main'[t] = main[t]
  BY DEF IInv, TypeOK
<1>2. TypeOK'
  BY <1>1 DEF IInv, TypeOK
<1>3. Started'
  BY <1>1 DEF IInv, Started
<1> QED BY <1>2, <1>3 DEF IInv

LEMMA MovedTo ==
  ASSUME TypeOK, NEW s \in Servers,
         NEW pc \in {"down", "namespace", "get", "create", "mark", "serving"}
  PROVE  /\ [main EXCEPT ![s].pc = pc] = [main EXCEPT ![s] = [pc |-> pc, ns |-> main[s].ns]]
         /\ [pc |-> pc, ns |-> main[s].ns] \in Main
<1>1. main \in [Servers -> Main] /\ main[s] \in Main
  BY DEF TypeOK
<1>2. [main[s] EXCEPT !.pc = pc] = [pc |-> pc, ns |-> main[s].ns]
  BY <1>1 DEF Main
<1>3. [main EXCEPT ![s].pc = pc] = [main EXCEPT ![s] = [main[s] EXCEPT !.pc = pc]]
  BY <1>1
<1>4. [pc |-> pc, ns |-> main[s].ns] \in Main
  BY <1>1 DEF Main
<1> QED BY <1>2, <1>3, <1>4

LEMMA InvExit ==
  ASSUME IInv, NEW s \in Servers, Exit(s), publicNs' \in Namespace, default' \in ClusterObject,
         disturbed' \in 0..MaxDisturbances,
         default.rv # 0 => default'.rv # 0,
         publicNs.exists => publicNs'.exists, publicNs.mark => publicNs'.mark,
         publicNs'.mark => publicNs'.exists /\ default'.rv # 0
  PROVE  IInv'
BY InvMoved, Records DEF Exit

LEMMA InvStart ==
  ASSUME IInv, NEW s \in Servers, Start(s)
  PROVE  IInv'
<1>1. /\ main' = [main EXCEPT ![s] = [pc |-> "namespace", ns |-> main[s].ns]]
      /\ [pc |-> "namespace", ns |-> main[s].ns] \in Main
      /\ main[s].ns = NoNamespace
  BY MovedTo DEF Start, IInv, TypeOK
<1> DEFINE next == [pc |-> "namespace", ns |-> main[s].ns]
<1>2. next \in Main /\ next.pc = "namespace" /\ next.ns = NoNamespace
  BY <1>1
<1> HIDE DEF next
<1>3. main' = [main EXCEPT ![s] = next]
  BY <1>1 DEF next
<1>4. UNCHANGED <<publicNs, default, disturbed>>
  BY DEF Start
<1>5. publicNs' \in Namespace /\ default' \in ClusterObject /\ disturbed' \in 0..MaxDisturbances
  BY <1>4 DEF IInv, TypeOK
<1>6. /\ publicNs.exists => publicNs'.exists
      /\ publicNs.mark => publicNs'.mark
      /\ publicNs'.mark => publicNs'.exists /\ default'.rv # 0
      /\ default.rv # 0 => default'.rv # 0
  BY <1>4 DEF IInv, Started
<1> QED BY <1>2, <1>3, <1>5, <1>6, InvMoved

LEMMA InvAdd ==
  ASSUME IInv, NEW s \in Servers, AddPublicNamespace(s)
  PROVE  IInv'
<1> DEFINE new == IF publicNs.exists THEN publicNs
                  ELSE Changed(publicNs, [NoNamespace EXCEPT !.exists = TRUE])
<1>1. PICK ok \in BOOLEAN, kept \in {publicNs, new} :
        /\ Call(publicNs, new, TRUE, kept, ok)
        /\ publicNs' = kept
        /\ IF ok THEN main' = [main EXCEPT ![s].pc = "get"] ELSE Exit(s)
  BY DEF AddPublicNamespace
<1>2. publicNs \in Namespace /\ (publicNs.mark => publicNs.exists /\ default.rv # 0)
  BY DEF IInv, TypeOK, Started
<1>3. /\ new \in Namespace /\ new.exists /\ new.mark = publicNs.mark
  <2>1. [NoNamespace EXCEPT !.exists = TRUE].mark = FALSE
    BY DEF NoNamespace
  <2>2. CASE publicNs.exists
    BY <1>2, <2>2
  <2>3. CASE ~publicNs.exists
    <3>1. publicNs.mark = FALSE
      BY <1>2, <2>3 DEF Namespace
    <3> QED BY <1>2, <2>1, <2>3, <3>1, NamespaceTypes, NewNamespace
  <2> QED BY <2>2, <2>3
<1>4. main[s].pc = "namespace" /\ main[s].ns = NoNamespace /\ UNCHANGED default
  BY DEF AddPublicNamespace, IInv, TypeOK
<1> HIDE DEF new
<1>5. /\ disturbed' \in 0..MaxDisturbances /\ publicNs' \in {publicNs, new}
      /\ ok => publicNs' = new
  BY <1>1, BuiltInBounds DEF Call, Disturb, IInv, TypeOK
<1>6. default' \in ClusterObject
  BY <1>4 DEF IInv, TypeOK
<1>7. CASE ok
  <2>1. /\ main' = [main EXCEPT ![s] = [pc |-> "get", ns |-> main[s].ns]]
        /\ [pc |-> "get", ns |-> main[s].ns] \in Main
    BY <1>1, <1>7, MovedTo DEF IInv
  <2> QED BY <1>2, <1>3, <1>4, <1>5, <1>6, <1>7, <2>1, InvMoved
<1>8. CASE ~ok
  BY <1>1, <1>2, <1>3, <1>4, <1>5, <1>6, <1>8, InvExit
<1> QED BY <1>7, <1>8

LEMMA InvGet ==
  ASSUME IInv, NEW s \in Servers, GetPublicNamespace(s)
  PROVE  IInv'
<1> DEFINE next == [pc |-> IF Initialized(publicNs) THEN "serving" ELSE "create",
                    ns |-> publicNs]
<1>1. /\ main' = [main EXCEPT ![s] = next] /\ main[s].pc = "get"
      /\ UNCHANGED <<publicNs, default, disturbed>>
  BY DEF GetPublicNamespace
<1>2. next \in Main /\ next.ns = publicNs /\ next.pc \in {"serving", "create"}
      /\ IF next.pc = "serving" THEN publicNs.mark ELSE ~publicNs.mark
  BY DEF Initialized, Main, IInv, TypeOK
<1>3. publicNs.exists
  BY <1>1 DEF IInv, Started
<1> HIDE DEF next
<1> QED BY <1>1, <1>2, <1>3, InvMoved DEF IInv, TypeOK, Started

LEMMA InvCreate ==
  ASSUME IInv, NEW s \in Servers, CreateDefaultCluster(s)
  PROVE  IInv'
<1> DEFINE new == Changed(default, [exists |-> TRUE, rv |-> 0])
<1>1. PICK ok \in BOOLEAN, kept \in {default, new} :
        /\ Call(default, new, ~default.exists, kept, ok)
        /\ default' = kept
        /\ IF ok THEN main' = [main EXCEPT ![s].pc = "mark"] ELSE Exit(s)
  BY DEF CreateDefaultCluster, Created
<1>2. new \in ClusterObject /\ default \in ClusterObject /\ new.rv # 0
  BY ClusterTypes DEF IInv, TypeOK
<1> HIDE DEF new
<1>3. disturbed' \in 0..MaxDisturbances /\ (ok => default' = new)
  BY <1>1, CallEffect DEF IInv, TypeOK
<1>4. /\ default' \in ClusterObject /\ UNCHANGED publicNs /\ publicNs' \in Namespace
      /\ default.rv # 0 => default'.rv # 0
      /\ publicNs.mark => publicNs.exists /\ default'.rv # 0
  BY <1>1, <1>2 DEF CreateDefaultCluster, IInv, TypeOK, Started
<1>5. main[s].pc = "create" /\ publicNs.exists /\ main[s].ns.exists /\ ~main[s].ns.mark
  BY DEF CreateDefaultCluster, IInv, Started, TypeOK
<1>6. CASE ok
  <2>1. /\ main' = [main EXCEPT ![s] = [pc |-> "mark", ns |-> main[s].ns]]
        /\ [pc |-> "mark", ns |-> main[s].ns] \in Main
    BY <1>1, <1>6, MovedTo DEF IInv
  <2> QED BY <1>2, <1>3, <1>4, <1>5, <1>6, <2>1, InvMoved
<1>7. CASE ~ok
  BY <1>1, <1>3, <1>4, <1>7, InvExit
<1> QED BY <1>6, <1>7

LEMMA InvMark ==
  ASSUME IInv, NEW s \in Servers, MarkInitialized(s)
  PROVE  IInv'
<1> DEFINE new == Stored(publicNs, [main[s].ns EXCEPT !.mark = TRUE])
<1>1. PICK ok \in BOOLEAN, kept \in {publicNs, new} :
        /\ Call(publicNs, new, Accepts(publicNs, main[s].ns), kept, ok)
        /\ publicNs' = kept
        /\ Marked(s, ok)
  BY DEF MarkInitialized
<1>2. /\ main[s].pc = "mark" /\ main[s].ns \in Namespace /\ main[s].ns.exists
      /\ publicNs \in Namespace /\ publicNs.exists /\ UNCHANGED default /\ default.rv # 0
  BY DEF MarkInitialized, IInv, TypeOK, Started, Main
<1>3. new \in Namespace /\ new.exists /\ new.mark
  <2> DEFINE copy == [main[s].ns EXCEPT !.mark = TRUE]
  <2>1. copy \in Namespace /\ copy.exists /\ copy.mark
    BY <1>2, MarkedNamespace
  <2> HIDE DEF copy
  <2>2. Stored(publicNs, copy) \in Namespace /\ Stored(publicNs, copy).exists
        /\ Stored(publicNs, copy).mark
    BY <1>2, <2>1, NamespaceTypes
  <2> QED BY <2>2 DEF copy
<1> HIDE DEF new
<1>5. /\ disturbed' \in 0..MaxDisturbances /\ publicNs' \in {publicNs, new}
      /\ ok => publicNs' = new
  BY <1>1, CallEffect DEF IInv, TypeOK
<1>6. default' \in ClusterObject
  BY <1>2 DEF IInv, TypeOK
<1>7. CASE ok
  <2>1. /\ main' = [main EXCEPT ![s] = [pc |-> "serving", ns |-> main[s].ns]]
        /\ [pc |-> "serving", ns |-> main[s].ns] \in Main
    BY <1>1, <1>7, MovedTo DEF IInv, Marked
  <2> QED BY <1>2, <1>3, <1>5, <1>6, <1>7, <2>1, InvMoved
<1>8. CASE ~ok
  <2>1. Exit(s)
    BY <1>1, <1>8 DEF Marked
  <2> QED BY <1>2, <1>3, <1>5, <1>6, <2>1, InvExit
<1> QED BY <1>7, <1>8

LEMMA InvStep == IInv /\ [Next]_vars => IInv'
<1> SUFFICES ASSUME IInv, [Next]_vars PROVE IInv'
  OBVIOUS
<1>1. ASSUME NEW s \in Servers, Start(s) PROVE IInv'
  BY <1>1, InvStart
<1>2. ASSUME NEW s \in Servers, Crash(s) PROVE IInv'
  <2>1. disturbed' \in 0..MaxDisturbances
    BY <1>2, BuiltInBounds DEF Crash, Disturb, IInv, TypeOK
  <2> QED BY <1>2, <2>1, InvExit DEF Crash, IInv, TypeOK, Started
<1>3. ASSUME NEW s \in Servers, MainStep(s) PROVE IInv'
  BY <1>3, InvAdd, InvGet, InvCreate, InvMark DEF MainStep
<1>4. CASE EditNamespace
  <2>1. disturbed' \in 0..MaxDisturbances
    BY <1>4, BuiltInBounds DEF EditNamespace, Disturb, IInv, TypeOK
  <2>2. /\ publicNs' \in Namespace /\ publicNs'.exists = publicNs.exists
        /\ publicNs'.mark = publicNs.mark
    BY <1>4, NamespaceTypes DEF EditNamespace, IInv, TypeOK
  <2> QED BY <1>4, <2>1, <2>2, InvKept DEF EditNamespace, IInv, TypeOK
<1>5. CASE DeleteDefaultCluster
  <2>1. disturbed' \in 0..MaxDisturbances
    BY <1>5, BuiltInBounds DEF DeleteDefaultCluster, Disturb, IInv, TypeOK
  <2>2. default' \in ClusterObject
    BY <1>5, ClusterTypes DEF DeleteDefaultCluster, IInv, TypeOK
  <2>3. default'.rv # 0
    BY <1>5, ClusterTypes DEF DeleteDefaultCluster, IInv, TypeOK
  <2> QED BY <1>5, <2>1, <2>2, <2>3, InvKept DEF DeleteDefaultCluster, IInv, TypeOK
<1>6. CASE UNCHANGED vars
  BY <1>6 DEF vars, IInv, TypeOK, Started
<1> QED BY <1>1, <1>2, <1>3, <1>4, <1>5, <1>6 DEF Next

-----------------------------------------------------------------------------
\* Every variable has its type; a server that is starting has no copy of an earlier start,
\* and one that makes the cluster has a copy without the annotation.
THEOREM StartTypes == Spec => []TypeOK
<1>1. IInv => TypeOK
  BY DEF IInv
<1> QED BY <1>1, InvInit, InvStep, PTL DEF Spec

\* However many servers start, die and race, none serves before the default cluster is
\* recorded in the annotation, and the annotation is never lost again.
THEOREM ServingIsInitialized == Spec => []ServingMeansInitialized
<1>1. IInv => ServingMeansInitialized
  BY DEF IInv, Started, ServingMeansInitialized
<1> QED BY <1>1, InvInit, InvStep, PTL DEF Spec

\* However many servers start, die and race, the annotation is stored only after the
\* default cluster was, by the same server or another.
THEOREM RecordedIsMade == Spec => []RecordedMeansMade
<1>1. IInv => RecordedMeansMade
  BY DEF IInv, Started, RecordedMeansMade
<1> QED BY <1>1, InvInit, InvStep, PTL DEF Spec
=============================================================================
