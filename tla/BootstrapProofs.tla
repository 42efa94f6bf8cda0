--------------------------- MODULE BootstrapProofs ---------------------------
(***************************************************************************)
(* Theorems about Bootstrap, for any servers, users, settings and number   *)
(* of disturbances.                                                        *)
(*                                                                         *)
(* The types come first.  Then there is one invariant, Safe: there is one  *)
(* leader (OneLeader), its copy of the setting is old at most (CopySafe),  *)
(* the setting it has stored has its default (StoredSafe), and until it    *)
(* has created the administrator there is none and none is recorded        *)
(* (AdminSafe).  A second one, Seen, is about what the caches show of      *)
(* users and bindings.                                                     *)
(***************************************************************************)
EXTENDS Bootstrap, FiniteSetTheorems, TLAPS

-----------------------------------------------------------------------------
\* What the API server stores.

LEMMA SettingTypes ==
  ASSUME NEW cur \in SettingObject, NEW new \in SettingObject
  PROVE  /\ Changed(cur, new) \in SettingObject
         /\ Changed(cur, new).exists = new.exists /\ Changed(cur, new).value = new.value
         /\ Changed(cur, new).default = new.default
         /\ cur.rv < Changed(cur, new).rv
<1>1. cur.rv + 1 \in Nat /\ cur.rv < cur.rv + 1
  BY DEF SettingObject
<1>2. ASSUME NEW n \in Nat
      PROVE  /\ [new EXCEPT !.rv = n] \in SettingObject
             /\ [new EXCEPT !.rv = n].exists = new.exists
             /\ [new EXCEPT !.rv = n].value = new.value
             /\ [new EXCEPT !.rv = n].default = new.default
             /\ [new EXCEPT !.rv = n].rv = n
  BY DEF SettingObject
<1> QED BY <1>1, <1>2 DEF Changed

LEMMA NamespaceTypes ==
  ASSUME NEW cur \in Namespace, NEW new \in Namespace
  PROVE  /\ Changed(cur, new) \in Namespace /\ Stored(cur, new) \in Namespace
         /\ Changed(cur, new).mark = new.mark
<1>1. cur.rv + 1 \in Nat
  BY DEF Namespace
<1>2. ASSUME NEW n \in Nat
      PROVE  [new EXCEPT !.rv = n] \in Namespace /\ [new EXCEPT !.rv = n].mark = new.mark
  BY DEF Namespace
<1> QED BY <1>1, <1>2 DEF Changed, Stored

LEMMA UserTypes ==
  ASSUME NEW cur \in UserObject, NEW new \in UserObject
  PROVE  /\ Changed(cur, new) \in UserObject /\ Removed(cur) \in UserObject
         /\ Changed(cur, new).exists = new.exists /\ Changed(cur, new).default = new.default
         /\ ~Removed(cur).exists
<1>1. cur.rv + 1 \in Nat
  BY DEF UserObject
<1>2. ASSUME NEW n \in Nat
      PROVE  /\ [new EXCEPT !.rv = n] \in UserObject
             /\ [new EXCEPT !.rv = n].exists = new.exists
             /\ [new EXCEPT !.rv = n].default = new.default
  BY DEF UserObject
<1>3. ASSUME NEW n \in Nat
      PROVE  /\ [cur EXCEPT !.exists = FALSE, !.rv = n] \in UserObject
             /\ ~[cur EXCEPT !.exists = FALSE, !.rv = n].exists
  BY DEF UserObject
<1> QED BY <1>1, <1>2, <1>3 DEF Changed, Removed

LEMMA Records ==
  /\ NoNamespace \in Namespace /\ [NoNamespace EXCEPT !.exists = TRUE] \in Namespace
  /\ ~[NoNamespace EXCEPT !.exists = TRUE].mark
  /\ NoSetting \in SettingObject /\ ~NoSetting.exists /\ NoSetting.value = ""
  /\ NoUser \in UserObject /\ ~NoUser.exists
  /\ Follower \in Leader /\ Follower.pc = "none"
<1>1. NoNamespace \in Namespace /\ [NoNamespace EXCEPT !.exists = TRUE] \in Namespace
      /\ ~[NoNamespace EXCEPT !.exists = TRUE].mark
  BY DEF NoNamespace, Namespace
<1>2. NoSetting \in SettingObject /\ ~NoSetting.exists /\ NoSetting.value = ""
  BY SettingAssumption DEF NoSetting, SettingObject
<1>3. NoUser \in UserObject /\ ~NoUser.exists
  BY UserAssumption DEF NoUser, UserObject
<1>4. Follower \in Leader /\ Follower.pc = "none"
  BY <1>1, <1>2 DEF Follower, Leader
<1> QED BY <1>1, <1>2, <1>3, <1>4

\* The records that are stored.
LEMMA WantedTypes ==
  ASSUME NEW s \in Servers, NEW copy \in SettingObject
  PROVE  /\ WantedSetting(s, copy) \in SettingObject
         /\ WantedSetting(s, copy).exists /\ WantedSetting(s, copy).default = Default[s]
         /\ Env[s] = "" => WantedSetting(s, copy).value = IF copy.exists THEN copy.value ELSE ""
         /\ Env[s] # "" => WantedSetting(s, copy).value = Env[s]
<1>1. Default[s] \in Values /\ Env[s] \in Values /\ copy.value \in Values
  BY SettingAssumption DEF SettingObject
<1>2. CASE copy.exists
  BY <1>1, <1>2 DEF WantedSetting, SettingObject
<1>3. CASE ~copy.exists
  BY <1>1, <1>3 DEF WantedSetting, SettingObject
<1> QED BY <1>2, <1>3

LEMMA NewUsers ==
  /\ [NoUser EXCEPT !.exists = TRUE, !.default = TRUE, !.admin = TRUE] \in UserObject
  /\ \A admin \in BOOLEAN, display \in Displays :
       /\ [NoUser EXCEPT !.exists = TRUE, !.admin = admin, !.display = display] \in UserObject
       /\ ~[NoUser EXCEPT !.exists = TRUE, !.admin = admin, !.display = display].default
BY UserAssumption DEF NoUser, UserObject

\* What a step of a leader leaves of its record.
LEMMA PcTypes ==
  ASSUME NEW l \in Leader,
         NEW pc \in {"none", "get", "store", "annotation", "list", "create", "bind", "mark",
                     "controllers"}
  PROVE  [l EXCEPT !.pc = pc] \in Leader /\ [l EXCEPT !.pc = pc].pc = pc
BY DEF Leader

LEMMA NextStore ==
  ASSUME NEW l \in Leader, NEW obj \in SettingObject
  PROVE  LET next == [l EXCEPT !.pc = "store", !.setting = obj]
         IN next \in Leader /\ next.pc = "store" /\ next.setting = obj
BY DEF Leader

LEMMA NextAnnotation ==
  ASSUME NEW l \in Leader, NEW obj \in SettingObject
  PROVE  LET next == [l EXCEPT !.pc = "annotation", !.setting = obj]
         IN next \in Leader /\ next.pc = "annotation"
BY DEF Leader

LEMMA NextList ==
  ASSUME NEW l \in Leader, NEW ns \in Namespace
  PROVE  LET next == [l EXCEPT !.pc = "list", !.ns = ns]
         IN next \in Leader /\ next.pc = "list"
BY DEF Leader

LEMMA NextBind ==
  ASSUME NEW l \in Leader, NEW u \in Users
  PROVE  LET next == [l EXCEPT !.pc = "bind", !.admin = u]
         IN next \in Leader /\ next.pc = "bind" /\ next.admin = u
BY DEF Leader

LEMMA ControllersType ==
  /\ [Follower EXCEPT !.pc = "controllers"] \in Leader
  /\ [Follower EXCEPT !.pc = "controllers"].pc = "controllers"
BY Records, PcTypes

LEMMA DisturbType ==
  ASSUME NEW kind, disturbed \in 0..MaxDisturbances, Disturb(kind)
  PROVE  disturbed' \in 0..MaxDisturbances
BY BootstrapBounds DEF Disturb

LEMMA CallType ==
  ASSUME NEW old, NEW new, NEW possible, NEW stored, NEW ok,
         disturbed \in 0..MaxDisturbances, Call(old, new, possible, stored, ok)
  PROVE  disturbed' \in 0..MaxDisturbances
BY BootstrapBounds DEF Call, Disturb

-----------------------------------------------------------------------------
\* Type correctness.  A step of the leader changes its own record.

LEMMA TypeInit == Init => TypeOK
<1> SUFFICES ASSUME Init PROVE TypeOK
  OBVIOUS
<1>1. disturbed \in 0..MaxDisturbances
  BY BootstrapBounds DEF Init
<1>2. releaseNs \in Namespace /\ setting \in SettingObject
  BY Records DEF Init
<1>3. user \in [Users -> UserObject] /\ ucache = user /\ wcache = user
  BY Records DEF Init
<1>4. lead \in [Servers -> Leader]
  BY Records DEF Init
<1> QED BY <1>1, <1>2, <1>3, <1>4 DEF Init, TypeOK

\* What starting the controllers leaves in the caches and the queue.
LEMMA StartedTypes ==
  ASSUME TypeOK, NEW s \in Servers, StartControllers(s)
  PROVE  /\ lead' = [lead EXCEPT ![s] = [Follower EXCEPT !.pc = "controllers"]]
         /\ lead' \in [Servers -> Leader]
         /\ ucache' \in [Users -> UserObject] /\ bcache' \subseteq Users \X Roles
         /\ queue' \subseteq Users
BY ControllersType DEF StartControllers, Queued, TypeOK

LEMMA ExitTypes ==
  ASSUME TypeOK, NEW s \in Servers, Exit(s)
  PROVE  lead' \in [Servers -> Leader] /\ queue' \subseteq Users
BY Records DEF Exit, TypeOK

LEMMA LeadTypes ==
  ASSUME TypeOK, NEW s \in Servers, NEW next \in Leader, lead' = [lead EXCEPT ![s] = next]
  PROVE  lead' \in [Servers -> Leader]
BY DEF TypeOK

\* The steps of s, as what it makes of its record.
LEMMA RecordType ==
  ASSUME TypeOK, NEW s \in Servers
  PROVE  lead[s] \in Leader
BY DEF TypeOK

LEMMA PcUpdate ==
  ASSUME TypeOK, NEW s \in Servers, NEW pc
  PROVE  [lead EXCEPT ![s].pc = pc] = [lead EXCEPT ![s] = [lead[s] EXCEPT !.pc = pc]]
BY DEF TypeOK

LEMMA SettingUpdate ==
  ASSUME TypeOK, NEW s \in Servers, NEW pc, NEW v
  PROVE  [lead EXCEPT ![s].pc = pc, ![s].setting = v]
           = [lead EXCEPT ![s] = [lead[s] EXCEPT !.pc = pc, !.setting = v]]
BY DEF TypeOK

LEMMA NsUpdate ==
  ASSUME TypeOK, NEW s \in Servers, NEW pc, NEW v
  PROVE  [lead EXCEPT ![s].pc = pc, ![s].ns = v]
           = [lead EXCEPT ![s] = [lead[s] EXCEPT !.pc = pc, !.ns = v]]
BY DEF TypeOK

LEMMA AdminUpdate ==
  ASSUME TypeOK, NEW s \in Servers, NEW pc, NEW v
  PROVE  [lead EXCEPT ![s].pc = pc, ![s].admin = v]
           = [lead EXCEPT ![s] = [lead[s] EXCEPT !.pc = pc, !.admin = v]]
BY DEF TypeOK

LEMMA CreateTypes ==
  ASSUME TypeOK, NEW s \in Servers, CreateAdmin(s)
  PROVE  TypeOK'
<1> DEFINE new(u) == Changed(user[u], [NoUser EXCEPT !.exists = TRUE, !.default = TRUE,
                                                     !.admin = TRUE])
<1>0. PICK u \in AdminNames : \E ok \in BOOLEAN, kept \in {user[u], new(u)} :
          /\ Call(user[u], new(u), DisplayFree("Default Admin"), kept, ok)
          /\ user' = [user EXCEPT ![u] = kept]
          /\ \/ /\ ok /\ lead' = [lead EXCEPT ![s].pc = "bind", ![s].admin = u]
                /\ UNCHANGED caches
             \/ /\ ~ok /\ lead' = [lead EXCEPT ![s] = [Follower EXCEPT !.pc = "controllers"]]
                /\ ucache' = user' /\ bcache' = binding
                /\ queue' = {v \in Users : user'[v].exists}
  BY DEF CreateAdmin
<1>1. PICK ok \in BOOLEAN, kept \in {user[u], new(u)} :
        /\ Call(user[u], new(u), DisplayFree("Default Admin"), kept, ok)
        /\ user' = [user EXCEPT ![u] = kept]
        /\ \/ /\ ok /\ lead' = [lead EXCEPT ![s].pc = "bind", ![s].admin = u]
              /\ UNCHANGED caches
           \/ /\ ~ok /\ lead' = [lead EXCEPT ![s] = [Follower EXCEPT !.pc = "controllers"]]
              /\ ucache' = user' /\ bcache' = binding
              /\ queue' = {v \in Users : user'[v].exists}
  BY <1>0
<1>2. u \in Users /\ user[u] \in UserObject /\ new(u) \in UserObject
  BY UserAssumption, UserTypes, NewUsers DEF TypeOK
<1> HIDE DEF new
<1>3. disturbed' \in 0..MaxDisturbances
  <2>1. UNCHANGED disturbed \/ Disturb("lostCall")
    BY <1>1 DEF Call
  <2> QED BY <2>1, DisturbType DEF TypeOK
<1>4. user' \in [Users -> UserObject]
  BY <1>1, <1>2 DEF TypeOK
<1>5. lead' \in [Servers -> Leader]
  <2>1. CASE lead' = [lead EXCEPT ![s].pc = "bind", ![s].admin = u]
    <3>1. [lead[s] EXCEPT !.pc = "bind", !.admin = u] \in Leader
      BY <1>2, NextBind, RecordType
    <3>2. lead' = [lead EXCEPT ![s] = [lead[s] EXCEPT !.pc = "bind", !.admin = u]]
      BY <2>1, AdminUpdate
    <3> QED BY <3>1, <3>2, LeadTypes
  <2>2. CASE lead' = [lead EXCEPT ![s] = [Follower EXCEPT !.pc = "controllers"]]
    BY <2>2, ControllersType, LeadTypes
  <2> QED BY <1>1, <2>1, <2>2
<1>6. /\ ucache' \in [Users -> UserObject] /\ bcache' \subseteq Users \X Roles
      /\ queue' \subseteq Users
  BY <1>1, <1>4 DEF caches, TypeOK
<1>7. UNCHANGED <<releaseNs, setting, binding, wcache>>
  BY DEF CreateAdmin
<1> QED BY <1>3, <1>4, <1>5, <1>6, <1>7 DEF TypeOK

LEMMA StoreTypes ==
  ASSUME TypeOK, NEW s \in Servers, StoreSetting(s)
  PROVE  TypeOK'
<1> DEFINE copy == lead[s].setting
           wanted == WantedSetting(s, copy)
           new == Changed(setting, wanted)
<1>1. copy \in SettingObject /\ new \in SettingObject
  <2>1. copy \in SettingObject
    BY RecordType DEF Leader
  <2>2. wanted \in SettingObject
    BY <2>1, WantedTypes
  <2> HIDE DEF wanted
  <2> QED BY <2>1, <2>2, SettingTypes DEF TypeOK
<1>2. /\ disturbed' \in 0..MaxDisturbances
      /\ setting' \in {setting, new}
      /\ \/ lead' = [lead EXCEPT ![s].pc = "annotation", ![s].setting = NoSetting]
            /\ UNCHANGED queue
         \/ Exit(s)
  <2>1. CASE wanted = copy
    BY <2>1 DEF StoreSetting, TypeOK
  <2>2. CASE wanted # copy
    BY <2>2, BootstrapBounds DEF StoreSetting, Call, Disturb, TypeOK
  <2> QED BY <2>1, <2>2
<1> HIDE DEF new
<1>3. lead' \in [Servers -> Leader] /\ queue' \subseteq Users
  <2>1. CASE lead' = [lead EXCEPT ![s].pc = "annotation", ![s].setting = NoSetting]
             /\ UNCHANGED queue
    <3>1. [lead[s] EXCEPT !.pc = "annotation", !.setting = NoSetting] \in Leader
      BY Records, NextAnnotation, RecordType
    <3>2. lead' = [lead EXCEPT ![s] = [lead[s] EXCEPT !.pc = "annotation",
                                                      !.setting = NoSetting]]
      BY <2>1, SettingUpdate
    <3>3. lead' \in [Servers -> Leader]
      BY <3>1, <3>2, LeadTypes
    <3> QED BY <2>1, <3>3 DEF TypeOK
  <2>2. CASE Exit(s)
    BY <2>2, ExitTypes
  <2> QED BY <1>2, <2>1, <2>2
<1>4. setting' \in SettingObject
  BY <1>1, <1>2 DEF TypeOK
<1>5. UNCHANGED <<releaseNs, users, ucache, bcache, wcache>>
  BY DEF StoreSetting
<1> QED BY <1>2, <1>3, <1>4, <1>5 DEF users, TypeOK

\* The other steps of the leader.
LEMMA LeadStepTypes ==
  ASSUME TypeOK, NEW s \in Servers, LeadStep(s),
         lead[s].pc = "bind" => lead[s].admin \in Users
  PROVE  TypeOK'
<1>1. CASE GetSetting(s)
  <2>1. [lead[s] EXCEPT !.pc = "store", !.setting = setting] \in Leader
    BY NextStore, RecordType DEF TypeOK
  <2>2. lead' = [lead EXCEPT ![s] = [lead[s] EXCEPT !.pc = "store", !.setting = setting]]
    BY <1>1, SettingUpdate DEF GetSetting
  <2>3. lead' \in [Servers -> Leader]
    BY <2>1, <2>2, LeadTypes
  <2> QED BY <1>1, <2>3 DEF GetSetting, users, caches, TypeOK
<1>2. CASE StoreSetting(s)
  BY <1>2, StoreTypes
<1>3. CASE GetReleaseNamespace(s)
  <2>1. CASE StartControllers(s)
    BY <1>3, <2>1, StartedTypes DEF GetReleaseNamespace, users, TypeOK
  <2>2. CASE /\ lead' = [lead EXCEPT ![s].pc = "list", ![s].ns = releaseNs]
             /\ UNCHANGED caches
    <3>1. [lead[s] EXCEPT !.pc = "list", !.ns = releaseNs] \in Leader
      BY NextList, RecordType DEF TypeOK
    <3>2. lead' = [lead EXCEPT ![s] = [lead[s] EXCEPT !.pc = "list", !.ns = releaseNs]]
      BY <2>2, NsUpdate
    <3>3. lead' \in [Servers -> Leader]
      BY <3>1, <3>2, LeadTypes
    <3> QED BY <1>3, <2>2, <3>3 DEF GetReleaseNamespace, users, caches, TypeOK
  <2> QED BY <1>3, <2>1, <2>2 DEF GetReleaseNamespace
<1>4. CASE ListAdmins(s)
  <2>1. CASE StartControllers(s)
    BY <1>4, <2>1, StartedTypes DEF ListAdmins, users, TypeOK
  <2>2. CASE lead' = [lead EXCEPT ![s].pc = "create"] /\ UNCHANGED caches
    <3>1. [lead[s] EXCEPT !.pc = "create"] \in Leader
      BY PcTypes, RecordType
    <3>2. lead' \in [Servers -> Leader]
      BY <2>2, <3>1, PcUpdate, LeadTypes
    <3> QED BY <1>4, <2>2, <3>2 DEF ListAdmins, users, caches, TypeOK
  <2> QED BY <1>4, <2>1, <2>2 DEF ListAdmins
<1>5. CASE CreateAdmin(s)
  BY <1>5, CreateTypes
<1>6. CASE BindAdmin(s)
  <2> DEFINE new == Bound(lead[s].admin, "cluster-admin")
  <2>1. new \subseteq Users \X Roles
    BY <1>6 DEF BindAdmin, Bound, Roles, TypeOK
  <2>2. PICK ok \in BOOLEAN, kept \in {binding, new} :
          /\ disturbed' \in 0..MaxDisturbances
          /\ binding' = kept
          /\ \/ ok /\ lead' = [lead EXCEPT ![s].pc = "mark"] /\ UNCHANGED caches
             \/ /\ ~ok /\ lead' = [lead EXCEPT ![s] = [Follower EXCEPT !.pc = "controllers"]]
                /\ ucache' = user /\ bcache' = kept /\ queue' = Queued
    BY <1>6, BootstrapBounds DEF BindAdmin, Call, Disturb, TypeOK
  <2> HIDE DEF new
  <2>3. binding' \subseteq Users \X Roles
    BY <2>1, <2>2 DEF TypeOK
  <2>4. CASE lead' = [lead EXCEPT ![s].pc = "mark"] /\ UNCHANGED caches
    <3>1. [lead[s] EXCEPT !.pc = "mark"] \in Leader
      BY PcTypes, RecordType
    <3>2. lead' \in [Servers -> Leader]
      BY <2>4, <3>1, PcUpdate, LeadTypes
    <3> QED BY <1>6, <2>2, <2>3, <2>4, <3>2 DEF BindAdmin, caches, TypeOK
  <2>5. CASE /\ lead' = [lead EXCEPT ![s] = [Follower EXCEPT !.pc = "controllers"]]
             /\ ucache' = user /\ bcache' = binding' /\ queue' = Queued
    <3>1. lead' \in [Servers -> Leader] /\ queue' \subseteq Users
      BY <2>5, ControllersType, LeadTypes DEF Queued
    <3> QED BY <1>6, <2>2, <2>3, <2>5, <3>1 DEF BindAdmin, TypeOK
  <2> QED BY <2>2, <2>4, <2>5
<1>7. CASE MarkCreated(s)
  <2> DEFINE wanted == [lead[s].ns EXCEPT !.mark = TRUE]
             new == Stored(releaseNs, wanted)
  <2>1. new \in Namespace
    <3>1. wanted \in Namespace
      BY RecordType DEF Leader, Namespace
    <3> HIDE DEF wanted
    <3> QED BY <3>1, NamespaceTypes DEF TypeOK
  <2>2. disturbed' \in 0..MaxDisturbances /\ releaseNs' \in {releaseNs, new}
    BY <1>7, BootstrapBounds DEF MarkCreated, Call, Disturb, TypeOK
  <2> HIDE DEF new
  <2>3. releaseNs' \in Namespace
    BY <2>1, <2>2 DEF TypeOK
  <2> QED BY <1>7, <2>2, <2>3, StartedTypes DEF MarkCreated, users, TypeOK
<1> QED BY <1>1, <1>2, <1>3, <1>4, <1>5, <1>6, <1>7 DEF LeadStep

LEMMA OnChangedTypes ==
  ASSUME TypeOK, NEW u \in Users, OnChanged(u)
  PROVE  TypeOK'
<1> DEFINE new == Bound(u, RoleOf(ucache[u]))
<1>1. new \subseteq Users \X Roles
  BY DEF Bound, RoleOf, Roles, TypeOK
<1>2. disturbed' \in 0..MaxDisturbances /\ binding' \in {binding, new} /\ queue' \subseteq Users
  BY BootstrapBounds DEF OnChanged, Ended, Call, Disturb, TypeOK
<1> HIDE DEF new
<1> QED BY <1>1, <1>2 DEF OnChanged, TypeOK

\* The steps of the users and of the caches.
LEMMA OtherTypes ==
  ASSUME TypeOK, NEW u \in Users,
         \/ SyncUser(u) \/ SyncWebhook(u) \/ DeleteUser(u) \/ ChangeRole(u)
         \/ \E a \in BOOLEAN, d \in Displays : CreateUser(u, a, d)
  PROVE  TypeOK'
<1>1. CASE SyncUser(u)
  BY <1>1 DEF SyncUser, users, TypeOK
<1>2. CASE SyncWebhook(u)
  BY <1>2 DEF SyncWebhook, users, caches, TypeOK
<1>3. CASE DeleteUser(u)
  <2>1. disturbed' \in 0..MaxDisturbances
    BY <1>3, DisturbType DEF DeleteUser, TypeOK
  <2>2. Removed(user[u]) \in UserObject
    BY UserTypes DEF TypeOK
  <2>3. user' \in [Users -> UserObject]
    BY <1>3, <2>2 DEF DeleteUser, TypeOK
  <2> QED BY <1>3, <2>1, <2>3 DEF DeleteUser, caches, TypeOK
<1>4. CASE ChangeRole(u)
  <2> DEFINE changed == [user[u] EXCEPT !.admin = ~@]
  <2>1. disturbed' \in 0..MaxDisturbances
    BY <1>4, DisturbType DEF ChangeRole, TypeOK
  <2>2. changed \in UserObject
    BY DEF UserObject, TypeOK
  <2>3. user' = [user EXCEPT ![u] = Changed(user[u], changed)]
    BY <1>4 DEF ChangeRole
  <2> HIDE DEF changed
  <2>4. Changed(user[u], changed) \in UserObject
    BY <2>2, UserTypes DEF TypeOK
  <2>5. user' \in [Users -> UserObject]
    BY <2>3, <2>4 DEF TypeOK
  <2> QED BY <1>4, <2>1, <2>5 DEF ChangeRole, caches, TypeOK
<1>5. ASSUME NEW a \in BOOLEAN, NEW d \in Displays, CreateUser(u, a, d)
      PROVE  TypeOK'
  <2> DEFINE made == [NoUser EXCEPT !.exists = TRUE, !.admin = a, !.display = d]
  <2>1. made \in UserObject
    BY NewUsers
  <2>2. user' = [user EXCEPT ![u] = Changed(user[u], made)]
    BY <1>5 DEF CreateUser
  <2> HIDE DEF made
  <2>3. Changed(user[u], made) \in UserObject
    BY <2>1, UserTypes DEF TypeOK
  <2>4. user' \in [Users -> UserObject]
    BY <2>2, <2>3 DEF TypeOK
  <2> QED BY <1>5, <2>4 DEF CreateUser, caches, TypeOK
<1> QED BY <1>1, <1>2, <1>3, <1>4, <1>5

LEMMA SyncBindingsTypes ==
  ASSUME TypeOK, SyncBindings
  PROVE  TypeOK'
BY DEF SyncBindings, users, TypeOK

LEMMA EditTypes ==
  ASSUME TypeOK, NEW v \in Values, EditSetting(v)
  PROVE  TypeOK'
<1> DEFINE edited == [setting EXCEPT !.value = v]
<1>1. disturbed' \in 0..MaxDisturbances
  BY DisturbType DEF EditSetting, TypeOK
<1>2. edited \in SettingObject
  BY DEF SettingObject, TypeOK
<1>3. setting' = Changed(setting, edited)
  BY DEF EditSetting
<1> HIDE DEF edited
<1>4. setting' \in SettingObject
  BY <1>2, <1>3, SettingTypes DEF TypeOK
<1> QED BY <1>1, <1>4 DEF EditSetting, users, caches, TypeOK

LEMMA NamespaceEditTypes ==
  ASSUME TypeOK, EditNamespace
  PROVE  TypeOK'
<1>1. disturbed' \in 0..MaxDisturbances
  BY DisturbType DEF EditNamespace, TypeOK
<1>2. releaseNs' \in Namespace
  BY NamespaceTypes DEF EditNamespace, TypeOK
<1> QED BY <1>1, <1>2 DEF EditNamespace, users, caches, TypeOK

-----------------------------------------------------------------------------
\* The invariant.

\* There is one leader.
OneLeader == \A s, t \in Servers : lead[s].pc # "none" /\ lead[t].pc # "none" => s = t

\* The copy that s is about to store is the setting, or an older one with its default:
\* users edit the value alone.
CopySafe(s) ==
  lead[s].pc = "store" =>
    /\ lead[s].setting.rv <= setting.rv
    /\ lead[s].setting.rv = setting.rv => lead[s].setting = setting
    /\ lead[s].setting.exists => setting.exists /\ setting.default = lead[s].setting.default

\* Once s has stored the setting, it has the default of s.
StoredSafe(s) ==
  lead[s].pc \in {"annotation", "list", "create", "bind", "mark", "controllers"} =>
    setting.exists /\ setting.default = Default[s]

\* Until s has created the administrator there is none, and until it has stored the
\* annotation there is no annotation.
AdminSafe(s) ==
  /\ lead[s].pc = "create" => Admins = {}
  /\ lead[s].pc \in {"list", "create", "bind", "mark"} => ~releaseNs.mark
  /\ lead[s].pc = "bind" => lead[s].admin \in Users

LeaderSafe(s) == CopySafe(s) /\ StoredSafe(s) /\ AdminSafe(s)

Safe ==
  /\ OneLeader
  /\ setting.exists \/ setting.value = ""
  /\ \A u, v \in Admins : u = v
  /\ \A s \in Servers : LeaderSafe(s)

IInv == TypeOK /\ Safe

\* A server that does not lead has nothing to be safe.
LEMMA FollowerSafe ==
  ASSUME NEW s \in Servers, lead[s].pc = "none"
  PROVE  LeaderSafe(s)
BY DEF LeaderSafe, CopySafe, StoredSafe, AdminSafe

\* A step of the leader, or of a server that becomes it.
LEMMA Moved ==
  ASSUME TypeOK, OneLeader, NEW s \in Servers, NEW next \in Leader,
         lead[s].pc # "none" \/ \A t \in Servers : lead[t].pc = "none",
         lead' = [lead EXCEPT ![s] = next]
  PROVE  /\ OneLeader' /\ lead'[s] = next
         /\ LeaderSafe(s)' => \A t \in Servers : LeaderSafe(t)'
<1>1. lead'[s] = next /\ \A t \in Servers : t # s => lead'[t] = lead[t]
  BY DEF TypeOK
<1>2. \A t \in Servers : t # s => lead[t].pc = "none"
  BY DEF OneLeader
<1>3. ASSUME NEW t \in Servers, t # s
      PROVE  LeaderSafe(t)'
  BY <1>1, <1>2, <1>3 DEF LeaderSafe, CopySafe, StoredSafe, AdminSafe
<1>4. OneLeader'
  BY <1>1, <1>2 DEF OneLeader
<1> QED BY <1>1, <1>3, <1>4

LEMMA SafeInit == Init => Safe
<1> SUFFICES ASSUME Init PROVE Safe
  OBVIOUS
<1>1. \A s \in Servers : lead[s].pc = "none"
  BY Records DEF Init
<1>2. Admins = {}
  BY Records DEF Init, Admins
<1>3. ~setting.exists /\ setting.value = ""
  BY Records DEF Init
<1> QED BY <1>1, <1>2, <1>3, FollowerSafe DEF Safe, OneLeader

\* The leader's steps.  Those that leave the objects alone move it only.
LEMMA ObjectsKept ==
  ASSUME UNCHANGED <<releaseNs, setting, user>>
  PROVE  Admins' = Admins
BY DEF Admins

\* The controllers start.
LEMMA StartedSafe ==
  ASSUME IInv, NEW s \in Servers, lead[s].pc # "none",
         lead' = [lead EXCEPT ![s] = [Follower EXCEPT !.pc = "controllers"]],
         StoredSafe(s), lead[s].pc \in {"annotation", "list", "create", "bind", "mark"},
         UNCHANGED setting,
         \A u, v \in Admins' : u = v
  PROVE  Safe'
<1>1. /\ OneLeader' /\ lead'[s].pc = "controllers"
      /\ LeaderSafe(s)' => \A t \in Servers : LeaderSafe(t)'
  BY ControllersType, Moved DEF IInv, Safe
<1>2. LeaderSafe(s)'
  BY <1>1 DEF LeaderSafe, CopySafe, StoredSafe, AdminSafe
<1> QED BY <1>1, <1>2 DEF IInv, Safe

LEMMA LeadSafe ==
  ASSUME IInv, NEW s \in Servers, Lead(s)
  PROVE  Safe'
<1> DEFINE next == [lead[s] EXCEPT !.pc = "get"]
<1>1. next \in Leader /\ next.pc = "get"
  <2>1. lead[s] \in Leader
    BY RecordType DEF IInv
  <2> QED BY <2>1, PcTypes
<1>2. lead' = [lead EXCEPT ![s] = next]
  BY PcUpdate DEF IInv, Lead
<1> HIDE DEF next
<1>3. /\ OneLeader' /\ lead'[s].pc = "get"
      /\ LeaderSafe(s)' => \A t \in Servers : LeaderSafe(t)'
  BY <1>1, <1>2, Moved DEF IInv, Safe, Lead
<1>4. LeaderSafe(s)'
  BY <1>3 DEF LeaderSafe, CopySafe, StoredSafe, AdminSafe
<1>5. UNCHANGED setting /\ Admins' = Admins
  BY DEF Lead, users, Admins
<1> QED BY <1>3, <1>4, <1>5 DEF IInv, Safe

\* A server that ends.
LEMMA ExitSafe ==
  ASSUME IInv, NEW s \in Servers, lead[s].pc # "none", Exit(s),
         setting'.exists \/ setting'.value = "", \A u, v \in Admins' : u = v
  PROVE  Safe'
<1>1. /\ OneLeader' /\ lead'[s].pc = "none"
      /\ LeaderSafe(s)' => \A t \in Servers : LeaderSafe(t)'
  BY Records, Moved DEF IInv, Safe, Exit
<1>2. LeaderSafe(s)'
  BY <1>1 DEF LeaderSafe, CopySafe, StoredSafe, AdminSafe
<1> QED BY <1>1, <1>2 DEF Safe

LEMMA GetSettingSafe ==
  ASSUME IInv, NEW s \in Servers, GetSetting(s)
  PROVE  Safe'
<1> DEFINE next == [lead[s] EXCEPT !.pc = "store", !.setting = setting]
<1>1. next \in Leader /\ next.pc = "store" /\ next.setting = setting
  <2>1. lead[s] \in Leader /\ setting \in SettingObject
    BY RecordType DEF IInv, TypeOK
  <2>2. next = [lead[s] EXCEPT !.pc = "store", !.setting = setting]
    OBVIOUS
  <2> HIDE DEF next
  <2>3. next \in Leader /\ next.pc = "store"
    BY <2>1, <2>2, NextStore
  <2>4. next.setting = setting
    BY <2>1, <2>2, NextStore
  <2> QED BY <2>3, <2>4
<1>2. lead' = [lead EXCEPT ![s] = next]
  BY SettingUpdate DEF IInv, GetSetting
<1> HIDE DEF next
<1>3. /\ OneLeader' /\ lead'[s] = next
      /\ LeaderSafe(s)' => \A t \in Servers : LeaderSafe(t)'
  BY <1>1, <1>2, Moved DEF IInv, Safe, GetSetting
<1>4. UNCHANGED setting /\ Admins' = Admins
  BY DEF GetSetting, users, Admins
<1>5. setting.rv <= setting.rv
  BY DEF IInv, TypeOK, SettingObject
<1>6. LeaderSafe(s)'
  BY <1>1, <1>3, <1>4, <1>5 DEF LeaderSafe, CopySafe, StoredSafe, AdminSafe
<1> QED BY <1>3, <1>4, <1>6 DEF IInv, Safe

\* What StoreSetting makes of the setting: nothing, or the default of the code and,
\* unless the environment has one, the value that was there.
LEMMA StoreEffect ==
  ASSUME IInv, NEW s \in Servers, StoreSetting(s)
  PROVE  /\ \/ UNCHANGED setting
            \/ /\ setting'.exists /\ setting'.default = Default[s]
               /\ Env[s] = "" => setting'.value = setting.value
               /\ Env[s] # "" => setting'.value = Env[s]
         /\ \/ /\ lead' = [lead EXCEPT ![s].pc = "annotation", ![s].setting = NoSetting]
               /\ setting'.exists /\ setting'.default = Default[s]
            \/ Exit(s)
<1> DEFINE copy == lead[s].setting
           wanted == WantedSetting(s, copy)
           new == Changed(setting, wanted)
<1>1. copy \in SettingObject
  BY RecordType DEF IInv, Leader
<1>2. /\ wanted.exists /\ wanted.default = Default[s]
      /\ Env[s] = "" => wanted.value = IF copy.exists THEN copy.value ELSE ""
      /\ Env[s] # "" => wanted.value = Env[s]
  BY <1>1, WantedTypes
<1>3. /\ new.exists /\ new.default = Default[s] /\ new.value = wanted.value
  <2>1. wanted \in SettingObject /\ setting \in SettingObject
    BY <1>1, WantedTypes DEF IInv, TypeOK
  <2> HIDE DEF wanted
  <2> QED BY <1>2, <2>1, SettingTypes
<1>4. CopySafe(s) /\ lead[s].pc = "store" /\ (setting.exists \/ setting.value = "")
  BY DEF IInv, Safe, LeaderSafe, StoreSetting
<1>5. /\ StoreSetting(s)
      /\ \/ /\ wanted = copy /\ UNCHANGED setting
            /\ lead' = [lead EXCEPT ![s].pc = "annotation", ![s].setting = NoSetting]
         \/ \E ok \in BOOLEAN, kept \in {setting, new} :
              /\ Call(setting, new, SettingAccepted(copy), kept, ok)
              /\ setting' = kept
              /\ \/ ok /\ lead' = [lead EXCEPT ![s].pc = "annotation", ![s].setting = NoSetting]
                 \/ ~ok /\ Exit(s)
  BY DEF StoreSetting
<1>6. CASE /\ wanted = copy /\ UNCHANGED setting
           /\ lead' = [lead EXCEPT ![s].pc = "annotation", ![s].setting = NoSetting]
  <2>1. setting.exists /\ setting.default = Default[s]
    BY <1>2, <1>4, <1>6 DEF CopySafe
  <2> QED BY <1>6, <2>1
<1>7. CASE \E ok \in BOOLEAN, kept \in {setting, new} :
             /\ Call(setting, new, SettingAccepted(copy), kept, ok)
             /\ setting' = kept
             /\ \/ ok /\ lead' = [lead EXCEPT ![s].pc = "annotation", ![s].setting = NoSetting]
                \/ ~ok /\ Exit(s)
  <2> HIDE DEF copy, new, wanted
  <2>1. PICK ok \in BOOLEAN, kept \in {setting, new} :
          /\ Call(setting, new, SettingAccepted(copy), kept, ok)
          /\ setting' = kept
          /\ \/ ok /\ lead' = [lead EXCEPT ![s].pc = "annotation", ![s].setting = NoSetting]
             \/ ~ok /\ Exit(s)
    BY <1>7
  <2>2. ~SettingAccepted(copy) => setting' = setting /\ ~ok
    BY <2>1 DEF Call
  <2>3. ok => setting' = new
    BY <2>1 DEF Call
  <2>4. SettingAccepted(copy) => (Env[s] = "" => new.value = setting.value)
    <3>1. CASE copy.exists
      BY <1>2, <1>3, <1>4, <3>1 DEF SettingAccepted, Accepts, CopySafe, copy
    <3>2. CASE ~copy.exists
      BY <1>2, <1>3, <1>4, <3>2 DEF SettingAccepted
    <3> QED BY <3>1, <3>2
  <2> QED BY <1>2, <1>3, <2>1, <2>2, <2>3, <2>4
<1> QED BY <1>5, <1>6, <1>7

LEMMA StoreSafe ==
  ASSUME IInv, NEW s \in Servers, StoreSetting(s)
  PROVE  Safe'
<1>1. lead[s].pc = "store" /\ Admins' = Admins
  BY DEF StoreSetting, users, Admins
<1>2. setting'.exists \/ setting'.value = ""
  BY StoreEffect DEF IInv, Safe
<1>3. CASE Exit(s)
  BY <1>1, <1>2, <1>3, ExitSafe DEF IInv, Safe
<1>4. CASE /\ lead' = [lead EXCEPT ![s].pc = "annotation", ![s].setting = NoSetting]
           /\ setting'.exists /\ setting'.default = Default[s]
  <2> DEFINE next == [lead[s] EXCEPT !.pc = "annotation", !.setting = NoSetting]
  <2>1. next \in Leader /\ next.pc = "annotation"
    <3>1. lead[s] \in Leader /\ NoSetting \in SettingObject
      BY RecordType, Records DEF IInv
    <3>2. next = [lead[s] EXCEPT !.pc = "annotation", !.setting = NoSetting]
      OBVIOUS
    <3> HIDE DEF next
    <3> QED BY <3>1, <3>2, NextAnnotation
  <2>2. lead' = [lead EXCEPT ![s] = next]
    BY <1>4, SettingUpdate DEF IInv
  <2> HIDE DEF next
  <2>3. /\ OneLeader' /\ lead'[s] = next
        /\ LeaderSafe(s)' => \A t \in Servers : LeaderSafe(t)'
    BY <1>1, <2>1, <2>2, Moved DEF IInv, Safe
  <2>4. LeaderSafe(s)'
    BY <1>4, <2>1, <2>3 DEF LeaderSafe, CopySafe, StoredSafe, AdminSafe
  <2> QED BY <1>1, <1>2, <2>3, <2>4 DEF IInv, Safe
<1> QED BY <1>3, <1>4, StoreEffect


LEMMA GetReleaseNamespaceSafe ==
  ASSUME IInv, NEW s \in Servers, GetReleaseNamespace(s)
  PROVE  Safe'
<1>1. lead[s].pc = "annotation" /\ UNCHANGED <<releaseNs, setting, user>> /\ Admins' = Admins
  BY DEF GetReleaseNamespace, users, Admins
<1>2. StoredSafe(s) /\ (\A u, v \in Admins' : u = v)
  BY <1>1 DEF IInv, Safe, LeaderSafe
<1>3. CASE StartControllers(s)
  BY <1>1, <1>2, <1>3, StartedSafe DEF StartControllers
<1>4. CASE ~releaseNs.mark /\ lead' = [lead EXCEPT ![s].pc = "list", ![s].ns = releaseNs]
  <2> DEFINE next == [lead[s] EXCEPT !.pc = "list", !.ns = releaseNs]
  <2>1. next \in Leader /\ next.pc = "list"
    <3>1. lead[s] \in Leader /\ releaseNs \in Namespace
      BY RecordType DEF IInv, TypeOK
    <3>2. next = [lead[s] EXCEPT !.pc = "list", !.ns = releaseNs]
      OBVIOUS
    <3> HIDE DEF next
    <3> QED BY <3>1, <3>2, NextList
  <2>2. lead' = [lead EXCEPT ![s] = next]
    BY <1>4, NsUpdate DEF IInv
  <2> HIDE DEF next
  <2>3. /\ OneLeader' /\ lead'[s] = next
        /\ LeaderSafe(s)' => \A t \in Servers : LeaderSafe(t)'
    BY <1>1, <2>1, <2>2, Moved DEF IInv, Safe
  <2>4. LeaderSafe(s)'
    BY <1>1, <1>2, <1>4, <2>1, <2>3 DEF LeaderSafe, CopySafe, StoredSafe, AdminSafe
  <2> QED BY <1>1, <1>2, <2>3, <2>4 DEF IInv, Safe
<1> QED BY <1>3, <1>4 DEF GetReleaseNamespace, AdminCreated

LEMMA ListAdminsSafe ==
  ASSUME IInv, NEW s \in Servers, ListAdmins(s)
  PROVE  Safe'
<1>1. lead[s].pc = "list" /\ UNCHANGED <<releaseNs, setting, user>> /\ Admins' = Admins
  BY DEF ListAdmins, users, Admins
<1>2. StoredSafe(s) /\ AdminSafe(s) /\ (\A u, v \in Admins' : u = v)
  BY <1>1 DEF IInv, Safe, LeaderSafe
<1>3. CASE StartControllers(s)
  BY <1>1, <1>2, <1>3, StartedSafe DEF StartControllers
<1>4. CASE Admins = {} /\ lead' = [lead EXCEPT ![s].pc = "create"]
  <2> DEFINE next == [lead[s] EXCEPT !.pc = "create"]
  <2>1. next \in Leader /\ next.pc = "create"
    <3>1. lead[s] \in Leader
      BY RecordType DEF IInv
    <3> QED BY <3>1, PcTypes
  <2>2. lead' = [lead EXCEPT ![s] = next]
    BY <1>4, PcUpdate DEF IInv
  <2> HIDE DEF next
  <2>3. /\ OneLeader' /\ lead'[s] = next
        /\ LeaderSafe(s)' => \A t \in Servers : LeaderSafe(t)'
    BY <1>1, <2>1, <2>2, Moved DEF IInv, Safe
  <2>4. LeaderSafe(s)'
    BY <1>1, <1>2, <1>4, <2>1, <2>3 DEF LeaderSafe, CopySafe, StoredSafe, AdminSafe
  <2> QED BY <1>1, <1>2, <2>3, <2>4 DEF IInv, Safe
<1> QED BY <1>3, <1>4 DEF ListAdmins

\* The only step that makes a default administrator starts from none.
LEMMA CreateAdminSafe ==
  ASSUME IInv, NEW s \in Servers, CreateAdmin(s)
  PROVE  Safe'
<1>1. /\ lead[s].pc = "create" /\ UNCHANGED <<releaseNs, setting>>
      /\ Admins = {} /\ StoredSafe(s) /\ AdminSafe(s)
  BY DEF CreateAdmin, IInv, Safe, LeaderSafe, AdminSafe
<1>2. PICK u \in AdminNames :
        /\ \E kept : user' = [user EXCEPT ![u] = kept]
        /\ \/ lead' = [lead EXCEPT ![s].pc = "bind", ![s].admin = u]
           \/ lead' = [lead EXCEPT ![s] = [Follower EXCEPT !.pc = "controllers"]]
  BY DEF CreateAdmin
<1>3. Admins' \subseteq {u}
  <2>1. \A v \in Users : v # u => user'[v] = user[v]
    BY <1>2 DEF IInv, TypeOK
  <2> QED BY <1>1, <2>1 DEF Admins
<1>4. CASE lead' = [lead EXCEPT ![s] = [Follower EXCEPT !.pc = "controllers"]]
  BY <1>1, <1>3, <1>4, StartedSafe
<1>5. CASE lead' = [lead EXCEPT ![s].pc = "bind", ![s].admin = u]
  <2> DEFINE next == [lead[s] EXCEPT !.pc = "bind", !.admin = u]
  <2>1. next \in Leader /\ next.pc = "bind" /\ next.admin = u /\ u \in Users
    <3>1. lead[s] \in Leader /\ u \in Users
      BY RecordType, UserAssumption DEF IInv
    <3>2. next = [lead[s] EXCEPT !.pc = "bind", !.admin = u]
      OBVIOUS
    <3> HIDE DEF next
    <3>3. next \in Leader /\ next.pc = "bind"
      BY <3>1, <3>2, NextBind
    <3>4. next.admin = u
      BY <3>1, <3>2, NextBind
    <3> QED BY <3>1, <3>3, <3>4
  <2>2. lead' = [lead EXCEPT ![s] = next]
    BY <1>5, AdminUpdate DEF IInv
  <2> HIDE DEF next
  <2>3. /\ OneLeader' /\ lead'[s] = next
        /\ LeaderSafe(s)' => \A t \in Servers : LeaderSafe(t)'
    BY <1>1, <2>1, <2>2, Moved DEF IInv, Safe
  <2>4. LeaderSafe(s)'
    BY <1>1, <2>1, <2>3 DEF LeaderSafe, CopySafe, StoredSafe, AdminSafe
  <2> QED BY <1>1, <1>3, <2>3, <2>4 DEF IInv, Safe
<1> QED BY <1>2, <1>4, <1>5

LEMMA BindAdminSafe ==
  ASSUME IInv, NEW s \in Servers, BindAdmin(s)
  PROVE  Safe'
<1>1. lead[s].pc = "bind" /\ UNCHANGED <<releaseNs, setting, user>> /\ Admins' = Admins
  BY DEF BindAdmin, Admins
<1>2. StoredSafe(s) /\ AdminSafe(s) /\ (\A u, v \in Admins' : u = v)
  BY <1>1 DEF IInv, Safe, LeaderSafe
<1>3. CASE lead' = [lead EXCEPT ![s] = [Follower EXCEPT !.pc = "controllers"]]
  BY <1>1, <1>2, <1>3, StartedSafe
<1>4. CASE lead' = [lead EXCEPT ![s].pc = "mark"]
  <2> DEFINE next == [lead[s] EXCEPT !.pc = "mark"]
  <2>1. next \in Leader /\ next.pc = "mark"
    <3>1. lead[s] \in Leader
      BY RecordType DEF IInv
    <3> QED BY <3>1, PcTypes
  <2>2. lead' = [lead EXCEPT ![s] = next]
    BY <1>4, PcUpdate DEF IInv
  <2> HIDE DEF next
  <2>3. /\ OneLeader' /\ lead'[s] = next
        /\ LeaderSafe(s)' => \A t \in Servers : LeaderSafe(t)'
    BY <1>1, <2>1, <2>2, Moved DEF IInv, Safe
  <2>4. LeaderSafe(s)'
    BY <1>1, <1>2, <2>1, <2>3 DEF LeaderSafe, CopySafe, StoredSafe, AdminSafe
  <2> QED BY <1>1, <1>2, <2>3, <2>4 DEF IInv, Safe
<1> QED BY <1>3, <1>4 DEF BindAdmin

LEMMA MarkCreatedSafe ==
  ASSUME IInv, NEW s \in Servers, MarkCreated(s)
  PROVE  Safe'
<1>1. lead[s].pc = "mark" /\ UNCHANGED <<setting, user>> /\ Admins' = Admins
  BY DEF MarkCreated, users, Admins
<1>2. StoredSafe(s) /\ (\A u, v \in Admins' : u = v)
  BY <1>1 DEF IInv, Safe, LeaderSafe
<1> QED BY <1>1, <1>2, StartedSafe DEF MarkCreated, StartControllers

\* Nobody else's step makes a default administrator, moves a leader, or takes the setting
\* or its default away.
LEMMA KeptSafe ==
  ASSUME IInv, UNCHANGED lead,
         \/ UNCHANGED setting
         \/ /\ setting.exists /\ setting'.exists /\ setting'.default = setting.default
            /\ setting.rv < setting'.rv /\ setting'.rv \in Nat,
         releaseNs'.mark = releaseNs.mark, Admins' \subseteq Admins
  PROVE  Safe'
<1>1. ASSUME NEW s \in Servers
      PROVE  LeaderSafe(s)'
  <2>1. LeaderSafe(s) /\ lead[s] \in Leader /\ setting \in SettingObject
    BY <1>1, RecordType DEF IInv, Safe, TypeOK
  <2>2. lead[s].setting.rv \in Nat /\ setting.rv \in Nat
    BY <2>1 DEF Leader, SettingObject
  <2>3. CopySafe(s)'
    BY <2>1, <2>2 DEF LeaderSafe, CopySafe
  <2>4. StoredSafe(s)'
    BY <2>1 DEF LeaderSafe, StoredSafe
  <2>5. AdminSafe(s)'
    BY <2>1 DEF LeaderSafe, AdminSafe
  <2> QED BY <2>3, <2>4, <2>5 DEF LeaderSafe
<1>2. OneLeader' /\ (setting'.exists \/ setting'.value = "")
  BY DEF IInv, Safe, OneLeader
<1>3. \A u, v \in Admins' : u = v
  BY DEF IInv, Safe
<1> QED BY <1>1, <1>2, <1>3 DEF Safe

\* What a step of a user does to the default administrators: one is gone at most.
LEMMA UserStep ==
  ASSUME TypeOK, NEW u \in Users, NEW new,
         user' = [user EXCEPT ![u] = new],
         new.exists /\ new.default => user[u].exists /\ user[u].default
  PROVE  Admins' \subseteq Admins
BY DEF Admins, TypeOK

LEMMA UserActions ==
  ASSUME IInv, NEW u \in Users,
         \/ DeleteUser(u) \/ ChangeRole(u)
         \/ \E a \in BOOLEAN, d \in Displays : CreateUser(u, a, d)
  PROVE  Admins' \subseteq Admins /\ UNCHANGED <<lead, setting, releaseNs>>
<1>1. CASE DeleteUser(u)
  <2>1. user' = [user EXCEPT ![u] = Removed(user[u])] /\ ~Removed(user[u]).exists
    BY <1>1, UserTypes DEF DeleteUser, IInv, TypeOK
  <2> QED BY <1>1, <2>1, UserStep DEF DeleteUser, IInv
<1>2. CASE ChangeRole(u)
  <2> DEFINE changed == [user[u] EXCEPT !.admin = ~@]
  <2>1. /\ changed \in UserObject /\ changed.exists = user[u].exists
        /\ changed.default = user[u].default
    BY DEF UserObject, IInv, TypeOK
  <2>2. user' = [user EXCEPT ![u] = Changed(user[u], changed)]
    BY <1>2 DEF ChangeRole
  <2> HIDE DEF changed
  <2>3. /\ Changed(user[u], changed).exists = user[u].exists
        /\ Changed(user[u], changed).default = user[u].default
    <3>1. user[u] \in UserObject
      BY DEF IInv, TypeOK
    <3> QED BY <2>1, <3>1, UserTypes
  <2> QED BY <1>2, <2>2, <2>3, UserStep DEF ChangeRole, IInv
<1>3. ASSUME NEW a \in BOOLEAN, NEW d \in Displays, CreateUser(u, a, d)
      PROVE  Admins' \subseteq Admins /\ UNCHANGED <<lead, setting, releaseNs>>
  <2> DEFINE made == [NoUser EXCEPT !.exists = TRUE, !.admin = a, !.display = d]
  <2>1. made \in UserObject /\ ~made.default
    BY NewUsers
  <2>2. user' = [user EXCEPT ![u] = Changed(user[u], made)]
    BY <1>3 DEF CreateUser
  <2> HIDE DEF made
  <2>3. ~Changed(user[u], made).default
    <3>1. user[u] \in UserObject
      BY DEF IInv, TypeOK
    <3> QED BY <2>1, <3>1, UserTypes
  <2> QED BY <1>3, <2>2, <2>3, UserStep DEF CreateUser, IInv
<1> QED BY <1>1, <1>2, <1>3

LEMMA EditSettingEffect ==
  ASSUME IInv, NEW v \in Values, EditSetting(v)
  PROVE  /\ setting.exists /\ setting'.exists /\ setting'.default = setting.default
         /\ setting.rv < setting'.rv /\ setting'.rv \in Nat
         /\ UNCHANGED <<lead, user, releaseNs>>
<1> DEFINE edited == [setting EXCEPT !.value = v]
<1>1. /\ edited \in SettingObject /\ edited.exists = setting.exists
      /\ edited.default = setting.default
  BY DEF SettingObject, IInv, TypeOK
<1>2. setting' = Changed(setting, edited) /\ setting.exists
  BY DEF EditSetting
<1> HIDE DEF edited
<1>3. /\ setting' \in SettingObject /\ setting'.exists = edited.exists
      /\ setting'.default = edited.default /\ setting.rv < setting'.rv
  BY <1>1, <1>2, SettingTypes DEF IInv, TypeOK
<1> QED BY <1>1, <1>2, <1>3 DEF EditSetting, users, SettingObject

-----------------------------------------------------------------------------
\* The invariant holds.

LEMMA Step == IInv /\ [Next]_vars => IInv'
<1> SUFFICES ASSUME IInv, [Next]_vars PROVE IInv'
  OBVIOUS
<1>0. TypeOK
  BY DEF IInv
<1>1. ASSUME NEW s \in Servers, Crash(s)
      PROVE  IInv'
  <2>1. disturbed' \in 0..MaxDisturbances
    BY <1>0, <1>1, DisturbType DEF Crash, TypeOK
  <2>2. lead' \in [Servers -> Leader] /\ queue' \subseteq Users
    BY <1>0, <1>1, ExitTypes DEF Crash
  <2>3. TypeOK'
    BY <1>0, <1>1, <2>1, <2>2 DEF Crash, users, TypeOK
  <2>4. UNCHANGED setting /\ Admins' = Admins
    BY <1>1 DEF Crash, users, Admins
  <2>5. (setting'.exists \/ setting'.value = "") /\ \A u, v \in Admins' : u = v
    BY <2>4 DEF IInv, Safe
  <2>6. Safe'
    BY <1>1, <2>5, ExitSafe DEF Crash
  <2> QED BY <2>3, <2>6 DEF IInv
<1>2. ASSUME NEW s \in Servers, Lead(s)
      PROVE  IInv'
  <2>1. [lead[s] EXCEPT !.pc = "get"] \in Leader
    BY <1>0, PcTypes, RecordType
  <2>2. lead' = [lead EXCEPT ![s] = [lead[s] EXCEPT !.pc = "get"]]
    BY <1>0, <1>2, PcUpdate DEF Lead
  <2>3. lead' \in [Servers -> Leader]
    BY <1>0, <2>1, <2>2, LeadTypes
  <2>4. TypeOK'
    BY <1>0, <1>2, <2>3 DEF Lead, users, caches, TypeOK
  <2> QED BY <1>2, <2>4, LeadSafe DEF IInv
<1>3. ASSUME NEW s \in Servers, LeadStep(s)
      PROVE  IInv'
  <2>1. lead[s].pc = "bind" => lead[s].admin \in Users
    BY <1>3 DEF IInv, Safe, LeaderSafe, AdminSafe
  <2>2. TypeOK'
    BY <1>0, <1>3, <2>1, LeadStepTypes
  <2>3. Safe'
    BY <1>3, GetSettingSafe, StoreSafe, GetReleaseNamespaceSafe, ListAdminsSafe,
       CreateAdminSafe, BindAdminSafe, MarkCreatedSafe DEF LeadStep
  <2> QED BY <2>2, <2>3 DEF IInv
<1>4. ASSUME NEW u \in Users,
             SyncUser(u) \/ SyncWebhook(u)
      PROVE  IInv'
  <2>1. TypeOK'
    BY <1>0, <1>4, OtherTypes
  <2>2. UNCHANGED <<lead, setting, releaseNs, user>>
    BY <1>4 DEF SyncUser, SyncWebhook, users
  <2>3. Safe'
    BY <2>2, KeptSafe DEF Admins
  <2> QED BY <2>1, <2>3 DEF IInv
<1>5. ASSUME NEW u \in Users, OnChanged(u)
      PROVE  IInv'
  <2>1. TypeOK'
    BY <1>0, <1>5, OnChangedTypes
  <2>2. UNCHANGED <<lead, setting, releaseNs, user>>
    BY <1>5 DEF OnChanged
  <2>3. Safe'
    BY <2>2, KeptSafe DEF Admins
  <2> QED BY <2>1, <2>3 DEF IInv
<1>6. ASSUME NEW u \in Users,
             \/ DeleteUser(u) \/ ChangeRole(u)
             \/ \E a \in BOOLEAN, d \in Displays : CreateUser(u, a, d)
      PROVE  IInv'
  <2>1. TypeOK'
    BY <1>0, <1>6, OtherTypes
  <2>2. Safe'
    BY <1>6, UserActions, KeptSafe
  <2> QED BY <2>1, <2>2 DEF IInv
<1>7. ASSUME NEW v \in Values, EditSetting(v)
      PROVE  IInv'
  <2>1. TypeOK'
    BY <1>0, <1>7, EditTypes
  <2>2. Admins' = Admins
    BY <1>7, EditSettingEffect DEF Admins
  <2>3. Safe'
    BY <1>7, <2>2, EditSettingEffect, KeptSafe
  <2> QED BY <2>1, <2>3 DEF IInv
<1>8. CASE EditNamespace
  <2>1. TypeOK'
    BY <1>0, <1>8, NamespaceEditTypes
  <2>2. releaseNs'.mark = releaseNs.mark
    BY <1>0, <1>8, NamespaceTypes DEF EditNamespace, TypeOK
  <2>3. UNCHANGED <<lead, setting, user>>
    BY <1>8 DEF EditNamespace, users
  <2>4. Safe'
    BY <2>2, <2>3, KeptSafe DEF Admins
  <2> QED BY <2>1, <2>4 DEF IInv
<1>9. CASE SyncBindings
  <2>1. TypeOK'
    BY <1>0, <1>9, SyncBindingsTypes
  <2>2. UNCHANGED <<lead, setting, releaseNs, user>>
    BY <1>9 DEF SyncBindings, users
  <2>3. Safe'
    BY <2>2, KeptSafe DEF Admins
  <2> QED BY <2>1, <2>3 DEF IInv
<1>10. CASE UNCHANGED vars
  <2>1. TypeOK'
    BY <1>0, <1>10 DEF vars, users, caches, TypeOK
  <2>2. Safe'
    BY <1>10, KeptSafe DEF vars, users, Admins
  <2> QED BY <2>1, <2>2 DEF IInv
<1> QED BY <1>1, <1>2, <1>3, <1>4, <1>5, <1>6, <1>7, <1>8, <1>9, <1>10 DEF Next

LEMMA Inductive == Spec => []IInv
<1>1. Init => IInv
  BY TypeInit, SafeInit DEF IInv
<1> QED BY <1>1, Step, PTL DEF Spec

-----------------------------------------------------------------------------
\* The objects, the caches and the leading threads hold what TypeOK says.
THEOREM BootstrapTypes == Spec => []TypeOK
<1>1. IInv => TypeOK
  BY DEF IInv
<1> QED BY <1>1, Inductive, PTL

\* BootstrapAdminUser makes no second default administrator, whenever leaders die and
\* whatever calls fail.
THEOREM AtMostOneAdmin == Spec => []OneDefaultAdmin
<1>1. IInv => OneDefaultAdmin
  <2> SUFFICES ASSUME IInv PROVE OneDefaultAdmin
    OBVIOUS
  <2>1. CASE Admins = {}
    <3>1. Cardinality({}) = 0
      BY FS_EmptySet
    <3> QED BY <2>1, <3>1 DEF OneDefaultAdmin
  <2>2. CASE Admins # {}
    <3>1. PICK q \in Admins : Admins = {q}
      BY <2>2 DEF IInv, Safe
    <3>2. Cardinality({q}) = 1
      BY FS_Singleton
    <3> QED BY <3>1, <3>2 DEF OneDefaultAdmin
  <2> QED BY <2>1, <2>2
<1> QED BY <1>1, Inductive, PTL

\* Controllers run under a setting that has the default of their server's code.
THEOREM RunsWithItsDefault == Spec => []DefaultStored
<1>1. IInv => DefaultStored
  BY DEF IInv, Safe, LeaderSafe, StoredSafe, DefaultStored
<1> QED BY <1>1, Inductive, PTL

\* Once the annotation is stored, no step of anyone makes a default administrator again.
THEOREM AnnotationLasts == Spec => AdminNotCreatedAgain
<1> DEFINE Kept == releaseNs.mark =>
             \A u \in Users : user'[u].exists /\ user'[u].default => user[u].exists
<1>1. IInv /\ [Next]_vars => [Kept]_vars
  <2> SUFFICES ASSUME IInv, Next, releaseNs.mark,
                      NEW w \in Users, user'[w].exists, user'[w].default
               PROVE  user[w].exists
    BY DEF vars
  <2>1. CASE UNCHANGED user
    BY <2>1
  <2>2. ASSUME NEW u \in Users,
               \/ DeleteUser(u) \/ ChangeRole(u)
               \/ \E a \in BOOLEAN, d \in Displays : CreateUser(u, a, d)
        PROVE  user[w].exists
    BY <2>2, UserActions DEF Admins
  <2>3. ASSUME NEW s \in Servers, CreateAdmin(s)
        PROVE  FALSE
    BY <2>3 DEF IInv, Safe, LeaderSafe, AdminSafe, CreateAdmin
  <2> QED BY <2>1, <2>2, <2>3 DEF Next, Crash, Lead, LeadStep, GetSetting, StoreSetting,
             GetReleaseNamespace, ListAdmins, BindAdmin, MarkCreated, SyncUser, SyncBindings,
             OnChanged, SyncWebhook, EditSetting, EditNamespace, users
<1> QED BY <1>1, Inductive, PTL DEF Spec, AdminNotCreatedAgain

\* A leader that stores the settings takes a value from a setting only for the one in its
\* environment, although users edit it in between.
THEOREM EditsAreKept == Spec => SettingKept
<1> DEFINE Kept == (setting.value # "" /\ setting'.value # setting.value) =>
             \/ UNCHANGED lead
             \/ \E s \in Servers : /\ lead[s].pc = "store" /\ Env[s] # ""
                                   /\ setting'.value = Env[s]
<1>1. IInv /\ [Next]_vars => [Kept]_vars
  <2> SUFFICES ASSUME IInv, Next, setting'.value # setting.value, ~UNCHANGED lead
               PROVE  \E s \in Servers : /\ lead[s].pc = "store" /\ Env[s] # ""
                                         /\ setting'.value = Env[s]
    BY DEF vars
  <2>1. PICK s \in Servers : StoreSetting(s)
    BY DEF Next, Crash, Lead, LeadStep, GetSetting, GetReleaseNamespace, ListAdmins,
           CreateAdmin, BindAdmin, MarkCreated, SyncUser, SyncBindings, OnChanged,
           SyncWebhook, CreateUser, DeleteUser, ChangeRole, EditSetting, EditNamespace
  <2>2. lead[s].pc = "store"
    BY <2>1 DEF StoreSetting
  <2>3. Env[s] # "" /\ setting'.value = Env[s]
    BY <2>1, StoreEffect
  <2> QED BY <2>2, <2>3
<1> QED BY <1>1, Inductive, PTL DEF Spec, SettingKept

-----------------------------------------------------------------------------
\* At rest.  A user who is not bound is in the queue, or is one whose last change the
\* leader's cache has not heard of; so it is when the bindings in the cache are there, and
\* users and bindings are not made again.

\* When the controllers run, with nothing queued and every user in the cache, no user is
\* without the binding of the role.
BoundAtRest ==
  (Working /\ queue = {} /\ ucache = user) =>
    \A u \in Users : user[u].exists => <<u, RoleOf(user[u])>> \in binding

BindingsSeen ==
  \A u \in Users, role \in Roles :
    <<u, role>> \in binding \cup bcache =>
      user[u].rv # 0 /\ (user[u].exists => <<u, role>> \in binding)

UsersSeen ==
  \A u \in Users : ucache[u].rv <= user[u].rv /\ (user[u].exists => user[u].rv # 0)

BoundOrQueued ==
  Working => \A u \in Users : (u \notin queue /\ ucache[u] = user[u] /\ user[u].exists) =>
                                <<u, RoleOf(user[u])>> \in binding

Seen == BindingsSeen /\ UsersSeen /\ BoundOrQueued

\* What a step does to the users and the bindings.
UsersMove ==
  \A u \in Users : user'[u] # user[u] =>
    user[u].rv < user'[u].rv /\ (user'[u].exists => user[u].exists \/ user[u].rv = 0)

BindingsMove ==
  \A u \in Users, role \in Roles :
    /\ <<u, role>> \in binding => <<u, role>> \in binding' \/ ~user'[u].exists
    /\ <<u, role>> \in binding' => <<u, role>> \in binding \/ user[u].exists

\* And to the caches of the leader: they stay, or everything is listed.
CachesStay ==
  UNCHANGED <<ucache, bcache>> /\ (Working' => Working /\ queue \subseteq queue')

Listed == ucache' = user' /\ bcache' = binding' /\ queue' = {u \in Users : user'[u].exists}

LEMMA UserRecord ==
  ASSUME TypeOK, NEW u \in Users
  PROVE  /\ user[u] \in UserObject /\ user[u].rv \in Nat /\ RoleOf(user[u]) \in Roles
         /\ ucache[u].rv \in Nat /\ RoleOf(ucache[u]) \in Roles
BY DEF TypeOK, UserObject, RoleOf, Roles

LEMMA MovesSeen ==
  ASSUME TypeOK, TypeOK', Seen, UsersMove, BindingsMove, CachesStay \/ Listed
  PROVE  BindingsSeen' /\ UsersSeen'
<1>1. ASSUME NEW u \in Users
      PROVE  /\ user'[u].rv \in Nat /\ user[u].rv \in Nat /\ user[u].rv <= user'[u].rv
             /\ ucache[u].rv \in Nat /\ ucache[u].rv <= user[u].rv
             /\ user[u].rv # 0 => user'[u].rv # 0 /\ (user'[u].exists => user[u].exists)
             /\ user[u].exists => user[u].rv # 0
             /\ user'[u].exists => user'[u].rv # 0
  <2>1. user'[u].rv \in Nat /\ user[u].rv \in Nat /\ ucache[u].rv \in Nat
    BY UserRecord DEF TypeOK, UserObject
  <2>2. ucache[u].rv <= user[u].rv /\ (user[u].exists => user[u].rv # 0)
    BY DEF Seen, UsersSeen
  <2>3. user'[u] = user[u] \/ (/\ user[u].rv < user'[u].rv
                               /\ user'[u].exists => user[u].exists \/ user[u].rv = 0)
    BY DEF UsersMove
  <2> QED BY <2>1, <2>2, <2>3
<1>2. UsersSeen'
  <2>1. \A u \in Users : ucache'[u] \in {ucache[u], user'[u]}
    BY DEF CachesStay, Listed
  <2> QED BY <1>1, <2>1 DEF UsersSeen
<1>3. ASSUME NEW u \in Users, NEW role \in Roles, <<u, role>> \in binding' \cup bcache'
      PROVE  user'[u].rv # 0 /\ (user'[u].exists => <<u, role>> \in binding')
  <2>1. <<u, role>> \in binding' \/ <<u, role>> \in bcache
    BY <1>3 DEF CachesStay, Listed
  <2>2. CASE <<u, role>> \in binding'
    <3>1. <<u, role>> \in binding \/ user[u].exists
      BY <2>2 DEF BindingsMove
    <3>2. user[u].rv # 0
      BY <1>1, <3>1 DEF Seen, BindingsSeen
    <3> QED BY <1>1, <2>2, <3>2
  <2>3. CASE <<u, role>> \in bcache
    <3>1. user[u].rv # 0 /\ (user[u].exists => <<u, role>> \in binding)
      BY <2>3 DEF Seen, BindingsSeen
    <3>2. user'[u].rv # 0 /\ (user'[u].exists => user[u].exists)
      BY <1>1, <3>1
    <3> QED BY <3>1, <3>2 DEF BindingsMove
  <2> QED BY <2>1, <2>2, <2>3
<1> QED BY <1>2, <1>3 DEF BindingsSeen

\* A user who is changed differs from every copy.
LEMMA MovesBound ==
  ASSUME TypeOK, TypeOK', Seen, UsersMove, BindingsMove, CachesStay \/ Listed
  PROVE  BoundOrQueued'
<1>1. CASE Listed
  BY <1>1 DEF Listed, BoundOrQueued
<1>2. CASE CachesStay
  <2> SUFFICES ASSUME Working', NEW u \in Users, u \notin queue', ucache'[u] = user'[u],
                      user'[u].exists
               PROVE  <<u, RoleOf(user'[u])>> \in binding'
    BY DEF BoundOrQueued
  <2>1. Working /\ u \notin queue /\ ucache[u] = user'[u]
    BY <1>2 DEF CachesStay
  <2>2. user'[u] = user[u]
    <3>1. ucache[u].rv \in Nat /\ user[u].rv \in Nat /\ ucache[u].rv <= user[u].rv
      BY UserRecord DEF Seen, UsersSeen
    <3>2. user'[u] # user[u] => user[u].rv < user'[u].rv
      BY DEF UsersMove
    <3> QED BY <2>1, <3>1, <3>2
  <2>3. <<u, RoleOf(user[u])>> \in binding
    BY <2>1, <2>2 DEF Seen, BoundOrQueued
  <2> QED BY <2>2, <2>3, UserRecord DEF BindingsMove
<1> QED BY <1>1, <1>2

LEMMA Moves ==
  ASSUME TypeOK, TypeOK', Seen, UsersMove, BindingsMove, CachesStay \/ Listed
  PROVE  Seen'
BY MovesSeen, MovesBound DEF Seen

LEMMA Still ==
  ASSUME UNCHANGED <<user, binding>>
  PROVE  UsersMove /\ BindingsMove
BY DEF UsersMove, BindingsMove

\* A user is created, changed or deleted.
LEMMA OneUserMoves ==
  ASSUME TypeOK, NEW u \in Users, NEW new, user' = [user EXCEPT ![u] = new],
         \/ new = user[u]
         \/ new.rv = user[u].rv + 1 /\ (new.exists => user[u].exists \/ user[u].rv = 0)
  PROVE  UsersMove
<1>1. user'[u] = new /\ \A v \in Users : v # u => user'[v] = user[v]
  BY DEF TypeOK
<1>2. user[u].rv \in Nat
  BY UserRecord
<1> QED BY <1>1, <1>2 DEF UsersMove

LEMMA NextVersion ==
  ASSUME NEW cur, NEW new \in UserObject
  PROVE  Changed(cur, new).rv = cur.rv + 1
BY DEF Changed, UserObject

LEMMA UserActionsMove ==
  ASSUME TypeOK, NEW u \in Users,
         \/ DeleteUser(u) \/ ChangeRole(u)
         \/ \E a \in BOOLEAN, d \in Displays : CreateUser(u, a, d)
  PROVE  UsersMove /\ BindingsMove /\ CachesStay
<1>0. CachesStay
  <2>1. UNCHANGED <<ucache, bcache, queue, lead>>
    BY DEF DeleteUser, ChangeRole, CreateUser, caches
  <2> QED BY <2>1 DEF CachesStay, Working
<1>1. CASE DeleteUser(u)
  <2>1. user' = [user EXCEPT ![u] = Removed(user[u])] /\ binding' = {b \in binding : b[1] # u}
    BY <1>1 DEF DeleteUser
  <2>2. Removed(user[u]).rv = user[u].rv + 1 /\ ~Removed(user[u]).exists
    <3>1. user[u] \in UserObject
      BY UserRecord
    <3> QED BY <3>1 DEF Removed, UserObject
  <2>3. UsersMove
    BY <2>1, <2>2, OneUserMoves
  <2>4. ~user'[u].exists
    BY <2>1, <2>2 DEF TypeOK
  <2>5. BindingsMove
    BY <2>1, <2>4 DEF BindingsMove
  <2> QED BY <1>0, <2>3, <2>5
<1>2. CASE ChangeRole(u)
  <2> DEFINE changed == [user[u] EXCEPT !.admin = ~@]
  <2>1. changed \in UserObject /\ user[u] \in UserObject /\ user[u].exists
    BY <1>2, UserRecord DEF UserObject, ChangeRole
  <2>2. user' = [user EXCEPT ![u] = Changed(user[u], changed)] /\ UNCHANGED binding
    BY <1>2 DEF ChangeRole
  <2> HIDE DEF changed
  <2>3. UsersMove
    BY <2>1, <2>2, NextVersion, OneUserMoves
  <2> QED BY <1>0, <2>2, <2>3 DEF BindingsMove
<1>3. ASSUME NEW a \in BOOLEAN, NEW d \in Displays, CreateUser(u, a, d)
      PROVE  UsersMove /\ BindingsMove
  <2> DEFINE made == [NoUser EXCEPT !.exists = TRUE, !.admin = a, !.display = d]
  <2>1. made \in UserObject /\ user[u].rv = 0
    BY <1>3, NewUsers DEF CreateUser
  <2>2. user' = [user EXCEPT ![u] = Changed(user[u], made)] /\ UNCHANGED binding
    BY <1>3 DEF CreateUser
  <2> HIDE DEF made
  <2>3. UsersMove
    BY <2>1, <2>2, NextVersion, OneUserMoves
  <2> QED BY <2>2, <2>3 DEF BindingsMove
<1> QED BY <1>0, <1>1, <1>2, <1>3

\* A binding is made for a user who is there, or not.
LEMMA BindingMoves ==
  ASSUME NEW u \in Users, NEW role \in Roles, binding' \in {binding, Bound(u, role)},
         UNCHANGED user
  PROVE  UsersMove /\ BindingsMove
BY DEF UsersMove, BindingsMove, Bound

-----------------------------------------------------------------------------
\* The steps of the leader: until it starts its controllers none work.

LEMMA NotWorking ==
  ASSUME TypeOK, OneLeader, NEW s \in Servers, lead[s].pc # "none", NEW next,
         lead' = [lead EXCEPT ![s] = next], next.pc # "controllers"
  PROVE  ~Working'
<1>1. lead'[s] = next /\ \A t \in Servers : t # s => lead'[t] = lead[t]
  BY DEF TypeOK
<1>2. \A t \in Servers : t # s => lead[t].pc = "none"
  BY DEF OneLeader
<1> QED BY <1>1, <1>2 DEF Working

LEMMA ExitStays ==
  ASSUME TypeOK, OneLeader, NEW s \in Servers, lead[s].pc # "none", Exit(s),
         UNCHANGED <<ucache, bcache>>
  PROVE  CachesStay
BY NotWorking, Records DEF Exit, CachesStay

LEMMA StartedLists ==
  ASSUME NEW s \in Servers, StartControllers(s), UNCHANGED users
  PROVE  UsersMove /\ BindingsMove /\ Listed
<1>1. UNCHANGED <<user, binding>>
  BY DEF users
<1>2. Listed
  BY <1>1 DEF StartControllers, Queued, Listed
<1> QED BY <1>1, <1>2, Still

\* It goes on, with the same caches.
LEMMA NextStays ==
  ASSUME TypeOK, OneLeader, NEW s \in Servers, lead[s].pc # "none", NEW next,
         lead' = [lead EXCEPT ![s] = next], next.pc # "controllers", UNCHANGED caches
  PROVE  CachesStay
BY NotWorking DEF CachesStay, caches

LEMMA NextPlace ==
  ASSUME NEW l \in Leader, NEW x
  PROVE  /\ [l EXCEPT !.pc = "store", !.setting = x].pc = "store"
         /\ [l EXCEPT !.pc = "annotation", !.setting = x].pc = "annotation"
         /\ [l EXCEPT !.pc = "list", !.ns = x].pc = "list"
         /\ [l EXCEPT !.pc = "bind", !.admin = x].pc = "bind"
BY DEF Leader

LEMMA AdminMoves ==
  ASSUME TypeOK, OneLeader, NEW s \in Servers, CreateAdmin(s)
  PROVE  UsersMove /\ BindingsMove /\ (CachesStay \/ Listed)
<1> DEFINE made == [NoUser EXCEPT !.exists = TRUE, !.default = TRUE, !.admin = TRUE]
<1>1. PICK u \in AdminNames :
        /\ user[u].rv = 0
        /\ \E ok \in BOOLEAN, kept \in {user[u], Changed(user[u], made)} :
             /\ user' = [user EXCEPT ![u] = kept]
             /\ \/ /\ ok /\ lead' = [lead EXCEPT ![s].pc = "bind", ![s].admin = u]
                   /\ UNCHANGED caches
                \/ /\ ~ok /\ lead' = [lead EXCEPT ![s] = [Follower EXCEPT !.pc = "controllers"]]
                   /\ ucache' = user' /\ bcache' = binding
                   /\ queue' = {v \in Users : user'[v].exists}
  BY DEF CreateAdmin
<1>2. PICK ok \in BOOLEAN, kept \in {user[u], Changed(user[u], made)} :
        /\ user' = [user EXCEPT ![u] = kept]
        /\ \/ /\ ok /\ lead' = [lead EXCEPT ![s].pc = "bind", ![s].admin = u]
              /\ UNCHANGED caches
           \/ /\ ~ok /\ lead' = [lead EXCEPT ![s] = [Follower EXCEPT !.pc = "controllers"]]
              /\ ucache' = user' /\ bcache' = binding
              /\ queue' = {v \in Users : user'[v].exists}
  BY <1>1
<1>3. u \in Users /\ made \in UserObject
  BY UserAssumption, NewUsers
<1> HIDE DEF made
<1>4. UsersMove
  <2>1. Changed(user[u], made).rv = user[u].rv + 1
    BY <1>3, NextVersion
  <2> QED BY <1>1, <1>2, <1>3, <2>1, OneUserMoves
<1>5. BindingsMove /\ UNCHANGED binding /\ lead[s].pc = "create"
  BY DEF CreateAdmin, BindingsMove
<1>6. CASE lead' = [lead EXCEPT ![s].pc = "bind", ![s].admin = u] /\ UNCHANGED caches
  <2>1. lead' = [lead EXCEPT ![s] = [lead[s] EXCEPT !.pc = "bind", !.admin = u]]
    BY <1>6, AdminUpdate
  <2>2. [lead[s] EXCEPT !.pc = "bind", !.admin = u].pc = "bind"
    BY NextPlace DEF TypeOK
  <2> QED BY <1>4, <1>5, <1>6, <2>1, <2>2, NextStays
<1>7. CASE ucache' = user' /\ bcache' = binding /\ queue' = {v \in Users : user'[v].exists}
  BY <1>4, <1>5, <1>7 DEF Listed
<1> QED BY <1>2, <1>6, <1>7

LEMMA BindAdminMoves ==
  ASSUME IInv, NEW s \in Servers, BindAdmin(s)
  PROVE  UsersMove /\ BindingsMove /\ (CachesStay \/ Listed)
<1>1. PICK ok \in BOOLEAN, kept \in {binding, Bound(lead[s].admin, "cluster-admin")} :
        /\ binding' = kept
        /\ \/ ok /\ lead' = [lead EXCEPT ![s].pc = "mark"] /\ UNCHANGED caches
           \/ /\ ~ok /\ lead' = [lead EXCEPT ![s] = [Follower EXCEPT !.pc = "controllers"]]
              /\ ucache' = user /\ bcache' = kept /\ queue' = Queued
  BY DEF BindAdmin
<1>2. TypeOK /\ OneLeader /\ lead[s].pc = "bind" /\ lead[s].admin \in Users /\ UNCHANGED user
  BY DEF IInv, Safe, LeaderSafe, AdminSafe, BindAdmin
<1>3. UsersMove /\ BindingsMove
  <2>1. "cluster-admin" \in Roles
    BY DEF Roles
  <2> QED BY <1>1, <1>2, <2>1, BindingMoves
<1>4. CASE lead' = [lead EXCEPT ![s].pc = "mark"] /\ UNCHANGED caches
  <2>1. lead' = [lead EXCEPT ![s] = [lead[s] EXCEPT !.pc = "mark"]]
    BY <1>2, <1>4, PcUpdate
  <2>2. [lead[s] EXCEPT !.pc = "mark"].pc = "mark"
    BY <1>2, PcTypes, RecordType
  <2> QED BY <1>2, <1>3, <1>4, <2>1, <2>2, NextStays
<1>5. CASE ucache' = user /\ bcache' = kept /\ queue' = Queued
  BY <1>1, <1>2, <1>3, <1>5 DEF Listed, Queued
<1> QED BY <1>1, <1>4, <1>5

LEMMA OtherLeadMoves ==
  ASSUME IInv, NEW s \in Servers,
         \/ GetSetting(s) \/ StoreSetting(s) \/ GetReleaseNamespace(s)
         \/ ListAdmins(s) \/ MarkCreated(s)
  PROVE  UsersMove /\ BindingsMove /\ (CachesStay \/ Listed)
<1>0. TypeOK /\ OneLeader /\ lead[s] \in Leader
  BY DEF IInv, Safe, TypeOK
<1>1. CASE GetSetting(s)
  <2>1. lead' = [lead EXCEPT ![s] = [lead[s] EXCEPT !.pc = "store", !.setting = setting]]
    BY <1>0, <1>1, SettingUpdate DEF GetSetting
  <2>2. [lead[s] EXCEPT !.pc = "store", !.setting = setting].pc = "store"
    BY <1>0, NextPlace
  <2> QED BY <1>0, <1>1, <2>1, <2>2, NextStays, Still DEF GetSetting, users
<1>2. CASE StoreSetting(s)
  <2>1. lead[s].pc = "store" /\ UNCHANGED <<user, binding, ucache, bcache>>
    BY <1>2 DEF StoreSetting, users
  <2>2. CASE Exit(s)
    BY <1>0, <2>1, <2>2, ExitStays, Still
  <2>3. CASE lead' = [lead EXCEPT ![s].pc = "annotation", ![s].setting = NoSetting]
             /\ UNCHANGED queue
    <3>1. lead' = [lead EXCEPT ![s] = [lead[s] EXCEPT !.pc = "annotation",
                                                     !.setting = NoSetting]]
      BY <1>0, <2>3, SettingUpdate
    <3>2. [lead[s] EXCEPT !.pc = "annotation", !.setting = NoSetting].pc = "annotation"
      BY <1>0, NextPlace
    <3> QED BY <1>0, <2>1, <2>3, <3>1, <3>2, NextStays, Still DEF caches
  <2> QED BY <1>2, <2>2, <2>3 DEF StoreSetting
<1>3. CASE GetReleaseNamespace(s)
  <2>1. lead[s].pc = "annotation" /\ UNCHANGED users
    BY <1>3 DEF GetReleaseNamespace
  <2>2. CASE lead' = [lead EXCEPT ![s].pc = "list", ![s].ns = releaseNs] /\ UNCHANGED caches
    <3>1. lead' = [lead EXCEPT ![s] = [lead[s] EXCEPT !.pc = "list", !.ns = releaseNs]]
      BY <1>0, <2>2, NsUpdate
    <3>2. [lead[s] EXCEPT !.pc = "list", !.ns = releaseNs].pc = "list"
      BY <1>0, NextPlace
    <3> QED BY <1>0, <2>1, <2>2, <3>1, <3>2, NextStays, Still DEF users
  <2> QED BY <1>3, <2>1, <2>2, StartedLists DEF GetReleaseNamespace
<1>4. CASE ListAdmins(s)
  <2>1. lead[s].pc = "list" /\ UNCHANGED users
    BY <1>4 DEF ListAdmins
  <2>2. CASE lead' = [lead EXCEPT ![s].pc = "create"] /\ UNCHANGED caches
    <3>1. lead' = [lead EXCEPT ![s] = [lead[s] EXCEPT !.pc = "create"]]
      BY <1>0, <2>2, PcUpdate
    <3>2. [lead[s] EXCEPT !.pc = "create"].pc = "create"
      BY <1>0, PcTypes
    <3> QED BY <1>0, <2>1, <2>2, <3>1, <3>2, NextStays, Still DEF users
  <2> QED BY <1>4, <2>1, <2>2, StartedLists DEF ListAdmins
<1>5. CASE MarkCreated(s)
  BY <1>5, StartedLists DEF MarkCreated
<1> QED BY <1>1, <1>2, <1>3, <1>4, <1>5

\* A key leaves the queue when its user is bound, or is not the one in the cache.
LEMMA OnChangedSeen ==
  ASSUME TypeOK, TypeOK', Seen, NEW u \in Users, OnChanged(u)
  PROVE  Seen'
<1>1. UNCHANGED <<user, ucache, bcache, lead>>
  BY DEF OnChanged
<1>2. RoleOf(ucache[u]) \in Roles /\ binding' \in {binding, Bound(u, RoleOf(ucache[u]))}
  BY UserRecord DEF OnChanged
<1>3. UsersMove /\ BindingsMove
  BY <1>1, <1>2, BindingMoves
<1>4. CASE queue' = queue
  <2>1. CachesStay
    BY <1>1, <1>4 DEF CachesStay, Working
  <2> QED BY <1>3, <2>1, Moves
<1>5. CASE queue' = queue \ {u}
  <2> DEFINE pair == <<u, RoleOf(ucache[u])>>
  <2>1. BindingsSeen' /\ UsersSeen'
    <3>1. \A v \in Users, role \in Roles :
            <<v, role>> \in binding' => <<v, role>> \in binding \/ user[v].exists
      BY <1>3 DEF BindingsMove
    <3>2. \A v \in Users, role \in Roles : <<v, role>> \in binding => <<v, role>> \in binding'
      BY <1>2 DEF Bound
    <3> QED BY <1>1, <3>1, <3>2 DEF Seen, BindingsSeen, UsersSeen
  <2>2. ASSUME ucache[u] = user[u], user[u].exists, u \notin queue'
        PROVE  pair \in binding'
    <3>1. CASE pair \in bcache
      <4>1. pair \in binding
        BY <1>2, <2>2, <3>1 DEF Seen, BindingsSeen
      <4> QED BY <1>2, <4>1 DEF Bound
    <3>2. CASE pair \notin bcache
      <4>1. u \in queue
        BY DEF OnChanged
      <4>2. binding' = Bound(u, RoleOf(ucache[u]))
        BY <2>2, <3>2, <4>1 DEF OnChanged, Ended, Call
      <4> QED BY <2>2, <4>2 DEF Bound
    <3> QED BY <3>1, <3>2
  <2>3. ASSUME NEW v \in Users, v # u, Working', v \notin queue', ucache'[v] = user'[v],
               user'[v].exists
        PROVE  <<v, RoleOf(user'[v])>> \in binding'
    <3>1. Working /\ v \notin queue /\ ucache[v] = user[v] /\ user[v].exists
      BY <1>1, <1>5, <2>3 DEF Working
    <3>2. <<v, RoleOf(user[v])>> \in binding
      BY <3>1 DEF Seen, BoundOrQueued
    <3> QED BY <1>1, <1>2, <3>2 DEF Bound
  <2>4. BoundOrQueued'
    BY <1>1, <2>2, <2>3 DEF BoundOrQueued
  <2> QED BY <2>1, <2>4 DEF Seen
<1> QED BY <1>4, <1>5 DEF OnChanged, Ended

LEMMA SeenStep == IInv /\ IInv' /\ Seen /\ [Next]_vars => Seen'
<1> SUFFICES ASSUME IInv, IInv', Seen, [Next]_vars PROVE Seen'
  OBVIOUS
<1>0. TypeOK /\ TypeOK' /\ OneLeader
  BY DEF IInv, Safe
<1>1. ASSUME NEW s \in Servers, LeadStep(s)
      PROVE  Seen'
  <2>1. UsersMove /\ BindingsMove /\ (CachesStay \/ Listed)
    BY <1>0, <1>1, AdminMoves, BindAdminMoves, OtherLeadMoves DEF LeadStep
  <2> QED BY <1>0, <2>1, Moves
<1>2. ASSUME NEW s \in Servers, Crash(s)
      PROVE  Seen'
  <2>1. CachesStay /\ UNCHANGED <<user, binding>>
    BY <1>0, <1>2, ExitStays DEF Crash, users
  <2> QED BY <1>0, <2>1, Still, Moves
<1>3. ASSUME NEW s \in Servers, Lead(s)
      PROVE  Seen'
  <2>1. lead' = [lead EXCEPT ![s] = [lead[s] EXCEPT !.pc = "get"]]
    BY <1>0, <1>3, PcUpdate DEF Lead
  <2>2. lead'[s].pc = "get" /\ \A t \in Servers : t # s => lead'[t].pc = "none"
    <3>1. [lead[s] EXCEPT !.pc = "get"].pc = "get"
      BY <1>0, PcTypes, RecordType
    <3> QED BY <1>0, <1>3, <2>1, <3>1 DEF Lead, TypeOK
  <2>3. ~Working'
    BY <2>2 DEF Working
  <2>4. CachesStay /\ UNCHANGED <<user, binding>>
    BY <1>3, <2>3 DEF Lead, CachesStay, caches, users
  <2> QED BY <1>0, <2>4, Still, Moves
<1>4. ASSUME NEW u \in Users, SyncUser(u)
      PROVE  Seen'
  <2>1. /\ ucache' = [ucache EXCEPT ![u] = user[u]] /\ queue' = queue \cup {u}
        /\ UNCHANGED <<user, binding, bcache, lead>>
    BY <1>4 DEF SyncUser, users
  <2>2. \A v \in Users : ucache'[v] = IF v = u THEN user[v] ELSE ucache[v]
    BY <1>0, <2>1 DEF TypeOK
  <2>3. UsersSeen'
    BY <1>0, <2>1, <2>2, UserRecord DEF Seen, UsersSeen
  <2>4. BindingsSeen' /\ BoundOrQueued'
    BY <2>1, <2>2 DEF Seen, BindingsSeen, BoundOrQueued, Working
  <2> QED BY <2>3, <2>4 DEF Seen
<1>5. ASSUME NEW u \in Users, OnChanged(u)
      PROVE  Seen'
  BY <1>0, <1>5, OnChangedSeen
<1>6. ASSUME NEW u \in Users,
             \/ DeleteUser(u) \/ ChangeRole(u)
             \/ \E a \in BOOLEAN, d \in Displays : CreateUser(u, a, d)
      PROVE  Seen'
  BY <1>0, <1>6, UserActionsMove, Moves
<1>7. CASE SyncBindings
  <2>1. bcache' = binding /\ UNCHANGED <<user, binding, ucache, queue, lead>>
    BY <1>7 DEF SyncBindings, users
  <2> QED BY <2>1 DEF Seen, BindingsSeen, UsersSeen, BoundOrQueued, Working
<1>8. CASE \/ \E u \in Users : SyncWebhook(u)
           \/ \E v \in Values : EditSetting(v)
           \/ EditNamespace \/ UNCHANGED vars
  <2>1. UNCHANGED <<user, binding, ucache, bcache, queue, lead>>
    BY <1>8 DEF SyncWebhook, EditSetting, EditNamespace, vars, users, caches
  <2>2. CachesStay
    BY <2>1 DEF CachesStay, Working
  <2> QED BY <1>0, <2>1, <2>2, Still, Moves
<1> QED BY <1>1, <1>2, <1>3, <1>4, <1>5, <1>6, <1>7, <1>8 DEF Next

\* Whenever the user controller comes to rest, every user has the binding of the role: no
\* error of a call, change of a role, user made before the controllers ran or deleted
\* while they do, and no leader that died before it bound its administrator leaves a user
\* without one.
THEOREM EveryoneIsBound == Spec => []BoundAtRest
<1>1. Init => Seen
  <2> SUFFICES ASSUME Init PROVE Seen
    OBVIOUS
  <2>1. \A u \in Users : ~user[u].exists /\ user[u].rv = 0 /\ ucache[u].rv = 0
    BY DEF Init, NoUser
  <2>2. binding = {} /\ bcache = {}
    BY DEF Init
  <2> QED BY <2>1, <2>2 DEF Seen, BindingsSeen, UsersSeen, BoundOrQueued
<1>2. Seen => BoundAtRest
  BY DEF Seen, BoundOrQueued, BoundAtRest
<1> QED BY <1>1, <1>2, SeenStep, Inductive, PTL DEF Spec
==============================================================================
