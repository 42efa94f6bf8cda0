------------------------------ MODULE Bootstrap ------------------------------
(***************************************************************************)
(* What the leader does before its controllers run, and the user           *)
(* controller: pkg/controller/register.go, auth, setting and user.         *)
(*                                                                         *)
(* A server that gets the lease stores the settings, creates the default   *)
(* administrator and starts the controllers.  An error of the settings     *)
(* ends the process, which is started again and waits for the lease again; *)
(* an error of the administrator is dropped.  The admission webhook is a   *)
(* process of its own, with a cache of its own.                            *)
(*                                                                         *)
(* One setting stands for all of them.  The other thread of a server is in *)
(* BuiltInData; that processes stay up in the end is what its              *)
(* EventuallyServing says.                                                 *)
(***************************************************************************)
EXTENDS ApiServer, FiniteSets

CONSTANTS
  Servers,
  Default,         \* per server: the default of the setting in its code
  Env,             \* per server: its value in the environment, or ""
  Values,          \* the values a setting may have, "" among them
  Users,           \* the names of users; a name is used once
  AdminNames,      \* those the API server generates for default administrators
  Displays,        \* the display names of users
  Disturbances, MaxDisturbances   \* which of these may happen, and how many

AllDisturbances == {"crash",       \* a server dies
                    "lostCall",    \* a call fails, stored or not
                    "changeRole", "deleteUser", "editSetting", "editNamespace"}   \* by users

ASSUME SettingAssumption == /\ "" \in Values
                            /\ Default \in [Servers -> Values] /\ Env \in [Servers -> Values]
ASSUME UserAssumption == AdminNames \subseteq Users /\ "Default Admin" \in Displays
ASSUME BootstrapBounds == MaxDisturbances \in Nat /\ Disturbances \subseteq AllDisturbances

VARIABLES
  releaseNs,        \* the namespace of the release, with the administrator's annotation
  setting,
  user, ucache,     \* users: API server, the leader's cache
  wcache,           \* the webhook's cache of users
  binding, bcache,  \* cluster role bindings, as pairs of a user and a role
  queue,            \* of the leader's user controller
  lead,             \* per server: where its leading thread is, and its copies
  disturbed         \* how many disturbances there were

users == <<user, binding>>
caches == <<ucache, bcache, queue>>
vars == <<releaseNs, setting, users, caches, wcache, lead, disturbed>>

Roles == {"cluster-admin", "system:public-info-viewer"}
Namespace == [exists : BOOLEAN, rv : Nat, mark : BOOLEAN]
SettingObject == [exists : BOOLEAN, rv : Nat, value : Values, default : Values]
UserObject == [exists : BOOLEAN, rv : Nat, default : BOOLEAN, admin : BOOLEAN,
               display : Displays]

NoNamespace == [exists |-> FALSE, rv |-> 0, mark |-> FALSE]
NoSetting == [exists |-> FALSE, rv |-> 0, value |-> "", default |-> ""]
NoUser == [exists |-> FALSE, rv |-> 0, default |-> FALSE, admin |-> FALSE,
           display |-> "Default Admin"]

Leader == [pc : {"none", "get", "store", "annotation", "list", "create", "bind", "mark",
                 "controllers"},
           setting : SettingObject, ns : Namespace, admin : Users \cup {"none"}]
Follower == [pc |-> "none", setting |-> NoSetting, ns |-> NoNamespace, admin |-> "none"]

Init ==
  /\ releaseNs = [NoNamespace EXCEPT !.exists = TRUE]
  /\ setting = NoSetting
  /\ user = [u \in Users |-> NoUser] /\ ucache = user /\ wcache = user
  /\ binding = {} /\ bcache = {} /\ queue = {}
  /\ lead = [s \in Servers |-> Follower]
  /\ disturbed = 0

Disturb(kind) ==
  /\ kind \in Disturbances /\ disturbed < MaxDisturbances
  /\ disturbed' = disturbed + 1

\* A call that stores new in place of old when possible holds: it is answered, it
\* is refused, or it fails although it was possible, stored or not.
Call(old, new, possible, stored, ok) ==
  \/ /\ ok /\ possible /\ stored = new
     /\ UNCHANGED disturbed
  \/ /\ ~ok /\ ~possible /\ stored = old
     /\ UNCHANGED disturbed
  \/ /\ ~ok /\ possible /\ stored \in {old, new}
     /\ Disturb("lostCall")

-----------------------------------------------------------------------------
\* Processes.  One that is not the leader has nothing of this to lose.

\* The process ends; what the leader had cached and queued is lost.
Exit(s) == lead' = [lead EXCEPT ![s] = Follower] /\ queue' = {}

Crash(s) ==
  /\ lead[s].pc # "none" /\ Disturb("crash")
  /\ Exit(s)
  /\ UNCHANGED <<releaseNs, setting, users, ucache, bcache, wcache>>

-----------------------------------------------------------------------------
\* The leader: settings.

Lead(s) ==
  /\ \A t \in Servers : lead[t].pc = "none"
  /\ lead' = [lead EXCEPT ![s].pc = "get"]
  /\ UNCHANGED <<releaseNs, setting, users, caches, wcache, disturbed>>

GetSetting(s) ==
  /\ lead[s].pc = "get"
  /\ lead' = [lead EXCEPT ![s].pc = "store", ![s].setting = setting]
  /\ UNCHANGED <<releaseNs, setting, users, caches, wcache, disturbed>>

\* Mutant of WantedSetting: a setting that is there keeps its default.
WantedSettingOnce(s, copy) ==
  IF copy.exists THEN [copy EXCEPT !.value = IF Env[s] # "" THEN Env[s] ELSE @]
  ELSE [exists |-> TRUE, rv |-> 0, value |-> Env[s], default |-> Default[s]]

\* The default of the code is stored, and a value only if it comes from the environment.
WantedSetting(s, copy) ==
  IF copy.exists THEN [copy EXCEPT !.default = Default[s],
                                   !.value = IF Env[s] # "" THEN Env[s] ELSE @]
  ELSE [exists |-> TRUE, rv |-> 0, value |-> Env[s], default |-> Default[s]]

\* Mutant of SettingAccepted: an update is sent without the version of the copy.
SettingAcceptedAnyway(copy) == copy.exists = setting.exists

SettingAccepted(copy) == IF copy.exists THEN Accepts(setting, copy) ELSE ~setting.exists

\* SetAll.  An error ends the process.
StoreSetting(s) ==
  LET copy == lead[s].setting
      new  == Changed(setting, WantedSetting(s, copy))
      next == lead' = [lead EXCEPT ![s].pc = "annotation", ![s].setting = NoSetting]
  IN /\ lead[s].pc = "store"
     /\ \/ /\ WantedSetting(s, copy) = copy
           /\ next
           /\ UNCHANGED <<setting, queue, disturbed>>
        \/ /\ WantedSetting(s, copy) # copy
           /\ \E ok \in BOOLEAN, kept \in {setting, new} :
                /\ Call(setting, new, SettingAccepted(copy), kept, ok)
                /\ setting' = kept
                /\ \/ ok /\ next /\ UNCHANGED queue
                   \/ ~ok /\ Exit(s)
     /\ UNCHANGED <<releaseNs, users, ucache, bcache, wcache>>

-----------------------------------------------------------------------------
\* The leader: BootstrapAdminUser, whose error is dropped, and then the controllers.

\* Mutant of Queued: only what changes from now on.
QueuedNone == {}

\* Every object is listed, and its key queued.
Queued == {u \in Users : user[u].exists}

StartControllers(s) ==
  /\ lead' = [lead EXCEPT ![s] = [Follower EXCEPT !.pc = "controllers"]]
  /\ ucache' = user /\ bcache' = binding /\ queue' = Queued

\* Mutant of AdminCreated: the annotation is not looked at.
AdminCreatedNever(ns) == FALSE

AdminCreated(ns) == ns.mark

GetReleaseNamespace(s) ==
  /\ lead[s].pc = "annotation"
  /\ \/ AdminCreated(releaseNs) /\ StartControllers(s)
     \/ /\ ~AdminCreated(releaseNs)
        /\ lead' = [lead EXCEPT ![s].pc = "list", ![s].ns = releaseNs]
        /\ UNCHANGED caches
  /\ UNCHANGED <<releaseNs, setting, users, wcache, disturbed>>

\* Mutant of Admins: those of the leader's cache, which has not been filled.
AdminsCached == {u \in Users : ucache[u].exists /\ ucache[u].default}

\* The list comes from the API server; the label is looked for.
Admins == {u \in Users : user[u].exists /\ user[u].default}

ListAdmins(s) ==
  /\ lead[s].pc = "list"
  /\ \/ Admins # {} /\ StartControllers(s)
     \/ /\ Admins = {}
        /\ lead' = [lead EXCEPT ![s].pc = "create"]
        /\ UNCHANGED caches
  /\ UNCHANGED <<releaseNs, setting, users, wcache, disturbed>>

\* The validator of users refuses a display name that its cache holds.
DisplayFree(display) == \A u \in Users : wcache[u].exists => wcache[u].display # display

CreateAdmin(s) ==
  \E u \in AdminNames :
    LET new == Changed(user[u], [NoUser EXCEPT !.exists = TRUE, !.default = TRUE,
                                               !.admin = TRUE])
    IN /\ lead[s].pc = "create" /\ user[u].rv = 0
       /\ \E ok \in BOOLEAN, kept \in {user[u], new} :
            /\ Call(user[u], new, DisplayFree("Default Admin"), kept, ok)
            /\ user' = [user EXCEPT ![u] = kept]
            /\ \/ /\ ok /\ lead' = [lead EXCEPT ![s].pc = "bind", ![s].admin = u]
                  /\ UNCHANGED caches
               \/ /\ ~ok /\ lead' = [lead EXCEPT ![s] = [Follower EXCEPT !.pc = "controllers"]]
                  /\ ucache' = user' /\ bcache' = binding
                  /\ queue' = {v \in Users : user'[v].exists}
       /\ UNCHANGED <<releaseNs, setting, binding, wcache>>

\* Mutant of Bound: the subject and the role change places.
BoundSwapped(u, role) == binding \cup {<<role, u>>}

\* The binding of a user who is gone is collected.
Bound(u, role) == IF user[u].exists THEN binding \cup {<<u, role>>} ELSE binding

BindAdmin(s) ==
  LET new == Bound(lead[s].admin, "cluster-admin")
  IN /\ lead[s].pc = "bind"
     /\ \E ok \in BOOLEAN, kept \in {binding, new} :
          /\ Call(binding, new, TRUE, kept, ok)
          /\ binding' = kept
          /\ \/ ok /\ lead' = [lead EXCEPT ![s].pc = "mark"] /\ UNCHANGED caches
             \/ /\ ~ok /\ lead' = [lead EXCEPT ![s] = [Follower EXCEPT !.pc = "controllers"]]
                /\ ucache' = user /\ bcache' = kept /\ queue' = Queued
     /\ UNCHANGED <<releaseNs, setting, user, wcache>>

MarkCreated(s) ==
  LET new == Stored(releaseNs, [lead[s].ns EXCEPT !.mark = TRUE])
  IN /\ lead[s].pc = "mark"
     /\ \E ok \in BOOLEAN, kept \in {releaseNs, new} :
          /\ Call(releaseNs, new, Accepts(releaseNs, lead[s].ns), kept, ok)
          /\ releaseNs' = kept
     /\ StartControllers(s)
     /\ UNCHANGED <<setting, users, wcache>>

LeadStep(s) == \/ GetSetting(s) \/ StoreSetting(s) \/ GetReleaseNamespace(s)
               \/ ListAdmins(s) \/ CreateAdmin(s) \/ BindAdmin(s) \/ MarkCreated(s)

-----------------------------------------------------------------------------
\* The user controller.

Working == \E s \in Servers : lead[s].pc = "controllers"

SyncUser(u) ==
  /\ Working /\ ucache[u] # user[u]
  /\ ucache' = [ucache EXCEPT ![u] = user[u]] /\ queue' = queue \cup {u}
  /\ UNCHANGED <<releaseNs, setting, users, bcache, wcache, lead, disturbed>>

SyncBindings ==
  /\ Working /\ bcache # binding /\ bcache' = binding
  /\ UNCHANGED <<releaseNs, setting, users, ucache, queue, wcache, lead, disturbed>>

RoleOf(obj) == IF obj.admin THEN "cluster-admin" ELSE "system:public-info-viewer"

\* Mutant of Ended: a failed key is not queued again.
EndedForGood(u, ok) == queue' = queue \ {u}

Ended(u, ok) == queue' = IF ok THEN queue \ {u} ELSE queue

\* ensureClusterBinding creates one, under a generated name, unless the cache has it.
\* A binding of another role stays.
OnChanged(u) ==
  LET new == Bound(u, RoleOf(ucache[u]))
  IN /\ Working /\ u \in queue
     /\ \/ /\ ~ucache[u].exists \/ <<u, RoleOf(ucache[u])>> \in bcache
           /\ Ended(u, TRUE)
           /\ UNCHANGED <<binding, disturbed>>
        \/ /\ ucache[u].exists /\ <<u, RoleOf(ucache[u])>> \notin bcache
           /\ \E ok \in BOOLEAN, kept \in {binding, new} :
                /\ Call(binding, new, TRUE, kept, ok)
                /\ binding' = kept
                /\ Ended(u, ok)
     /\ UNCHANGED <<releaseNs, setting, user, ucache, bcache, wcache, lead>>

-----------------------------------------------------------------------------
\* Users, and the webhook's informer.

CreateUser(u, admin, display) ==
  /\ user[u].rv = 0 /\ u \notin AdminNames /\ DisplayFree(display)
  /\ user' = [user EXCEPT ![u] =
       Changed(user[u], [NoUser EXCEPT !.exists = TRUE, !.admin = admin, !.display = display])]
  /\ UNCHANGED <<releaseNs, setting, binding, caches, wcache, lead, disturbed>>

\* The collector takes the bindings of a deleted user.
DeleteUser(u) ==
  /\ user[u].exists /\ Disturb("deleteUser")
  /\ user' = [user EXCEPT ![u] = Removed(user[u])]
  /\ binding' = {b \in binding : b[1] # u}
  /\ UNCHANGED <<releaseNs, setting, caches, wcache, lead>>

ChangeRole(u) ==
  /\ user[u].exists /\ Disturb("changeRole")
  /\ user' = [user EXCEPT ![u] = Changed(user[u], [user[u] EXCEPT !.admin = ~@])]
  /\ UNCHANGED <<releaseNs, setting, binding, caches, wcache, lead>>

SyncWebhook(u) ==
  /\ wcache[u] # user[u] /\ wcache' = [wcache EXCEPT ![u] = user[u]]
  /\ UNCHANGED <<releaseNs, setting, users, caches, lead, disturbed>>

EditSetting(v) ==
  /\ setting.exists /\ setting.value # v /\ Disturb("editSetting")
  /\ setting' = Changed(setting, [setting EXCEPT !.value = v])
  /\ UNCHANGED <<releaseNs, users, caches, wcache, lead>>

\* Labels or other annotations.
EditNamespace ==
  /\ Disturb("editNamespace")
  /\ releaseNs' = Changed(releaseNs, releaseNs)
  /\ UNCHANGED <<setting, users, caches, wcache, lead>>

-----------------------------------------------------------------------------
Next ==
  \/ \E s \in Servers : Crash(s) \/ Lead(s) \/ LeadStep(s)
  \/ \E u \in Users : \/ SyncUser(u) \/ OnChanged(u) \/ SyncWebhook(u)
                     \/ \E a \in BOOLEAN, d \in Displays : CreateUser(u, a, d)
                     \/ DeleteUser(u) \/ ChangeRole(u)
  \/ SyncBindings
  \/ \E v \in Values : EditSetting(v)
  \/ EditNamespace

Spec == Init /\ [][Next]_vars

\* The lease is taken, a leader goes on, the informers deliver, and a worker gets to every
\* key.
Fairness ==
  /\ \A s \in Servers : WF_vars(LeadStep(s))
  /\ WF_vars(\E s \in Servers : Lead(s))
  /\ \A u \in Users : WF_vars(SyncUser(u)) /\ WF_vars(OnChanged(u))
  /\ WF_vars(SyncBindings)

FairSpec == Spec /\ Fairness

-----------------------------------------------------------------------------
(***************************************************************************)
(* Properties.                                                             *)
(***************************************************************************)

\* What the objects, the caches and the leading threads can hold.
TypeOK ==
  /\ releaseNs \in Namespace
  /\ setting \in SettingObject
  /\ user \in [Users -> UserObject] /\ ucache \in [Users -> UserObject]
  /\ wcache \in [Users -> UserObject]
  /\ binding \subseteq Users \X Roles /\ bcache \subseteq Users \X Roles
  /\ queue \subseteq Users
  /\ lead \in [Servers -> Leader]
  /\ disturbed \in 0..MaxDisturbances

\* BootstrapAdminUser never makes a second default administrator beside the first,
\* wherever the leaders before it died, and although nothing but its own list says so.
OneDefaultAdmin == Cardinality(Admins) <= 1

\* "return if default admin already created": once the annotation is stored, a default
\* administrator that was deleted does not come back with a later leader.
AdminNotCreatedAgain ==
  [][releaseNs.mark =>
       \A u \in Users : user'[u].exists /\ user'[u].default => user[u].exists]_vars

\* SetAll runs while users edit settings: it never takes a value from one that has one,
\* other than for the value in the environment.
SettingKept ==
  [][(setting.value # "" /\ setting'.value # setting.value) =>
       \/ UNCHANGED lead
       \/ \E s \in Servers : /\ lead[s].pc = "store" /\ Env[s] # ""
                             /\ setting'.value = Env[s]]_vars

\* When the controllers of a leader run, the setting has the default of that leader's
\* code, whichever version of the server led before.
DefaultStored ==
  \A s \in Servers : lead[s].pc = "controllers" =>
    setting.exists /\ setting.default = Default[s]

\* Every user gets the binding of the role, also a default administrator whose leader
\* died before it was bound, and a user whose role changes.
EventuallyBound ==
  \A u \in Users : <>[](user[u].exists => <<u, RoleOf(user[u])>> \in binding)
==============================================================================
