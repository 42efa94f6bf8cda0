-------------------------- MODULE VersionNumbering --------------------------
(***************************************************************************)
(* What the numbering of versions promises, however many workers number    *)
(* them.  A numbering of a version begins, stores a number, and finishes.  *)
(* The number is above that of every version of the same template whose    *)
(* numbering had finished when this one began; nothing is promised about   *)
(* one that overlaps.  A version keeps its number until it is deleted.     *)
(***************************************************************************)
EXTENDS Naturals

CONSTANTS Versions, TemplateOf

VARIABLES
  number,     \* of each version, 0 for none
  pending,    \* the number each version is about to get, 0 for none
  unfinished  \* the versions whose number is stored but whose numbering goes on

vars == <<number, pending, unfinished>>

Siblings(v) == {u \in Versions \ {v} : TemplateOf[u] = TemplateOf[v]}

Init ==
  /\ number = [v \in Versions |-> 0] /\ pending = [v \in Versions |-> 0]
  /\ unfinished = {}

Begin(v) ==
  /\ number[v] = 0 /\ pending[v] = 0
  /\ pending' = [pending EXCEPT ![v] = pending'[v]]
  /\ pending'[v] \in Nat \ {0}
  /\ \A u \in Siblings(v) \ unfinished : number[u] < pending'[v]
  /\ UNCHANGED <<number, unfinished>>

StoreNumber(v) ==
  /\ number[v] = 0 /\ pending[v] # 0
  /\ number' = [number EXCEPT ![v] = pending[v]]
  /\ pending' = [pending EXCEPT ![v] = 0]
  /\ unfinished' = unfinished \cup {v}

Finish(v) ==
  /\ v \in unfinished
  /\ unfinished' = unfinished \ {v}
  /\ UNCHANGED <<number, pending>>

GiveUp(v) ==
  /\ pending' = [pending EXCEPT ![v] = 0]
  /\ UNCHANGED <<number, unfinished>>

Delete(v) ==
  /\ number' = [number EXCEPT ![v] = 0]
  /\ UNCHANGED <<pending, unfinished>>

\* All that is under way is lost, the numbers stay.
Crash ==
  /\ pending' = [v \in Versions |-> 0] /\ unfinished' = {}
  /\ UNCHANGED number

Next ==
  \/ \E v \in Versions : \/ Begin(v) \/ StoreNumber(v) \/ Finish(v)
                         \/ GiveUp(v) \/ Delete(v)
  \/ Crash

Spec == Init /\ [][Next]_vars
==============================================================================
