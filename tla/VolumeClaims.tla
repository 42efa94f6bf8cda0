---------------------------- MODULE VolumeClaims ----------------------------
(***************************************************************************)
(* The loop body shared by the three functions that make volume claims:    *)
(* PVCHandler.CreatePVCFromAnnotation and CreatePVCByVolume, pkg/utils,    *)
(* and createPVCFromAnnotation, pkg/controller/raycluster.  A claim that   *)
(* is not in the cache is created, owned by the object whose handler makes *)
(* it; one that is there only grows, and keeps its owner.                  *)
(***************************************************************************)
EXTENDS ApiServer

ClaimObject(makers) ==
  [exists : BOOLEAN, rv : Nat, size : Nat, owners : SUBSET makers]
NoClaim == [exists |-> FALSE, rv |-> 0, size |-> 0, owners |-> {}]

\* Mutant of Satisfied: the sizes have to be equal.
SatisfiedExactly(copy, size) == copy.exists /\ size = copy.size

\* The cached claim is as large as wanted, or larger: no call.
Satisfied(copy, size) == copy.exists /\ size <= copy.size

\* Whether the call is accepted by the API server that holds cur: Create when the
\* claim is not in the cache, else Update of the cached copy.
ClaimAccepted(cur, copy) == IF copy.exists THEN Accepts(cur, copy) ELSE ~cur.exists

\* What is then stored; maker is the object the claim is asked for.
ClaimStored(cur, copy, size, maker) ==
  IF copy.exists THEN Stored(cur, [copy EXCEPT !.size = size])
                 ELSE Changed(cur, [NoClaim EXCEPT !.exists = TRUE, !.size = size,
                                                   !.owners = {maker}])

\* The garbage collector removes a claim whose owners are gone.
Collectable(cur, gone) == cur.exists /\ cur.owners # {} /\ cur.owners \subseteq gone
ClaimCollected(cur) == Changed(cur, NoClaim)
==============================================================================
