------------------------- MODULE VolumeClaimsProofs -------------------------
(***************************************************************************)
(* What a step of the loop over the claims does to a claim, whatever copy  *)
(* of it the cache holds: lemmas for NotebookProofs and RayClusterProofs.  *)
(***************************************************************************)
EXTENDS VolumeClaims, TLAPS

\* A cached claim is the claim, or has an older version; one that is not there has no
\* size.
ClaimSafe(cur, copy) == /\ copy.rv <= cur.rv
                        /\ copy.rv = cur.rv => copy = cur
                        /\ cur.exists \/ cur.size = 0

LEMMA ClaimTypes ==
  ASSUME NEW makers, NEW cur \in ClaimObject(makers), NEW new \in ClaimObject(makers)
  PROVE  /\ Changed(cur, new) \in ClaimObject(makers)
         /\ Changed(cur, new).rv = cur.rv + 1
         /\ Changed(cur, new).exists = new.exists /\ Changed(cur, new).size = new.size
         /\ Changed(cur, new).owners = new.owners
<1>1. cur.rv + 1 \in Nat
  BY DEF ClaimObject
<1>2. ASSUME NEW n \in Nat
      PROVE  /\ [new EXCEPT !.rv = n] \in ClaimObject(makers)
             /\ [new EXCEPT !.rv = n].rv = n
             /\ [new EXCEPT !.rv = n].exists = new.exists
             /\ [new EXCEPT !.rv = n].size = new.size
             /\ [new EXCEPT !.rv = n].owners = new.owners
  BY DEF ClaimObject
<1> QED BY <1>1, <1>2 DEF Changed

LEMMA NoClaimType ==
  /\ \A makers : NoClaim \in ClaimObject(makers)
  /\ ~NoClaim.exists /\ NoClaim.size = 0 /\ NoClaim.owners = {}
BY DEF NoClaim, ClaimObject

\* A claim that is grown from outside.
LEMMA GrownClaim ==
  ASSUME NEW makers, NEW cur \in ClaimObject(makers), NEW copy \in ClaimObject(makers),
         ClaimSafe(cur, copy), cur.exists
  PROVE  LET new == Changed(cur, [cur EXCEPT !.size = @ + 2])
         IN /\ new \in ClaimObject(makers) /\ ClaimSafe(new, copy) /\ cur.size <= new.size
            /\ new.exists /\ new.owners = cur.owners
<1> DEFINE grown == [cur EXCEPT !.size = @ + 2]
<1>1. /\ grown \in ClaimObject(makers) /\ grown.exists = cur.exists /\ grown.size = cur.size + 2
      /\ cur.size \in Nat /\ grown.owners = cur.owners
  <2>1. cur.size \in Nat /\ cur.size + 2 \in Nat
    BY DEF ClaimObject
  <2>2. ASSUME NEW n \in Nat
        PROVE  /\ [cur EXCEPT !.size = n] \in ClaimObject(makers)
               /\ [cur EXCEPT !.size = n].exists = cur.exists
               /\ [cur EXCEPT !.size = n].size = n
               /\ [cur EXCEPT !.size = n].owners = cur.owners
    BY DEF ClaimObject
  <2>3. grown = [cur EXCEPT !.size = cur.size + 2]
    OBVIOUS
  <2> HIDE DEF grown
  <2> QED BY <2>1, <2>2, <2>3
<1> HIDE DEF grown
<1>2. /\ Changed(cur, grown) \in ClaimObject(makers) /\ Changed(cur, grown).rv = cur.rv + 1
      /\ Changed(cur, grown).owners = cur.owners
      /\ Changed(cur, grown).exists /\ Changed(cur, grown).size = cur.size + 2
  BY <1>1, ClaimTypes
<1>3. /\ Changed(cur, grown) \in ClaimObject(makers) /\ ClaimSafe(Changed(cur, grown), copy)
      /\ cur.size <= Changed(cur, grown).size /\ Changed(cur, grown).exists
      /\ Changed(cur, grown).owners = cur.owners
  BY <1>1, <1>2 DEF ClaimSafe, ClaimObject
<1> QED BY <1>3 DEF grown

\* A claim that is removed.
LEMMA CollectedClaim ==
  ASSUME NEW makers, NEW cur \in ClaimObject(makers), NEW copy \in ClaimObject(makers),
         ClaimSafe(cur, copy)
  PROVE  LET new == ClaimCollected(cur)
         IN /\ new \in ClaimObject(makers) /\ ClaimSafe(new, copy)
            /\ ~new.exists /\ new.owners = {}
<1> DEFINE new == Changed(cur, NoClaim)
<1>1. /\ new \in ClaimObject(makers) /\ new.rv = cur.rv + 1
      /\ ~new.exists /\ new.size = 0 /\ new.owners = {}
  BY NoClaimType, ClaimTypes
<1> HIDE DEF new
<1>2. cur.rv \in Nat /\ copy.rv \in Nat
  BY DEF ClaimObject
<1>3. ClaimSafe(new, copy)
  BY <1>1, <1>2 DEF ClaimSafe
<1> QED BY <1>1, <1>3 DEF new, ClaimCollected

\* What a call asks for, whether or not it is accepted.
LEMMA StoredClaim ==
  ASSUME NEW makers, NEW maker \in makers, NEW size \in Nat,
         NEW cur \in ClaimObject(makers), NEW copy \in ClaimObject(makers)
  PROVE  LET new == ClaimStored(cur, copy, size, maker)
         IN /\ new \in ClaimObject(makers) /\ new.exists /\ new.size = size
            /\ new.owners \subseteq copy.owners \cup {maker}
<1>1. cur.rv + 1 \in Nat
  BY DEF ClaimObject
<1>2. CASE copy.exists
  <2>1. /\ [copy EXCEPT !.size = size] \in ClaimObject(makers)
        /\ [copy EXCEPT !.size = size].exists /\ [copy EXCEPT !.size = size].size = size
        /\ [copy EXCEPT !.size = size].owners = copy.owners
    BY <1>2 DEF ClaimObject
  <2>2. ASSUME NEW n \in Nat
        PROVE  LET new == [[copy EXCEPT !.size = size] EXCEPT !.rv = n]
               IN /\ new \in ClaimObject(makers) /\ new.exists /\ new.size = size
                  /\ new.owners = copy.owners
    BY <1>2 DEF ClaimObject
  <2>3. \/ ClaimStored(cur, copy, size, maker) = [copy EXCEPT !.size = size]
        \/ ClaimStored(cur, copy, size, maker) =
             [[copy EXCEPT !.size = size] EXCEPT !.rv = cur.rv + 1]
    BY <1>2 DEF ClaimStored, Stored
  <2> QED BY <1>1, <2>1, <2>2, <2>3
<1>3. CASE ~copy.exists
  <2> DEFINE made == [NoClaim EXCEPT !.exists = TRUE, !.size = size, !.owners = {maker}]
  <2>1. /\ made \in ClaimObject(makers) /\ made.exists /\ made.size = size
        /\ made.owners = {maker}
    BY DEF NoClaim, ClaimObject
  <2>2. ClaimStored(cur, copy, size, maker) = Changed(cur, made)
    BY <1>3 DEF ClaimStored
  <2> HIDE DEF made
  <2>3. /\ Changed(cur, made) \in ClaimObject(makers) /\ Changed(cur, made).exists
        /\ Changed(cur, made).size = size /\ Changed(cur, made).owners = {maker}
    BY <2>1, ClaimTypes
  <2> QED BY <2>2, <2>3
<1> QED BY <1>2, <1>3

\* A call that is accepted makes the claim larger, and a cached copy of it old.  A claim
\* that was there keeps its owners.
LEMMA AcceptedClaim ==
  ASSUME NEW makers, NEW maker \in makers, NEW size \in Nat,
         NEW cur \in ClaimObject(makers), NEW copy \in ClaimObject(makers),
         ClaimSafe(cur, copy), ~Satisfied(copy, size), ClaimAccepted(cur, copy)
  PROVE  LET new == ClaimStored(cur, copy, size, maker)
         IN /\ ClaimSafe(new, copy) /\ cur.size <= new.size
            /\ new.owners \subseteq cur.owners \cup {maker}
<1>1. cur.rv + 1 \in Nat /\ cur.rv \in Nat /\ copy.rv \in Nat /\ cur.size \in Nat
  BY DEF ClaimObject
<1>2. CASE copy.exists
  <2>1. copy = cur /\ cur.size <= size /\ cur.size # size
    BY <1>1, <1>2 DEF ClaimSafe, ClaimAccepted, Accepts, Satisfied
  <2>2. [copy EXCEPT !.size = size] # cur
    BY <2>1 DEF ClaimObject
  <2>3. ClaimStored(cur, copy, size, maker) =
          [[cur EXCEPT !.size = size] EXCEPT !.rv = cur.rv + 1]
    BY <1>2, <2>1, <2>2 DEF ClaimStored, Stored
  <2>4. /\ ClaimStored(cur, copy, size, maker).rv = cur.rv + 1
        /\ ClaimStored(cur, copy, size, maker).exists = cur.exists
        /\ ClaimStored(cur, copy, size, maker).size = size
        /\ ClaimStored(cur, copy, size, maker).owners = cur.owners
    BY <2>3 DEF ClaimObject
  <2> QED BY <1>1, <1>2, <2>1, <2>4 DEF ClaimSafe
<1>3. CASE ~copy.exists
  <2>1. cur.size = 0
    BY <1>3 DEF ClaimSafe, ClaimAccepted
  <2>2. /\ ClaimStored(cur, copy, size, maker).rv = cur.rv + 1
        /\ ClaimStored(cur, copy, size, maker).exists
        /\ ClaimStored(cur, copy, size, maker).size = size
        /\ ClaimStored(cur, copy, size, maker).owners = {maker}
    BY <1>3 DEF ClaimStored, Changed, NoClaim
  <2> QED BY <1>1, <2>1, <2>2 DEF ClaimSafe
<1> QED BY <1>2, <1>3
==============================================================================
