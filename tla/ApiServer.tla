------------------------------ MODULE ApiServer ------------------------------
(***************************************************************************)
(* What every controller of oneblock relies on in the Kubernetes API       *)
(* server.  The server is not part of the repository: these operators      *)
(* state the behaviour its callers use.                                    *)
(*                                                                         *)
(* An object is a record with at least the fields                          *)
(*   exists  - FALSE before it is created and after it is gone;            *)
(*   rv      - its resource version, never reused for the same key.        *)
(* A copy of an object (a cache entry, the argument of a handler) is the   *)
(* same record, taken at an earlier moment.                                *)
(***************************************************************************)
EXTENDS Naturals

\* Optimistic concurrency: Update and UpdateStatus of a copy are accepted only
\* while the stored object still has the copy's resource version; otherwise the
\* caller gets Conflict (or NotFound) and nothing is stored.
Accepts(cur, copy) == cur.exists /\ cur.rv = copy.rv

\* What is stored when an update is accepted: an update that changes nothing
\* keeps the resource version.  (Update ignores the status and UpdateStatus
\* everything else; an accepted copy agrees with the store on the rest.)
Stored(cur, copy) == IF copy = cur THEN cur ELSE [copy EXCEPT !.rv = cur.rv + 1]

\* A change made by somebody else.
Changed(cur, new) == [new EXCEPT !.rv = cur.rv + 1]

\* The object disappears; a later object of the same name has a newer version.
Removed(cur) == [cur EXCEPT !.exists = FALSE, !.rv = cur.rv + 1]
==============================================================================
