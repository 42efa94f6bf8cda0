-------------------------- MODULE VersionReadiness --------------------------
(***************************************************************************)
(* What the MLService controller relies on of a model template version:    *)
(* it is created, and then configured for good.                            *)
(***************************************************************************)

VARIABLE version

Init == version = "absent"

Create == version = "absent" /\ version' = "created"

Configure == version = "created" /\ version' = "configured"

Advance == Create \/ Configure

Spec == Init /\ [][Advance]_version
==============================================================================
