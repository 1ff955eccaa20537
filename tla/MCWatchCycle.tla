---------------------------- MODULE MCWatchCycle ----------------------------
(* WatchCycle on the workspace with the packages a and a/b. *)
EXTENDS WatchCycle, TLC

CONSTANTS r, a, ab, v1, v2

MCDir == {r, a, ab}
MCParent == (r :> r) @@ (a :> r) @@ (ab :> a)
==============================================================================
