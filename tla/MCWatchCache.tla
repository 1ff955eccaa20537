----------------------------- MODULE MCWatchCache ----------------------------
(* WatchCache on small instances: one file asked for two keys by successive  *)
(* builds, or two files served by two workers at once.                      *)
EXTENDS WatchCache, Naturals

CONSTANTS p1, p2, k1, k2, c1, c2, b1, b2, w1, w2

MCOnePath == {p1}
MCTwoPaths == {p1, p2}
MCOneKey == {k1}
MCTwoKeys == {k1, k2}
MCContent == {c1, c2}
MCOneBuild == {b1}
MCTwoBuilds == {b1, b2}
MCOneWorker == {w1}
MCTwoWorkers == {w1, w2}
MCDigest == 1 .. 2
MCHashOf == [c \in MCContent |-> IF c = c1 THEN 1 ELSE 2]
==============================================================================
