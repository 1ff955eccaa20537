--------------------------- MODULE MCWatchmanCache ---------------------------
(***************************************************************************)
(* Instances of WatchmanCache: a source file a, and a name l that may be a *)
(* regular file or a link to a.                                            *)
(***************************************************************************)
EXTENDS WatchmanCache, TLC

CONSTANTS a, l, c1, c2, w1, w2

MCPath == {a, l}
MCLink == {l}
NoLink == {}
MCContent == {c1, c2}
MCOneWorker == {w1}
MCTwoWorkers == {w1, w2}

\* No definition tells contents apart.
Contents == Permutations(Content)
Both == Contents \cup Permutations(Worker)
==============================================================================
