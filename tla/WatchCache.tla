----------------------------- MODULE WatchCache -----------------------------
(***************************************************************************)
(* common/cache/watch.go: the disk cache of a watch session.  A process    *)
(* serves many runs; within it a file that has been checked against its    *)
(* stored hash once is served from memory without being read, until the    *)
(* host of the session reports that it changed.                            *)
(*                                                                         *)
(* The steps of the disk path are those of DiskCache; this module adds the *)
(* verified marks, the fast path, and the invalidation at the start of a   *)
(* cycle (runner.go, runWatchCycle).  The host may report any set of       *)
(* paths: what the cache promises is relative to what it was told, which   *)
(* the history variable seen records.  WatchSession adds the host.         *)
(***************************************************************************)
EXTENDS DiskCache

VARIABLES verified,  \* WatchCache.verified
          reported,  \* the paths whose hashes and marks Invalidate has yet to delete
          seen       \* history: the contents of each file since the session
                     \* began or the file was last invalidated

sessionVars == <<verified, reported, seen>>
watchVars == <<vars, verified, reported, seen>>

WatchTypeOK ==
    /\ TypeOK
    /\ verified \subseteq Path
    /\ reported \subseteq Path
    /\ seen \in [Path -> SUBSET (Content \cup {Absent})]

WatchInit ==
    /\ Init
    /\ verified = {}
    /\ reported = {}
    /\ seen = [p \in Path |-> {fs[p]}]

WatchEdit(p, c) ==
    /\ Edit(p, c)
    /\ seen' = [seen EXCEPT ![p] = @ \cup {c}]
    /\ UNCHANGED <<verified, reported>>

WatchForeignPersist(b, P) == ForeignPersist(b, P) /\ UNCHANGED sessionVars

\* WatchCache.NewCache reads the cache file on its first use only; nothing is
\* verified yet.
WatchBoot(b) ==
    /\ Boot(b)
    /\ verified' = {}
    /\ reported' = {}
    /\ seen' = [p \in Path |-> {fs[p]}]

\* The change set of a CYCLE message: Invalidate deletes the rows, ...
BeginCycle(P) ==
    /\ phase = "idle"
    /\ Drained
    /\ phase' = "invalidate"
    /\ entries' = Evict(entries, P)
    /\ reported' = P
    /\ seen' = [p \in Path |-> IF p \in P THEN {fs[p]} ELSE seen[p]]
    /\ UNCHANGED <<fs, build, hashes, job, snap, disk, verified>>

\* Mutant of BeginReset: InvalidateAll clears the hashes and marks only.
BeginResetKeepsRows ==
    /\ phase = "idle"
    /\ Drained
    /\ phase' = "invalidate"
    /\ reported' = Path
    /\ seen' = [p \in Path |-> {fs[p]}]
    /\ UNCHANGED <<fs, build, entries, hashes, job, snap, disk, verified>>

\* CYCLE_RESET: InvalidateAll deletes those of every path, ...
BeginReset ==
    /\ phase = "idle"
    /\ Drained
    /\ phase' = "invalidate"
    /\ entries' = NoEntries
    /\ reported' = Path
    /\ seen' = [p \in Path |-> {fs[p]}]
    /\ UNCHANGED <<fs, build, hashes, job, snap, disk, verified>>

\* ... then the stored hash of each ...
DropHash(p) ==
    /\ p \in reported
    /\ hashes[p] # NoHash
    /\ hashes' = [hashes EXCEPT ![p] = NoHash]
    /\ UNCHANGED <<fs, build, phase, entries, job, snap, disk, sessionVars>>

\* ... and its mark, ...
DropMark(p) ==
    /\ p \in reported
    /\ hashes[p] = NoHash
    /\ verified' = verified \ {p}
    /\ reported' = reported \ {p}
    /\ UNCHANGED <<vars, seen>>

\* Mutant of StartRun: lookups begin while paths are still being invalidated.
StartRunEarly ==
    /\ phase = "invalidate"
    /\ phase' = "run"
    /\ UNCHANGED <<fs, build, entries, hashes, job, snap, disk, sessionVars>>

\* ... before the run of gazelle begins.
StartRun ==
    /\ phase = "invalidate"
    /\ reported = {}
    /\ phase' = "run"
    /\ UNCHANGED <<fs, build, entries, hashes, job, snap, disk, sessionVars>>

WatchCall(w, p, k) == Call(w, p, k) /\ UNCHANGED sessionVars

\* Mutant of Trusted: rows loaded from the cache file need no check.
TrustedUnverified(w) == entries[job[w].path][job[w].key] # None

\* A verified file with a value of this key.
Trusted(w) ==
    /\ job[w].path \in verified
    /\ entries[job[w].path][job[w].key] # None

\* The fast path of LoadOrStoreFile: no file I/O.
Hit(w) ==
    LET v == entries[job[w].path][job[w].key] IN
    /\ job[w].pc = "readFile"
    /\ Trusted(w)
    /\ job' = [job EXCEPT ![w] = [@ EXCEPT !.pc = "done", !.content = v.content, !.res = v]]
    /\ UNCHANGED <<fs, build, phase, entries, hashes, snap, disk, sessionVars>>

\* The disk path; when it ends without an error the file is verified.
SlowPath(w) ==
    /\ job[w].pc = "readFile" => ~Trusted(w)
    /\ DiskLookup(w)
    /\ verified' = IF job'[w].pc = "done" /\ job'[w].res # Err
                   THEN verified \cup {job[w].path} ELSE verified
    /\ UNCHANGED <<reported, seen>>

WatchConsume(w) == Consume(w) /\ UNCHANGED sessionVars
WatchPersist == Persist /\ UNCHANGED sessionVars
WatchLost == (Exit \/ Crash) /\ verified' = {} /\ reported' = {} /\ UNCHANGED seen

WatchNext ==
    \/ \E p \in Path, c \in Content \cup {Absent} : WatchEdit(p, c)
    \/ \E b \in Build, P \in SUBSET Path : WatchForeignPersist(b, P)
    \/ \E b \in Build : WatchBoot(b)
    \/ \E P \in SUBSET Path : BeginCycle(P)
    \/ BeginReset
    \/ \E p \in Path : DropHash(p) \/ DropMark(p)
    \/ StartRun
    \/ \E w \in Worker, p \in Path, k \in Key : WatchCall(w, p, k)
    \/ \E w \in Worker : Hit(w) \/ SlowPath(w) \/ WatchConsume(w)
    \/ WatchPersist
    \/ WatchLost

WatchSpec == WatchInit /\ [][WatchNext]_watchVars

------------------------------------------------------------------------------
(* Properties; MemoryCoherent and DiskCoherent are those of DiskCache. *)

\* What the fast path would answer for a verified file was computed from a
\* content the file has had since the last time it was invalidated: a file the
\* host has reported is never served from before the report, and a file with no
\* change left to report is served exactly as it is (watch.go:45-69).
VerifiedRecent ==
    \A p \in verified, k \in Key :
        entries[p][k] # None => entries[p][k].content \in seen[p]

\* The watch cache keeps the promise of ContentLookup, a file's acceptable
\* contents being those since it was last reported.
WatchLookup == INSTANCE ContentLookup WITH
    call <- [w \in Worker |-> [job[w] EXCEPT !.pc = Stage2Lookup(@)]]

WatchLookupSpec == WatchLookup!Spec
==============================================================================
