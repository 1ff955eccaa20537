------------------------------ MODULE DiskCache ------------------------------
(***************************************************************************)
(* common/cache/disk.go over common/cache/filecompute.go: a cache of       *)
(* values computed from file contents, kept across runs in one file.       *)
(*                                                                         *)
(* A process boots by reading the cache file, serves lookups from the      *)
(* goroutines of one run, persists, and exits; it may crash at any point,  *)
(* also between the truncation of the cache file and the end of its write. *)
(* Files change at any moment.  Between two processes the cache file may   *)
(* be rewritten by a run in watchman mode, which uses the same file name.  *)
(***************************************************************************)
EXTENDS FileCompute

CONSTANTS Worker,       \* goroutines that look files up during a run
          Digest,       \* content digests
          HashOf,       \* computeCacheKey, as a function
          NoHash,       \* in place of a digest: contentHashes has no entry
          NoBuild,      \* in place of a build: no process is running
          Stamped,      \* buildinfo.IsStamped(): the build knows its version
          EarlyReturn   \* a run may end at the first error of a batch, while
                        \* lookups of that batch are still running

ASSUME HashAssumption ==
    /\ HashOf \in [Content -> Digest]
    /\ \A c, d \in Content : HashOf[c] = HashOf[d] => c = d
    /\ NoHash \notin Digest
ASSUME NonemptyAssumption == Path # {} /\ Key # {}
ASSUME NoBuildAssumption == NoBuild \notin Build
ASSUME FlagAssumption == Stamped \in BOOLEAN /\ EarlyReturn \in BOOLEAN

VARIABLES fs,       \* the content of each file, or Absent
          build,    \* the build of the running process, or NoBuild
          phase,    \* where the process is in its life
          entries,  \* FileComputeCache.entries
          hashes,   \* diskCache.contentHashes
          job,      \* the lookup each worker is in
          snap,     \* what write() has copied out of the maps so far
          disk      \* the cache file

cacheVars == <<entries, hashes>>
vars == <<fs, build, phase, entries, hashes, job, snap, disk>>

\* In "invalidate" only in a watch session (WatchCache).
Phase == {"down", "invalidate", "run", "persist", "snapped", "truncated", "idle"}

\* The stages of LoadOrStoreFile, named after the call that comes next.
Stage == {"idle", "readFile", "checkHash", "storeHash", "load", "compute", "done"}
Busy == Stage \ {"idle", "done"}

Hashes == [Path -> Digest \cup {NoHash}]
Entries == [Path -> Row]
NoHashes == [p \in Path |-> NoHash]

\* The file starts with a persistedCacheInfo; "partial" is what a crash or a
\* failed write leaves after O_TRUNC, which no decoder accepts.
DiskFile == [status  : {"missing", "partial", "written"},
             type    : {"disk", "watchman"},
             version : Build \cup {NoBuild},
             entries : Entries,
             hashes  : Hashes]
NoDisk == [status |-> "missing", type |-> "disk", version |-> NoBuild,
           entries |-> NoEntries, hashes |-> NoHashes]

Job == [pc : Stage, path : Path, key : Key,
        content : Content \cup {Absent}, res : Value \cup {None, Err}]
IdleJob == [pc |-> "idle", path |-> CHOOSE p \in Path : TRUE,
            key |-> CHOOSE k \in Key : TRUE, content |-> Absent, res |-> None]
NoJobs == [w \in Worker |-> IdleJob]

TypeOK ==
    /\ fs \in [Path -> Content \cup {Absent}]
    /\ build \in Build \cup {NoBuild}
    /\ phase \in Phase
    /\ entries \in Entries
    /\ hashes \in Hashes
    /\ job \in [Worker -> Job]
    /\ snap \in [entries : Entries, hashes : Hashes]
    /\ disk \in DiskFile

Init ==
    /\ fs \in [Path -> Content \cup {Absent}]
    /\ build = NoBuild
    /\ phase = "down"
    /\ entries = NoEntries
    /\ hashes = NoHashes
    /\ job = NoJobs
    /\ snap = [entries |-> NoEntries, hashes |-> NoHashes]
    /\ disk = NoDisk

------------------------------------------------------------------------------
(* The environment. *)

\* A file is written, created or removed.
Edit(p, c) ==
    /\ fs[p] # c
    /\ fs' = [fs EXCEPT ![p] = c]
    /\ UNCHANGED <<build, phase, entries, hashes, job, snap, disk>>

\* A run in watchman mode leaves its own state in the cache file: entries for
\* the files it has seen, and no content hashes.
ForeignPersist(b, P) ==
    /\ phase = "down"
    /\ disk' = [status |-> "written", type |-> "watchman", version |-> b,
                entries |-> [p \in Path |-> [k \in Key |->
                    IF p \in P /\ fs[p] # Absent THEN Compute(k, fs[p], b) ELSE None]],
                hashes |-> NoHashes]
    /\ UNCHANGED <<fs, build, phase, entries, hashes, job, snap>>

------------------------------------------------------------------------------
(* The life of a process. *)

\* Mutant of Readable: the version of the cache file is not compared.
ReadableAnyVersion(b) == disk.status = "written" /\ disk.type = "disk"

\* diskCache.read accepts the file: it decodes, has this cache's type and, in a
\* stamped build, this build's version (VerifyCacheVersion).
Readable(b) ==
    /\ disk.status = "written"
    /\ disk.type = "disk"
    /\ Stamped => disk.version = b

\* NewDiskCache, reached once per process through CheckFlags.
Boot(b) ==
    /\ phase = "down"
    /\ build' = b
    /\ phase' = "run"
    /\ entries' = IF Readable(b) THEN disk.entries ELSE NoEntries
    /\ hashes' = IF Readable(b) THEN disk.hashes ELSE NoHashes
    /\ UNCHANGED <<fs, job, snap, disk>>

\* Mutant of Drained: nobody waits for the lookups of the run.
DrainedUnchecked == TRUE

\* No lookup is running; some lookup has failed.
Drained == \A w \in Worker : job[w].pc = "idle"
Failed == \E w \in Worker : job[w].pc = "done" /\ job[w].res = Err

\* The run is over: every batch of lookups has been drained or, when a batch is
\* abandoned at its first error, other lookups of it may still be running.
\* DoneGeneratingRules calls Persist either way; write() first copies the
\* content hashes.
SnapshotHashes ==
    /\ phase = "run"
    /\ Drained \/ (EarlyReturn /\ Failed)
    /\ phase' = "persist"
    /\ snap' = [snap EXCEPT !.hashes = hashes]
    /\ UNCHANGED <<fs, build, entries, hashes, job, disk>>

\* SnapshotEntries, called by write() after the hashes are copied.
SnapshotEntries ==
    /\ phase = "persist"
    /\ phase' = "snapped"
    /\ snap' = [snap EXCEPT !.entries = entries]
    /\ UNCHANGED <<fs, build, entries, hashes, job, disk>>

\* WriteCacheFile opens with O_TRUNC.
Truncate ==
    /\ phase = "snapped"
    /\ phase' = "truncated"
    /\ disk' = [NoDisk EXCEPT !.status = "partial"]
    /\ UNCHANGED <<fs, build, entries, hashes, job, snap>>

\* The header and the state reach the file ...
WriteState ==
    /\ phase = "truncated"
    /\ phase' = "idle"
    /\ disk' = [status |-> "written", type |-> "disk", version |-> build,
                entries |-> snap.entries, hashes |-> snap.hashes]
    /\ UNCHANGED <<fs, build, entries, hashes, job, snap>>

\* ... or an encoder or Close fails: the error is logged, the file stays partial.
WriteFails ==
    /\ phase = "truncated"
    /\ phase' = "idle"
    /\ UNCHANGED <<fs, build, entries, hashes, job, snap, disk>>

\* The process ends, or dies earlier: only the files survive.
Lost ==
    /\ phase' = "down"
    /\ build' = NoBuild
    /\ entries' = NoEntries
    /\ hashes' = NoHashes
    /\ job' = NoJobs
    /\ snap' = [entries |-> NoEntries, hashes |-> NoHashes]
    /\ UNCHANGED <<fs, disk>>

Exit == phase = "idle" /\ Lost
Crash == phase \notin {"down", "idle"} /\ Lost

------------------------------------------------------------------------------
(* LoadOrStoreFile, one step per access to shared state. *)

Goto(w, pc) == job' = [job EXCEPT ![w].pc = pc]
Reply(w, r) == job' = [job EXCEPT ![w].pc = "done", ![w].res = r]

\* A worker takes a file.  The files of a batch are distinct and batches follow
\* one another, so no two running lookups share a path.
Call(w, p, k) ==
    /\ phase = "run"
    /\ job[w].pc = "idle"
    /\ \A v \in Worker : job[v].pc \in Busy => job[v].path # p
    /\ job' = [job EXCEPT ![w] = [pc |-> "readFile", path |-> p, key |-> k,
                                  content |-> Absent, res |-> None]]
    /\ UNCHANGED <<fs, build, phase, entries, hashes, snap, disk>>

ReadFile(w) ==
    /\ job[w].pc = "readFile"
    /\ \/ /\ fs[job[w].path] = Absent
          /\ Reply(w, Err)
       \/ /\ fs[job[w].path] # Absent
          /\ job' = [job EXCEPT ![w].pc = "checkHash", ![w].content = fs[job[w].path]]
    /\ UNCHANGED <<fs, build, phase, entries, hashes, snap, disk>>

\* Mutant of CheckHash: the row is dropped without comparing hashes.
CheckHashAlways(w) ==
    /\ job[w].pc = "checkHash"
    /\ entries' = Evict(entries, {job[w].path})
    /\ Goto(w, "storeHash")
    /\ UNCHANGED <<fs, build, phase, hashes, snap, disk>>

\* Drop the row of a file whose hash is known and has changed.
CheckHash(w) ==
    LET p == job[w].path IN
    /\ job[w].pc = "checkHash"
    /\ entries' = IF hashes[p] \notin {NoHash, HashOf[job[w].content]}
                  THEN Evict(entries, {p}) ELSE entries
    /\ Goto(w, "storeHash")
    /\ UNCHANGED <<fs, build, phase, hashes, snap, disk>>

\* Mutant of StoreHash: LoadOrStore in place of Store.
StoreHashOnce(w) ==
    /\ job[w].pc = "storeHash"
    /\ hashes' = IF hashes[job[w].path] = NoHash
                 THEN [hashes EXCEPT ![job[w].path] = HashOf[job[w].content]] ELSE hashes
    /\ Goto(w, "load")
    /\ UNCHANGED <<fs, build, phase, entries, snap, disk>>

\* The hash of the content just read is stored before the value.
StoreHash(w) ==
    /\ job[w].pc = "storeHash"
    /\ hashes' = [hashes EXCEPT ![job[w].path] = HashOf[job[w].content]]
    /\ Goto(w, "load")
    /\ UNCHANGED <<fs, build, phase, entries, snap, disk>>

\* loadOrStore: a value of this key is a hit ...
Load(w) ==
    LET v == entries[job[w].path][job[w].key] IN
    /\ job[w].pc = "load"
    /\ \/ v # None /\ Reply(w, v)
       \/ v = None /\ Goto(w, "compute")
    /\ UNCHANGED <<fs, build, phase, entries, hashes, snap, disk>>

\* ... otherwise the loader runs on the content read earlier; its value is
\* stored, its error is not.
ComputeValue(w) ==
    LET p == job[w].path
        k == job[w].key
        v == Compute(k, job[w].content, build) IN
    /\ job[w].pc = "compute"
    /\ entries' = StoreFirst(entries, p, k, v)
    /\ Reply(w, entries'[p][k])
    /\ UNCHANGED <<fs, build, phase, hashes, snap, disk>>

\* Mutant of ComputeFails: the error is cached like a value.
ComputeFailsCached(w) ==
    /\ job[w].pc = "compute"
    /\ entries' = StoreFirst(entries, job[w].path, job[w].key, Err)
    /\ Reply(w, Err)
    /\ UNCHANGED <<fs, build, phase, hashes, snap, disk>>

\* The loader fails: nothing is stored.
ComputeFails(w) ==
    /\ job[w].pc = "compute"
    /\ Reply(w, Err)
    /\ UNCHANGED <<fs, build, phase, entries, hashes, snap, disk>>

\* The consumer of the batch takes the result; the worker is free again.
Consume(w) ==
    /\ job[w].pc = "done"
    /\ phase = "run"
    /\ job' = [job EXCEPT ![w] = IdleJob]
    /\ UNCHANGED <<fs, build, phase, entries, hashes, snap, disk>>

DiskLookup(w) ==
    \/ ReadFile(w) \/ CheckHash(w) \/ StoreHash(w)
    \/ Load(w) \/ ComputeValue(w) \/ ComputeFails(w)

Persist == SnapshotHashes \/ SnapshotEntries \/ Truncate \/ WriteState \/ WriteFails

Environment ==
    \/ \E p \in Path, c \in Content \cup {Absent} : Edit(p, c)
    \/ \E b \in Build, P \in SUBSET Path : ForeignPersist(b, P)

Next ==
    \/ Environment
    \/ \E b \in Build : Boot(b)
    \/ \E w \in Worker, p \in Path, k \in Key : Call(w, p, k)
    \/ \E w \in Worker : DiskLookup(w) \/ Consume(w)
    \/ Persist
    \/ Exit
    \/ Crash

Spec == Init /\ [][Next]_vars

------------------------------------------------------------------------------
(* Properties. *)

\* A row is coherent with a hash: every value in it was computed for its key
\* from the content with that hash and, in a stamped build, by build b.
Coherent(row, h, b) ==
    \A k \in Key : row[k] # None =>
        /\ row[k].key = k
        /\ HashOf[row[k].content] = h
        /\ Stamped => row[k].build = b

\* In memory, the stored hash of a file is at all times the hash of the content
\* its cached values were computed from, whatever runs, edits, crashes and
\* cache files of other builds or modes came before (disk.go:107-125).
MemoryCoherent == \A p \in Path : Coherent(entries[p], hashes[p], build)

\* The same of every cache file this cache would load: persisting copies the
\* two maps one after the other, yet never pairs a hash with values of another
\* content (disk.go:87-105).
DiskCoherent ==
    disk.status = "written" /\ disk.type = "disk" =>
        \A p \in Path : Coherent(disk.entries[p], disk.hashes[p], disk.version)

\* A lookup answers with what the loader of this build computes, for the key
\* asked, from the content this very lookup read, hit or miss.
AnswersFresh ==
    \A w \in Worker : job[w].pc = "done" /\ job[w].res # Err =>
        /\ job[w].res.key = job[w].key
        /\ job[w].res.content = job[w].content
        /\ Stamped => job[w].res.build = build

\* A row of a running process is emptied only by a lookup that read a content
\* other than the one the row was computed from: no valid work is thrown away.
EvictsOnlyStale ==
    [][\A p \in Path :
        entries[p] # EmptyRow /\ entries'[p] = EmptyRow /\ phase' # "down" =>
            \E w \in Worker : /\ job[w].pc = "checkHash" /\ job[w].path = p
                              /\ \A k \in Key : entries[p][k] # None =>
                                     entries[p][k].content # job[w].content]_vars

\* What the cache promises its callers is the specification ContentLookup, in
\* which a file is read afresh by every lookup.
Stage2Lookup(pc) ==
    CASE pc = "idle" -> "idle"
      [] pc = "readFile" -> "called"
      [] pc \in {"checkHash", "storeHash", "load", "compute"} -> "sampled"
      [] pc = "done" -> "done"

Lookup == INSTANCE ContentLookup WITH
    seen <- [p \in Path |-> {fs[p]}],
    call <- [w \in Worker |-> [job[w] EXCEPT !.pc = Stage2Lookup(@)]]

LookupSpec == Lookup!Spec
==============================================================================
