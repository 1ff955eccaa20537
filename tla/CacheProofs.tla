----------------------------- MODULE CacheProofs -----------------------------
(***************************************************************************)
(* Proofs about DiskCache and WatchCache for any files, keys, contents,    *)
(* builds, workers and any sequence of reports of the host, provided every *)
(* batch of lookups is drained before the run persists (~EarlyReturn).     *)
(* Without that the cache file may lose its coherence, and the process     *)
(* that boots from it the coherence of its maps.                           *)
(*                                                                         *)
(* First the disk cache alone, then the watch session: the steps of the    *)
(* disk path, and what they keep, are the same in both.                    *)
(***************************************************************************)
EXTENDS WatchCache, TLAPS

(***************************************************************************)
(* The disk cache.                                                         *)
(***************************************************************************)

\* No two running lookups share a path.
Exclusive ==
    \A v, w \in Worker : v # w /\ job[v].pc \in Busy /\ job[w].pc \in Busy =>
        job[v].path # job[w].path

\* What a lookup has established at each stage: the content it read is a
\* content; once the hash is checked the row agrees with that content; once the
\* hash is stored, so does the hash.
JobInv ==
    \A w \in Worker :
        /\ job[w].pc \in {"checkHash", "storeHash", "load", "compute"} =>
               job[w].content \in Content
        /\ job[w].pc = "storeHash" =>
               Coherent(entries[job[w].path], HashOf[job[w].content], build)
        /\ job[w].pc \in {"load", "compute"} =>
               hashes[job[w].path] = HashOf[job[w].content]
        /\ job[w].pc = "readFile" => job[w].content = Absent
        /\ job[w].pc = "idle" => job[w] = IdleJob
        /\ job[w].pc = "done" => job[w].res # None

\* No lookup without a process.
PhaseInv ==
    /\ phase = "down" <=> build = NoBuild
    /\ phase = "down" => entries = NoEntries /\ job = NoJobs

MemInv ==
    /\ TypeOK
    /\ Exclusive
    /\ JobInv
    /\ PhaseInv
    /\ MemoryCoherent
    /\ AnswersFresh

------------------------------------------------------------------------------
(* Facts about the rows. *)

LEMMA ComputeInValue ==
    ASSUME NEW k \in Key, NEW c \in Content, NEW b \in Build
    PROVE  /\ Compute(k, c, b) \in Value
           /\ Compute(k, c, b).key = k
           /\ Compute(k, c, b).content = c
           /\ Compute(k, c, b).build = b
BY DEF Compute, Value

LEMMA EmptyRowCoherent ==
    /\ EmptyRow \in Row
    /\ NoEntries \in Entries
    /\ \A h, b : Coherent(EmptyRow, h, b)
    /\ \A p \in Path : NoEntries[p] = EmptyRow
BY DEF EmptyRow, Row, NoEntries, Entries, Coherent

\* Evict empties the rows of P and leaves the others.
LEMMA EvictRows ==
    ASSUME NEW e \in Entries, NEW P
    PROVE  /\ Evict(e, P) \in Entries
           /\ \A p \in Path : Evict(e, P)[p] = IF p \in P THEN EmptyRow ELSE e[p]
BY EmptyRowCoherent DEF Evict, Entries

\* StoreFirst changes one row, in one key, and only if it was free.
LEMMA StoreFirstRow ==
    ASSUME NEW e \in Entries, NEW p \in Path, NEW k \in Key, NEW v \in Value
    PROVE  /\ StoreFirst(e, p, k, v) \in Entries
           /\ \A q \in Path : q # p => StoreFirst(e, p, k, v)[q] = e[q]
           /\ \A j \in Key : j # k => StoreFirst(e, p, k, v)[p][j] = e[p][j]
           /\ StoreFirst(e, p, k, v)[p][k] = IF e[p][k] = None THEN v ELSE e[p][k]
BY DEF StoreFirst, Entries, Row

\* A row stays coherent when a value of the right content is stored in it.
LEMMA StoreFirstCoherent ==
    ASSUME NEW e \in Entries, NEW p \in Path, NEW k \in Key,
           NEW c \in Content, NEW b \in Build, Coherent(e[p], HashOf[c], b)
    PROVE  Coherent(StoreFirst(e, p, k, Compute(k, c, b))[p], HashOf[c], b)
BY StoreFirstRow, ComputeInValue DEF Coherent

LEMMA IdleJobType ==
    /\ IdleJob.pc = "idle"
    /\ IdleJob \in Job
    /\ NoJobs \in [Worker -> Job]
    /\ \A w \in Worker : NoJobs[w] = IdleJob
BY NonemptyAssumption DEF IdleJob, NoJobs, Job, Stage

\* The three updates the steps of a lookup make to a job keep its type.
LEMMA JobSteps ==
    ASSUME job \in [Worker -> Job], NEW w \in Worker
    PROVE  /\ \A s \in Stage : [job EXCEPT ![w].pc = s] \in [Worker -> Job]
           /\ \A s \in Stage, c \in Content :
                  [job EXCEPT ![w].pc = s, ![w].content = c] \in [Worker -> Job]
           /\ \A s \in Stage, r \in Value \cup {None, Err} :
                  [job EXCEPT ![w].pc = s, ![w].res = r] \in [Worker -> Job]
<1>1. job[w] \in Job
  OBVIOUS
<1>2. \A s \in Stage : [job EXCEPT ![w].pc = s] \in [Worker -> Job]
  BY <1>1 DEF Job
<1>3. \A s \in Stage, c \in Content :
          [job EXCEPT ![w].pc = s, ![w].content = c] \in [Worker -> Job]
  BY <1>1 DEF Job
<1>4. \A s \in Stage, r \in Value \cup {None, Err} :
          [job EXCEPT ![w].pc = s, ![w].res = r] \in [Worker -> Job]
  BY <1>1 DEF Job
<1>5. QED
  BY <1>2, <1>3, <1>4

------------------------------------------------------------------------------
(* Init and the steps of the process, one lemma each. *)

LEMMA InitMem == Init => MemInv
<1> SUFFICES ASSUME Init PROVE MemInv
  OBVIOUS
<1>1. TypeOK
  BY EmptyRowCoherent, IdleJobType
  DEF Init, TypeOK, Phase, Hashes, NoHashes, DiskFile, NoDisk
<1>2. \A w \in Worker : job[w].pc = "idle"
  BY IdleJobType DEF Init
<1>3. Exclusive /\ JobInv /\ PhaseInv /\ AnswersFresh
  BY <1>2, IdleJobType DEF Exclusive, JobInv, PhaseInv, AnswersFresh, Busy, Init
<1>4. MemoryCoherent
  BY EmptyRowCoherent DEF MemoryCoherent, Init
<1>5. QED
  BY <1>1, <1>3, <1>4 DEF MemInv

\* Steps that leave the maps and the lookups alone.
LEMMA QuietMem ==
    ASSUME MemInv, TypeOK', PhaseInv', UNCHANGED <<entries, hashes, job, build>>
    PROVE  MemInv'
BY DEF MemInv, Exclusive, JobInv, MemoryCoherent, AnswersFresh, Coherent

LEMMA EnvironmentMem == ASSUME MemInv, Environment PROVE MemInv'
<1>1. TypeOK /\ PhaseInv
  BY DEF MemInv
<1>2. ASSUME NEW p \in Path, NEW c \in Content \cup {Absent}, Edit(p, c) PROVE MemInv'
  <2>1. TypeOK' /\ PhaseInv'
    BY <1>1, <1>2 DEF TypeOK, PhaseInv, Edit
  <2>2. QED
    BY <1>2, <2>1, QuietMem DEF Edit
<1>3. ASSUME NEW b \in Build, NEW P \in SUBSET Path, ForeignPersist(b, P) PROVE MemInv'
  <2> DEFINE new == [p \in Path |-> [k \in Key |->
                 IF p \in P /\ fs[p] # Absent THEN Compute(k, fs[p], b) ELSE None]]
  <2>1. new \in Entries
    BY <1>1, ComputeInValue DEF Entries, Row, TypeOK
  <2>2. disk' \in DiskFile
    BY <1>3, <2>1 DEF ForeignPersist, DiskFile, Hashes, NoHashes
  <2>3. TypeOK' /\ PhaseInv'
    BY <1>1, <1>3, <2>2 DEF TypeOK, PhaseInv, ForeignPersist
  <2>4. QED
    BY <1>3, <2>3, QuietMem DEF ForeignPersist
<1>4. QED
  BY <1>2, <1>3 DEF Environment

LEMMA PersistMem == ASSUME MemInv, Persist PROVE MemInv'
<1>1. TypeOK /\ PhaseInv
  BY DEF MemInv
<1>2. CASE SnapshotHashes
  <2>1. TypeOK' /\ PhaseInv'
    BY <1>1, <1>2 DEF TypeOK, PhaseInv, SnapshotHashes, Phase
  <2>2. QED
    BY <1>2, <2>1, QuietMem DEF SnapshotHashes
<1>3. CASE SnapshotEntries
  <2>1. TypeOK' /\ PhaseInv'
    BY <1>1, <1>3 DEF TypeOK, PhaseInv, SnapshotEntries, Phase
  <2>2. QED
    BY <1>3, <2>1, QuietMem DEF SnapshotEntries
<1>4. CASE Truncate
  <2>1. TypeOK' /\ PhaseInv'
    BY <1>1, <1>4, EmptyRowCoherent
    DEF TypeOK, PhaseInv, Truncate, Phase, DiskFile, NoDisk, Hashes, NoHashes
  <2>2. QED
    BY <1>4, <2>1, QuietMem DEF Truncate
<1>5. CASE WriteState
  <2>1. disk' \in DiskFile
    BY <1>1, <1>5 DEF TypeOK, WriteState, DiskFile
  <2>2. TypeOK' /\ PhaseInv'
    BY <1>1, <1>5, <2>1 DEF TypeOK, PhaseInv, WriteState, Phase
  <2>3. QED
    BY <1>5, <2>2, QuietMem DEF WriteState
<1>6. CASE WriteFails
  <2>1. TypeOK' /\ PhaseInv'
    BY <1>1, <1>6 DEF TypeOK, PhaseInv, WriteFails, Phase
  <2>2. QED
    BY <1>6, <2>1, QuietMem DEF WriteFails
<1>7. QED
  BY <1>2, <1>3, <1>4, <1>5, <1>6 DEF Persist

\* A process takes over a cache file only if its type and version fit; the file
\* is assumed coherent here, which DiskInv provides.
LEMMA BootMem ==
    ASSUME MemInv, DiskCoherent, NEW b \in Build, Boot(b)
    PROVE  MemInv'
<1>1. TypeOK /\ job = NoJobs /\ \A w \in Worker : job[w].pc = "idle" /\ job[w] = IdleJob
  BY IdleJobType DEF MemInv, PhaseInv, Boot
<1>2. TypeOK'
  BY <1>1, EmptyRowCoherent DEF TypeOK, Boot, Phase, Hashes, NoHashes, DiskFile
<1>3. \A w \in Worker : job'[w].pc = "idle" /\ job'[w] = IdleJob
  BY <1>1 DEF Boot
<1>4. Exclusive' /\ JobInv' /\ PhaseInv' /\ AnswersFresh'
  BY <1>3, NoBuildAssumption DEF Exclusive, JobInv, PhaseInv, AnswersFresh, Busy, Boot
<1>5. MemoryCoherent'
  <2>1. CASE Readable(b)
    BY <2>1 DEF MemoryCoherent, DiskCoherent, Readable, Boot, Coherent
  <2>2. CASE ~Readable(b)
    BY <2>2, EmptyRowCoherent DEF MemoryCoherent, Boot
  <2>3. QED
    BY <2>1, <2>2
<1>6. QED
  BY <1>2, <1>4, <1>5 DEF MemInv

LEMMA LostMem == ASSUME MemInv, Lost PROVE MemInv'
<1>1. TypeOK'
  BY EmptyRowCoherent, IdleJobType DEF MemInv, TypeOK, Lost, Phase, Hashes, NoHashes
<1>2. \A w \in Worker : job'[w].pc = "idle" /\ job'[w] = IdleJob
  BY IdleJobType DEF Lost
<1>3. Exclusive' /\ JobInv' /\ PhaseInv' /\ AnswersFresh'
  BY <1>2 DEF Exclusive, JobInv, PhaseInv, AnswersFresh, Busy, Lost
<1>4. MemoryCoherent'
  BY EmptyRowCoherent DEF MemoryCoherent, Lost
<1>5. QED
  BY <1>1, <1>3, <1>4 DEF MemInv

------------------------------------------------------------------------------
(* The steps of a lookup. *)

LEMMA CallMem ==
    ASSUME MemInv, NEW w \in Worker, NEW p \in Path, NEW k \in Key, Call(w, p, k)
    PROVE  MemInv'
<1>1. TypeOK'
  BY DEF MemInv, TypeOK, Job, Call, Stage
<1>2. /\ job'[w].pc = "readFile" /\ job'[w].path = p
      /\ \A v \in Worker : v # w => job'[v] = job[v]
  BY DEF MemInv, TypeOK, Job, Call
<1>3. Exclusive'
  BY <1>2 DEF MemInv, Exclusive, Call
<1>4. JobInv' /\ PhaseInv' /\ AnswersFresh'
  <2>1. job'[w].content = Absent
    BY DEF MemInv, TypeOK, Call
  <2>2. JobInv'
    BY <1>2, <2>1 DEF MemInv, JobInv, Call, Coherent
  <2>3. PhaseInv'
    BY DEF MemInv, PhaseInv, Call
  <2>4. AnswersFresh'
    BY <1>2 DEF MemInv, AnswersFresh, Call
  <2>5. QED
    BY <2>2, <2>3, <2>4
<1>5. MemoryCoherent'
  BY DEF MemInv, MemoryCoherent, Call, Coherent
<1>6. QED
  BY <1>1, <1>3, <1>4, <1>5 DEF MemInv

LEMMA ConsumeMem == ASSUME MemInv, NEW w \in Worker, Consume(w) PROVE MemInv'
<1>1. TypeOK'
  BY IdleJobType DEF MemInv, TypeOK, Job, Consume
<1>2. job'[w].pc = "idle" /\ \A v \in Worker : v # w => job'[v] = job[v]
  BY IdleJobType DEF MemInv, TypeOK, Job, Consume
<1>3. Exclusive' /\ JobInv' /\ PhaseInv' /\ AnswersFresh'
  BY <1>2 DEF MemInv, Exclusive, JobInv, PhaseInv, AnswersFresh, Consume, Busy, Coherent
<1>4. MemoryCoherent'
  BY DEF MemInv, MemoryCoherent, Consume, Coherent
<1>5. QED
  BY <1>1, <1>3, <1>4 DEF MemInv

\* A worker that is busy and stays on its path keeps the paths apart.
LEMMA ExclusiveStep ==
    ASSUME MemInv, NEW w \in Worker, job[w].pc \in Busy,
           job'[w].path = job[w].path,
           \A v \in Worker : v # w => job'[v] = job[v]
    PROVE  Exclusive'
BY DEF MemInv, Exclusive

\* Only a process has lookups.
LEMMA RunningStep ==
    ASSUME MemInv, NEW w \in Worker, job[w].pc # "idle", UNCHANGED <<phase, build>>
    PROVE  phase # "down" /\ build \in Build /\ PhaseInv'
BY IdleJobType DEF MemInv, TypeOK, PhaseInv

LEMMA ReadFileMem == ASSUME MemInv, NEW w \in Worker, ReadFile(w) PROVE MemInv'
<1>1. TypeOK
  BY DEF MemInv
<1>2. TypeOK'
  BY <1>1 DEF TypeOK, Job, ReadFile, Reply, Stage
<1>3. /\ job'[w].path = job[w].path
      /\ \/ job'[w].pc = "done" /\ job'[w].res = Err
         \/ job'[w].pc = "checkHash" /\ job'[w].content \in Content
      /\ \A v \in Worker : v # w => job'[v] = job[v]
  BY <1>1 DEF TypeOK, Job, ReadFile, Reply
<1>4. Exclusive'
  BY <1>3, ExclusiveStep DEF ReadFile, Busy, Stage
<1>5. JobInv' /\ PhaseInv' /\ AnswersFresh'
  <2>1. PhaseInv'
    BY RunningStep DEF ReadFile
  <2>2. Err # None
    BY NoValueAssumption
  <2>3. JobInv'
    BY <1>3, <2>2 DEF MemInv, JobInv, ReadFile, Coherent
  <2>4. AnswersFresh'
    BY <1>3 DEF MemInv, AnswersFresh, ReadFile
  <2>5. QED
    BY <2>1, <2>3, <2>4
<1>6. MemoryCoherent'
  BY DEF MemInv, MemoryCoherent, ReadFile, Coherent
<1>7. QED
  BY <1>2, <1>4, <1>5, <1>6 DEF MemInv

LEMMA CheckHashMem == ASSUME MemInv, NEW w \in Worker, CheckHash(w) PROVE MemInv'
<1> DEFINE p == job[w].path
           h == HashOf[job[w].content]
<1>1. TypeOK /\ job[w].pc = "checkHash" /\ p \in Path /\ job[w].content \in Content
  BY DEF MemInv, TypeOK, Job, JobInv, CheckHash
<1>0. entries \in Entries
  BY <1>1 DEF TypeOK, Job
<1>2. entries' \in Entries /\ \A q \in Path : q # p => entries'[q] = entries[q]
  BY <1>0, <1>1, EvictRows DEF CheckHash
<1>3. TypeOK'
  BY <1>1, <1>2, JobSteps DEF TypeOK, CheckHash, Goto, Stage
<1>4. /\ job'[w] = [job[w] EXCEPT !.pc = "storeHash"]
      /\ \A v \in Worker : v # w => job'[v] = job[v]
  BY <1>1 DEF TypeOK, Job, CheckHash, Goto
<1>5. /\ job'[w].pc = "storeHash" /\ job'[w].path = p
      /\ job'[w].content = job[w].content
  BY <1>1, <1>4 DEF TypeOK, Job
<1>6. Exclusive'
  BY <1>1, <1>4, <1>5, ExclusiveStep DEF Busy, Stage
<1>7. Coherent(entries'[p], h, build) /\ Coherent(entries'[p], hashes[p], build)
  <2>1. CASE hashes[p] \notin {NoHash, h}
    <3>1. entries' = Evict(entries, {p})
      BY <2>1 DEF CheckHash
    <3>2. entries'[p] = EmptyRow
      <4>1. Evict(entries, {p})[p] = EmptyRow
        BY <1>1 DEF Evict
      <4>2. QED
        BY <3>1, <4>1
    <3>3. QED
      BY <3>2, EmptyRowCoherent
  <2>2. CASE hashes[p] = h
    BY <1>1, <2>2 DEF CheckHash, MemInv, MemoryCoherent
  <2>3. CASE hashes[p] = NoHash /\ hashes[p] # h
    <3>1. entries' = entries
      BY <2>3 DEF CheckHash
    <3>2. Coherent(entries[p], NoHash, build)
      BY <1>1, <2>3 DEF MemInv, MemoryCoherent
    <3>3. ASSUME NEW k \in Key PROVE entries[p][k] = None
      <4>1. entries[p][k] \in Value \cup {None}
        BY <1>1 DEF TypeOK, Job, Entries, Row
      <4>2. entries[p][k] \in Value => HashOf[entries[p][k].content] # NoHash
        BY HashAssumption DEF Value
      <4>3. QED
        BY <4>1, <4>2, <3>2 DEF Coherent
    <3>4. QED
      BY <3>1, <3>3 DEF Coherent
  <2>4. QED
    BY <2>1, <2>2, <2>3
<1>8. \A v \in Worker : v # w /\ job[v].pc = "storeHash" => job[v].path # p
  BY <1>1 DEF MemInv, Exclusive, Busy, Stage
<1>9. JobInv'
  <2> SUFFICES ASSUME NEW v \in Worker
               PROVE  /\ job'[v].pc \in {"checkHash", "storeHash", "load", "compute"} =>
                             job'[v].content \in Content
                      /\ job'[v].pc = "storeHash" =>
                             Coherent(entries'[job'[v].path], HashOf[job'[v].content], build')
                      /\ job'[v].pc \in {"load", "compute"} =>
                             hashes'[job'[v].path] = HashOf[job'[v].content]
                      /\ job'[v].pc = "readFile" => job'[v].content = Absent
                      /\ job'[v].pc = "idle" => job'[v] = IdleJob
                      /\ job'[v].pc = "done" => job'[v].res # None
    BY DEF JobInv
  <2>1. CASE v = w
    BY <2>1, <1>1, <1>5, <1>7 DEF CheckHash
  <2>2. CASE v # w
    <3>1. job'[v] = job[v] /\ job[v].path \in Path
      BY <2>2, <1>1, <1>4 DEF TypeOK, Job
    <3>2. UNCHANGED <<hashes, build>>
      BY DEF CheckHash
    <3>3. job[v].pc = "storeHash" => entries'[job[v].path] = entries[job[v].path]
      BY <2>2, <3>1, <1>2, <1>8
    <3>4. QED
      BY <3>1, <3>2, <3>3 DEF MemInv, JobInv
  <2>3. QED
    BY <2>1, <2>2
<1>10. PhaseInv' /\ AnswersFresh'
  <2>1. PhaseInv'
    BY <1>1, RunningStep DEF CheckHash
  <2>2. build' = build
    BY DEF CheckHash
  <2>3. AnswersFresh'
    <3>1. SUFFICES ASSUME NEW u \in Worker, u # w, AnswersFresh!(u) PROVE AnswersFresh!(u)'
      BY <1>5 DEF MemInv, AnswersFresh
    <3>2. job'[u] = job[u]
      BY <1>4, <3>1
    <3>3. QED
      BY <2>2, <3>1, <3>2
  <2>4. QED
    BY <2>1, <2>3
<1>11. MemoryCoherent'
  BY <1>2, <1>7 DEF MemInv, MemoryCoherent, CheckHash
<1>12. QED
  BY <1>3, <1>6, <1>9, <1>10, <1>11 DEF MemInv

LEMMA StoreHashMem == ASSUME MemInv, NEW w \in Worker, StoreHash(w) PROVE MemInv'
<1> DEFINE p == job[w].path
           h == HashOf[job[w].content]
<1>1. TypeOK /\ job[w].pc = "storeHash" /\ p \in Path /\ job[w].content \in Content
  BY DEF MemInv, TypeOK, Job, JobInv, StoreHash
<1>2. h \in Digest /\ Coherent(entries[p], h, build)
  BY <1>1, HashAssumption DEF MemInv, JobInv
<1>3. /\ hashes' \in Hashes /\ hashes'[p] = h
      /\ \A q \in Path : q # p => hashes'[q] = hashes[q]
  BY <1>1, <1>2 DEF TypeOK, Job, Hashes, StoreHash
<1>4. TypeOK'
  <2>1. /\ job \in [Worker -> Job] /\ job' = [job EXCEPT ![w].pc = "load"] /\ "load" \in Stage
        /\ UNCHANGED <<fs, build, phase, entries, snap, disk>>
    BY <1>1 DEF TypeOK, StoreHash, Goto, Stage
  <2>2. job' \in [Worker -> Job]
    BY <2>1, JobSteps
  <2>3. QED
    BY <1>1, <1>3, <2>1, <2>2 DEF TypeOK
<1>5. /\ job'[w].pc = "load" /\ job'[w].path = p
      /\ job'[w].content = job[w].content
      /\ \A v \in Worker : v # w => job'[v] = job[v]
  BY <1>1 DEF TypeOK, Job, StoreHash, Goto
<1>6. Exclusive'
  BY <1>1, <1>5, ExclusiveStep DEF Busy, Stage
<1>7. \A v \in Worker : v # w /\ job[v].pc \in {"load", "compute"} => job[v].path # p
  BY <1>1 DEF MemInv, Exclusive, Busy, Stage
<1>8. JobInv'
  <2>1. UNCHANGED <<entries, build>>
    BY DEF StoreHash
  <2>2. \A v \in Worker : v # w => job[v].path \in Path
    BY <1>1 DEF TypeOK, Job
  <2>3. QED
    BY <1>1, <1>3, <1>5, <1>7, <2>1, <2>2 DEF MemInv, JobInv
<1>9. PhaseInv' /\ AnswersFresh'
  <2>1. PhaseInv'
    BY <1>1, RunningStep DEF StoreHash
  <2>2. QED
    BY <1>5, <2>1 DEF MemInv, AnswersFresh, StoreHash
<1>10. MemoryCoherent'
  BY <1>2, <1>3 DEF MemInv, MemoryCoherent, StoreHash
<1>11. QED
  BY <1>4, <1>6, <1>8, <1>9, <1>10 DEF MemInv

\* A value found in a coherent row is an answer for the content with its hash.
LEMMA HitIsFresh ==
    ASSUME TypeOK, NEW p \in Path, NEW k \in Key, NEW c \in Content,
           Coherent(entries[p], HashOf[c], build), entries[p][k] # None
    PROVE  /\ entries[p][k] \in Value
           /\ entries[p][k].key = k
           /\ entries[p][k].content = c
           /\ Stamped => entries[p][k].build = build
<1>1. entries[p][k] \in Value
  BY DEF TypeOK, Job, Entries, Row
<1>2. entries[p][k].content \in Content /\ HashOf[entries[p][k].content] = HashOf[c]
  BY <1>1 DEF Value, Coherent
<1>3. QED
  BY <1>1, <1>2, HashAssumption DEF Coherent

LEMMA LoadMem == ASSUME MemInv, NEW w \in Worker, Load(w) PROVE MemInv'
<1> DEFINE p == job[w].path
           v == entries[p][job[w].key]
<1>1. /\ TypeOK /\ job[w].pc = "load" /\ p \in Path /\ job[w].key \in Key
      /\ job[w].content \in Content /\ hashes[p] = HashOf[job[w].content]
  BY DEF MemInv, TypeOK, Job, JobInv, Load
<1>2. Coherent(entries[p], HashOf[job[w].content], build)
  BY <1>1 DEF MemInv, MemoryCoherent
<1>3. v # None => /\ v \in Value /\ v.key = job[w].key /\ v.content = job[w].content
                  /\ Stamped => v.build = build
  BY <1>1, <1>2, HitIsFresh
<1>4. v # None => job' = [job EXCEPT ![w].pc = "done", ![w].res = v]
  BY DEF Load, Reply
<1>5. v = None => job' = [job EXCEPT ![w].pc = "compute"]
  BY DEF Load, Goto
<1>6. TypeOK'
  <2>1. UNCHANGED <<fs, build, phase, entries, hashes, snap, disk>>
    BY DEF Load
  <2>2. job' \in [Worker -> Job]
    BY <1>1, <1>3, <1>4, <1>5 DEF TypeOK, Job, Stage
  <2>3. QED
    BY <1>1, <2>1, <2>2 DEF TypeOK, Job
<1>7. /\ job'[w].path = p /\ job'[w].content = job[w].content /\ job'[w].key = job[w].key
      /\ \/ job'[w].pc = "compute"
         \/ job'[w].pc = "done" /\ v # None /\ job'[w].res = v
      /\ \A u \in Worker : u # w => job'[u] = job[u]
  BY <1>1, <1>4, <1>5 DEF TypeOK, Job
<1>8. Exclusive'
  BY <1>1, <1>7, ExclusiveStep DEF Busy, Stage
<1>9. UNCHANGED <<build, phase, entries, hashes>>
  BY DEF Load
<1>10. JobInv' /\ PhaseInv'
  <2>1. PhaseInv'
    BY <1>1, <1>9, RunningStep
  <2>2. QED
    BY <1>1, <1>7, <1>9, <2>1 DEF MemInv, JobInv
<1>11. AnswersFresh'
  BY <1>3, <1>7, <1>9 DEF MemInv, AnswersFresh
<1>12. MemoryCoherent'
  BY <1>9 DEF MemInv, MemoryCoherent
<1>13. QED
  BY <1>6, <1>8, <1>10, <1>11, <1>12 DEF MemInv

LEMMA ComputeValueMem == ASSUME MemInv, NEW w \in Worker, ComputeValue(w) PROVE MemInv'
<1> DEFINE p == job[w].path
           k == job[w].key
           c == job[w].content
           v == Compute(k, c, build)
<1>1. /\ TypeOK /\ job[w].pc = "compute" /\ p \in Path /\ k \in Key
      /\ c \in Content /\ hashes[p] = HashOf[c] /\ entries \in Entries
      /\ entries' = StoreFirst(entries, p, k, v)
      /\ UNCHANGED <<fs, build, phase, hashes, snap, disk>>
  BY DEF MemInv, TypeOK, Job, JobInv, ComputeValue
<1>2. build \in Build /\ PhaseInv'
  BY <1>1, RunningStep
<1>3. Coherent(entries[p], HashOf[c], build)
  BY <1>1 DEF MemInv, MemoryCoherent
<1>4. v \in Value
  BY <1>1, <1>2, ComputeInValue
<1>5. /\ entries' \in Entries
      /\ \A q \in Path : q # p => entries'[q] = entries[q]
      /\ entries'[p][k] # None
  BY <1>1, <1>4, StoreFirstRow, NoValueAssumption
<1>6. Coherent(entries'[p], HashOf[c], build)
  BY <1>1, <1>2, <1>3, StoreFirstCoherent
<1>7. job' = [job EXCEPT ![w].pc = "done", ![w].res = entries'[p][k]]
  BY DEF ComputeValue, Reply
<1>8. entries'[p][k] \in Value /\ entries'[p][k].key = k /\ entries'[p][k].content = c
      /\ (Stamped => entries'[p][k].build = build)
  <2>1. entries'[p][k] \in Value
    BY <1>1, <1>5 DEF Entries, Row
  <2>2. entries'[p][k].content \in Content
    BY <2>1 DEF Value
  <2>3. QED
    BY <1>1, <1>5, <1>6, <2>1, <2>2, HashAssumption DEF Coherent
<1>9. TypeOK'
  <2> DEFINE r == entries'[p][k]
  <2>1. r \in Value /\ job' = [job EXCEPT ![w].pc = "done", ![w].res = r]
    BY <1>7, <1>8
  <2> HIDE DEF r
  <2>2. job' \in [Worker -> Job]
    BY <1>1, <2>1, JobSteps DEF TypeOK, Stage
  <2>3. QED
    BY <1>1, <1>5, <2>2 DEF TypeOK, Job
<1>10. /\ job'[w].path = p /\ job'[w].content = c /\ job'[w].key = k
       /\ job'[w].pc = "done" /\ job'[w].res = entries'[p][k]
       /\ \A u \in Worker : u # w => job'[u] = job[u]
  BY <1>1, <1>7 DEF TypeOK, Job
<1>11. Exclusive'
  BY <1>1, <1>10, ExclusiveStep DEF Busy, Stage
<1>12. \A u \in Worker : u # w /\ job[u].pc = "storeHash" => job[u].path # p
  BY <1>1 DEF MemInv, Exclusive, Busy, Stage
<1>13. JobInv'
  <2>1. ASSUME NEW u \in Worker, u # w, job[u].pc = "storeHash"
        PROVE  entries'[job[u].path] = entries[job[u].path]
    BY <1>1, <1>5, <1>12, <2>1 DEF TypeOK, Job
  <2>2. QED
    BY <1>1, <1>5, <1>10, <2>1 DEF MemInv, JobInv
<1>14. PhaseInv' /\ AnswersFresh'
  BY <1>1, <1>2, <1>8, <1>10 DEF MemInv, AnswersFresh
<1>15. MemoryCoherent'
  BY <1>1, <1>5, <1>6 DEF MemInv, MemoryCoherent
<1>16. QED
  BY <1>9, <1>11, <1>13, <1>14, <1>15 DEF MemInv

LEMMA ComputeFailsMem == ASSUME MemInv, NEW w \in Worker, ComputeFails(w) PROVE MemInv'
<1>1. /\ TypeOK /\ job[w].pc = "compute"
      /\ job' = [job EXCEPT ![w].pc = "done", ![w].res = Err]
      /\ UNCHANGED <<fs, build, phase, entries, hashes, snap, disk>>
  BY DEF MemInv, ComputeFails, Reply
<1>2. TypeOK'
  BY <1>1, JobSteps DEF TypeOK, Stage
<1>3. /\ job'[w].path = job[w].path /\ job'[w].pc = "done" /\ job'[w].res = Err
      /\ \A u \in Worker : u # w => job'[u] = job[u]
  BY <1>1 DEF TypeOK, Job
<1>4. Exclusive'
  BY <1>1, <1>3, ExclusiveStep DEF Busy, Stage
<1>5. JobInv' /\ PhaseInv' /\ AnswersFresh'
  <2>1. PhaseInv'
    BY <1>1, RunningStep
  <2>2. Err # None
    BY NoValueAssumption
  <2>3. JobInv'
    <3>1. SUFFICES ASSUME NEW u \in Worker, u # w, JobInv!(u) PROVE JobInv!(u)'
      BY <1>3, <2>2 DEF MemInv, JobInv
    <3>2. job'[u] = job[u]
      BY <1>3, <3>1
    <3>3. QED
      BY <1>1, <3>1, <3>2
  <2>4. AnswersFresh'
    <3>1. SUFFICES ASSUME NEW u \in Worker, u # w, AnswersFresh!(u) PROVE AnswersFresh!(u)'
      BY <1>3 DEF MemInv, AnswersFresh
    <3>2. job'[u] = job[u]
      BY <1>3, <3>1
    <3>3. QED
      BY <1>1, <3>1, <3>2
  <2>5. QED
    BY <2>1, <2>3, <2>4
<1>6. MemoryCoherent'
  BY <1>1 DEF MemInv, MemoryCoherent
<1>7. QED
  BY <1>2, <1>4, <1>5, <1>6 DEF MemInv

LEMMA DiskLookupMem == ASSUME MemInv, NEW w \in Worker, DiskLookup(w) PROVE MemInv'
BY ReadFileMem, CheckHashMem, StoreHashMem, LoadMem, ComputeValueMem, ComputeFailsMem
DEF DiskLookup

------------------------------------------------------------------------------
(* The cache file. *)

\* While a run persists no lookup is running, so what write() has copied stays
\* what the maps hold, and is coherent when it reaches the file.
SnapInv ==
    /\ phase \in {"persist", "snapped", "truncated", "idle", "invalidate"} =>
           \A w \in Worker : job[w].pc = "idle"
    /\ phase = "persist" => snap.hashes = hashes
    /\ phase \in {"snapped", "truncated"} =>
           \A p \in Path : Coherent(snap.entries[p], snap.hashes[p], build)

IInv == MemInv /\ SnapInv /\ DiskCoherent

LEMMA EnvironmentDisk == ASSUME IInv, Environment PROVE (SnapInv /\ DiskCoherent)'
<1>1. CASE \E p \in Path, c \in Content \cup {Absent} : Edit(p, c)
  BY <1>1 DEF IInv, SnapInv, DiskCoherent, Edit, Coherent
<1>2. CASE \E b \in Build, P \in SUBSET Path : ForeignPersist(b, P)
  BY <1>2 DEF IInv, SnapInv, DiskCoherent, ForeignPersist, Coherent
<1>3. QED
  BY <1>1, <1>2 DEF Environment

LEMMA PersistDisk ==
    ASSUME IInv, Persist, ~EarlyReturn
    PROVE  (SnapInv /\ DiskCoherent)'
<1>0. TypeOK
  BY DEF IInv, MemInv
<1>1. CASE SnapshotHashes
  <2>1. snap' = [snap EXCEPT !.hashes = hashes] /\ snap'.hashes = hashes
    BY <1>0, <1>1 DEF TypeOK, SnapshotHashes
  <2>2. QED
    BY <1>1, <2>1 DEF IInv, SnapInv, DiskCoherent, SnapshotHashes, Drained, Coherent
<1>2. CASE SnapshotEntries
  <2>1. snap'.entries = entries /\ snap'.hashes = hashes
    BY <1>0, <1>2 DEF TypeOK, IInv, SnapInv, SnapshotEntries
  <2>2. \A p \in Path : Coherent(snap'.entries[p], snap'.hashes[p], build)
    BY <2>1 DEF IInv, MemInv, MemoryCoherent
  <2>3. QED
    BY <1>2, <2>2 DEF IInv, SnapInv, DiskCoherent, SnapshotEntries
<1>3. CASE Truncate
  BY <1>3 DEF IInv, SnapInv, DiskCoherent, Truncate, NoDisk
<1>4. CASE WriteState
  <2>1. disk'.entries = snap.entries /\ disk'.hashes = snap.hashes /\ disk'.version = build
    BY <1>4 DEF WriteState
  <2>2. QED
    BY <1>4, <2>1 DEF IInv, SnapInv, DiskCoherent, WriteState
<1>5. CASE WriteFails
  BY <1>5 DEF IInv, SnapInv, DiskCoherent, WriteFails
<1>6. QED
  BY <1>1, <1>2, <1>3, <1>4, <1>5 DEF Persist

\* A lookup step happens in a run: persisting waits for all of them.
LEMMA LookupDisk ==
    ASSUME IInv, NEW w \in Worker,
           DiskLookup(w) \/ Consume(w) \/ \E p \in Path, k \in Key : Call(w, p, k)
    PROVE  phase = "run" /\ (SnapInv /\ DiskCoherent)'
<1>1. UNCHANGED <<phase, snap, disk>>
  BY DEF DiskLookup, ReadFile, CheckHash, StoreHash, Load, ComputeValue, ComputeFails,
         Consume, Call
<1>2. phase = "run"
  <2>1. CASE DiskLookup(w)
    <3>1. job[w].pc # "idle" /\ phase # "down"
      BY <2>1, IdleJobType
      DEF DiskLookup, ReadFile, CheckHash, StoreHash, Load, ComputeValue, ComputeFails,
          IInv, MemInv, PhaseInv
    <3>2. QED
      BY <3>1 DEF IInv, SnapInv, MemInv, PhaseInv, TypeOK, Phase
  <2>2. CASE Consume(w) \/ \E p \in Path, k \in Key : Call(w, p, k)
    BY <2>2 DEF Consume, Call
  <2>3. QED
    BY <2>1, <2>2
<1>3. QED
  BY <1>1, <1>2 DEF IInv, SnapInv, DiskCoherent, Coherent

LEMMA BootDisk ==
    ASSUME IInv, NEW b \in Build, Boot(b)
    PROVE  (SnapInv /\ DiskCoherent)'
BY DEF IInv, SnapInv, DiskCoherent, Boot, Coherent

LEMMA LostDisk == ASSUME IInv, Lost PROVE (SnapInv /\ DiskCoherent)'
BY DEF IInv, SnapInv, DiskCoherent, Lost, Coherent

------------------------------------------------------------------------------
(* The theorems. *)

LEMMA Inductive ==
    ASSUME ~EarlyReturn
    PROVE  /\ Init => IInv
           /\ IInv /\ [Next]_vars => IInv'
<1>1. Init => IInv
  <2>1. Init => SnapInv /\ DiskCoherent
    BY DEF Init, SnapInv, DiskCoherent, NoDisk
  <2>2. QED
    BY <2>1, InitMem DEF IInv
<1>2. IInv /\ [Next]_vars => IInv'
  <2> SUFFICES ASSUME IInv, [Next]_vars PROVE IInv'
    OBVIOUS
  <2>1. CASE Environment
    BY <2>1, EnvironmentMem, EnvironmentDisk DEF IInv
  <2>2. CASE \E b \in Build : Boot(b)
    BY <2>2, BootMem, BootDisk DEF IInv
  <2>3. CASE \E w \in Worker, p \in Path, k \in Key : Call(w, p, k)
    BY <2>3, CallMem, LookupDisk DEF IInv
  <2>4. CASE \E w \in Worker : DiskLookup(w) \/ Consume(w)
    BY <2>4, DiskLookupMem, ConsumeMem, LookupDisk DEF IInv
  <2>5. CASE Persist
    BY <2>5, PersistMem, PersistDisk DEF IInv
  <2>6. CASE Exit \/ Crash
    BY <2>6, LostMem, LostDisk DEF IInv, Exit, Crash
  <2>7. CASE UNCHANGED vars
    <3>1. TypeOK' /\ PhaseInv'
      BY <2>7 DEF IInv, MemInv, TypeOK, PhaseInv, vars
    <3>2. (SnapInv /\ DiskCoherent)'
      BY <2>7 DEF IInv, SnapInv, DiskCoherent, Coherent, vars
    <3>3. QED
      BY <2>7, <3>1, <3>2, QuietMem DEF IInv, vars
  <2>8. QED
    BY <2>1, <2>2, <2>3, <2>4, <2>5, <2>6, <2>7 DEF Next
<1>3. QED
  BY <1>1, <1>2

\* The inductive invariant: what the two maps, the lookups under way and the cache
\* file hold agree, through persists, crashes and edits (disk.go:59-129), as long as
\* no batch is abandoned with lookups still running.
THEOREM InvariantHolds == ASSUME ~EarlyReturn PROVE Spec => []IInv
<1>1. Init => IInv
  BY Inductive
<1>2. IInv /\ [Next]_vars => IInv'
  BY Inductive
<1>3. QED
  BY <1>1, <1>2, PTL DEF Spec

\* Whatever files, keys, builds and workers there are, the maps of the running
\* process and the cache file it would load keep every value together with the
\* hash of the content it was computed from (disk.go).
THEOREM CoherenceHolds ==
    ASSUME ~EarlyReturn
    PROVE  Spec => [](TypeOK /\ MemoryCoherent /\ DiskCoherent)
<1>1. IInv => TypeOK /\ MemoryCoherent /\ DiskCoherent
  BY DEF IInv, MemInv
<1>2. QED
  BY <1>1, InvariantHolds, PTL

\* The state keeps its type: the maps hold rows of values, a lookup is at one of
\* its stages, and the cache file is one this code can have left behind.
THEOREM TypesHold == ASSUME ~EarlyReturn PROVE Spec => []TypeOK
<1>1. IInv => TypeOK
  BY DEF IInv, MemInv
<1>2. QED
  BY <1>1, InvariantHolds, PTL

\* Every lookup answers with what this build computes from the content it read.
THEOREM FreshnessHolds == ASSUME ~EarlyReturn PROVE Spec => []AnswersFresh
<1>1. IInv => AnswersFresh
  BY DEF IInv, MemInv
<1>2. QED
  BY <1>1, InvariantHolds, PTL

\* A row that holds values was not empty: storing never empties a row.
LEMMA StoreFirstKeeps ==
    ASSUME MemInv, NEW w \in Worker, ComputeValue(w), NEW q \in Path, entries'[q] = EmptyRow
    PROVE  entries[q] = EmptyRow
<1> DEFINE p == job[w].path
           k == job[w].key
           v == Compute(k, job[w].content, build)
<1>1. /\ p \in Path /\ k \in Key /\ job[w].content \in Content /\ build \in Build
      /\ entries \in Entries /\ entries' = StoreFirst(entries, p, k, v)
  BY RunningStep DEF MemInv, TypeOK, Job, JobInv, ComputeValue
<1>2. v \in Value
  BY <1>1, ComputeInValue
<1>3. entries'[p][k] # None
  BY <1>1, <1>2, StoreFirstRow, NoValueAssumption
<1>4. CASE q = p
  BY <1>1, <1>3, <1>4 DEF EmptyRow
<1>5. CASE q # p
  BY <1>1, <1>2, <1>5, StoreFirstRow
<1>6. QED
  BY <1>4, <1>5

\* A running process empties a row only when a lookup has read a content other
\* than the one every value of the row was computed from (disk.go:116-121).
THEOREM EvictionIsJustified == ASSUME ~EarlyReturn PROVE Spec => EvictsOnlyStale
<1> DEFINE A == \A p \in Path :
                  entries[p] # EmptyRow /\ entries'[p] = EmptyRow /\ phase' # "down" =>
                      \E w \in Worker : /\ job[w].pc = "checkHash" /\ job[w].path = p
                                        /\ \A k \in Key : entries[p][k] # None =>
                                               entries[p][k].content # job[w].content
<1>1. ASSUME IInv, [Next]_vars PROVE A \/ UNCHANGED vars
  <2>1. CASE UNCHANGED vars
    BY <2>1
  <2>2. CASE Environment \/ Persist \/ Exit \/ Crash
    BY <2>2 DEF Environment, Edit, ForeignPersist, Persist, SnapshotHashes, SnapshotEntries,
                Truncate, WriteState, WriteFails, Exit, Crash, Lost
  <2>3. CASE \E b \in Build : Boot(b)
    BY <1>1, <2>3, EmptyRowCoherent DEF Boot, IInv, MemInv, PhaseInv
  <2>4. CASE \E w \in Worker, p \in Path, k \in Key : Call(w, p, k)
    BY <2>4 DEF Call
  <2>5. ASSUME NEW w \in Worker, DiskLookup(w) \/ Consume(w) PROVE A
    <3>1. CASE ReadFile(w) \/ StoreHash(w) \/ Load(w) \/ ComputeFails(w) \/ Consume(w)
      BY <3>1 DEF ReadFile, StoreHash, Load, ComputeFails, Consume
    <3>2. CASE ComputeValue(w)
      BY <1>1, <3>2, StoreFirstKeeps DEF IInv
    <3>3. CASE CheckHash(w)
      <4> DEFINE p == job[w].path
      <4>1. job[w].pc = "checkHash" /\ p \in Path /\ entries \in Entries
        BY <1>1, <3>3 DEF IInv, MemInv, TypeOK, Job, CheckHash
      <4>2. SUFFICES ASSUME NEW q \in Path, entries[q] # EmptyRow, entries'[q] = EmptyRow
                     PROVE  q = p /\ \A k \in Key : entries[p][k] # None =>
                                         entries[p][k].content # job[w].content
        BY <4>1
      <4>3. hashes[p] # HashOf[job[w].content] /\ entries' = Evict(entries, {p})
        BY <4>2, <3>3 DEF CheckHash
      <4>4. q = p
        BY <4>1, <4>2, <4>3, EvictRows
      <4>5. Coherent(entries[p], hashes[p], build)
        BY <1>1, <4>1 DEF IInv, MemInv, MemoryCoherent
      <4>6. QED
        BY <4>3, <4>4, <4>5 DEF Coherent
    <3>4. QED
      BY <2>5, <3>1, <3>2, <3>3 DEF DiskLookup
  <2>6. QED
    BY <1>1, <2>1, <2>2, <2>3, <2>4, <2>5 DEF Next
<1>2. IInv /\ [Next]_vars => [A]_vars
  BY <1>1
<1>3. QED
  BY <1>2, InvariantHolds, PTL DEF Spec, EvictsOnlyStale

------------------------------------------------------------------------------
(* Refinement of ContentLookup, for stamped builds. *)

AbsCall(j) == [j EXCEPT !.pc = Stage2Lookup(@)]
absCall == [w \in Worker |-> AbsCall(job[w])]

LEMMA StageMap ==
    /\ Stage2Lookup("idle") = "idle"
    /\ Stage2Lookup("readFile") = "called"
    /\ \A s \in {"checkHash", "storeHash", "load", "compute"} : Stage2Lookup(s) = "sampled"
    /\ Stage2Lookup("done") = "done"
BY DEF Stage2Lookup

LEMMA AbsFields ==
    ASSUME NEW j \in Job
    PROVE  AbsCall(j) = [pc |-> Stage2Lookup(j.pc), path |-> j.path, key |-> j.key,
                         content |-> j.content, res |-> j.res]
BY DEF AbsCall, Job

LEMMA AbsIdle == AbsCall(IdleJob) = IdleJob
<1> DEFINE i == IdleJob
<1>1. i \in Job /\ i.pc = "idle"
  BY IdleJobType DEF IdleJob
<1>2. [i EXCEPT !.pc = i.pc] = i
  BY <1>1 DEF Job
<1>3. QED
  BY <1>1, <1>2, StageMap DEF AbsCall

\* One job changes, so one call changes.
LEMMA AbsStep ==
    ASSUME NEW w \in Worker, job \in [Worker -> Job], job' \in [Worker -> Job],
           \A v \in Worker : v # w => job'[v] = job[v]
    PROVE  absCall' = [absCall EXCEPT ![w] = AbsCall(job'[w])]
BY DEF absCall, AbsCall

\* A finished lookup of a content holds one of the answers the abstract
\* specification allows for it.
LEMMA DoneAnswers ==
    ASSUME MemInv', Stamped, NEW w \in Worker, job'[w].pc = "done",
           job'[w].content \in Content, build' \in Build
    PROVE  job'[w].res \in {Compute(job'[w].key, job'[w].content, build'), Err}
<1> DEFINE r == job'[w].res
<1>1. r # None /\ job'[w] \in Job
  BY DEF MemInv, TypeOK, JobInv
<1>2. CASE r # Err
  <2>1. r \in Value
    BY <1>1, <1>2 DEF Job
  <2>2. r.key = job'[w].key /\ r.content = job'[w].content /\ r.build = build'
    BY <1>2 DEF MemInv, AnswersFresh
  <2>3. r = [key |-> r.key, content |-> r.content, build |-> r.build]
    BY <2>1 DEF Value
  <2>4. QED
    BY <2>2, <2>3 DEF Compute
<1>3. QED
  BY <1>2

\* The caller sees a lookup begin and its answer taken.
LEMMA CallCalls ==
    ASSUME MemInv, NEW w \in Worker, NEW p \in Path, NEW k \in Key, Call(w, p, k)
    PROVE  /\ absCall' = [absCall EXCEPT ![w] = [pc |-> "called", path |-> p, key |-> k,
                                                 content |-> Absent, res |-> None]]
           /\ absCall[w].pc = "idle"
           /\ build # NoBuild
<1> DEFINE new == [pc |-> "readFile", path |-> p, key |-> k, content |-> Absent, res |-> None]
           abs == [pc |-> "called", path |-> p, key |-> k, content |-> Absent, res |-> None]
<1>1. job \in [Worker -> Job] /\ job' \in [Worker -> Job]
  <2>1. new \in Job
    BY DEF Job, Stage
  <2>2. QED
    BY <2>1 DEF MemInv, TypeOK, Call
<1>2. job'[w] = new /\ new \in Job /\ \A v \in Worker : v # w => job'[v] = job[v]
  BY <1>1 DEF Call, Job, Stage
<1>3. AbsCall(new) = abs
  BY <1>2, AbsFields, StageMap
<1>4. absCall' = [absCall EXCEPT ![w] = abs]
  BY <1>1, <1>2, <1>3, AbsStep
<1>5. absCall[w].pc = "idle"
  BY <1>1, AbsFields, StageMap DEF absCall, Call
<1>6. build # NoBuild
  BY DEF Call, MemInv, PhaseInv
<1>7. QED
  BY <1>4, <1>5, <1>6

LEMMA ConsumeCalls ==
    ASSUME MemInv, NEW w \in Worker, Consume(w)
    PROVE  absCall' = [absCall EXCEPT ![w] = IdleJob] /\ absCall[w].pc = "done"
<1>1. job \in [Worker -> Job] /\ job' \in [Worker -> Job]
  BY IdleJobType DEF MemInv, TypeOK, Consume
<1>2. job'[w] = IdleJob /\ \A v \in Worker : v # w => job'[v] = job[v]
  BY <1>1 DEF Consume
<1>3. absCall' = [absCall EXCEPT ![w] = IdleJob]
  BY <1>1, <1>2, AbsStep, AbsIdle
<1>4. absCall[w].pc = "done"
  BY <1>1, AbsFields, StageMap DEF absCall, Consume
<1>5. QED
  BY <1>3, <1>4

\* The initial states map to initial states.
LEMMA RefineInit == Init => Lookup!Init
<1> SUFFICES ASSUME Init PROVE Lookup!Init
  OBVIOUS
<1>1. absCall = [w \in Worker |-> IdleJob]
  BY AbsIdle, IdleJobType DEF absCall, Init
<1>2. QED
  BY <1>1 DEF Init, Lookup!Init, Lookup!IdleCall, IdleJob, absCall, AbsCall

\* What a step of a lookup looks like to the caller.  Reading an absent file
\* answers at once; reading any other settles on its content; a hit, a computed
\* value and a failed loader answer; the rest is invisible.
AnswersAbsent(w) ==
    /\ absCall[w].pc = "called" /\ fs[absCall[w].path] = Absent
    /\ absCall' = [absCall EXCEPT ![w].pc = "done", ![w].content = Absent, ![w].res = Err]

Settles(w) ==
    /\ absCall[w].pc = "called" /\ fs[absCall[w].path] # Absent
    /\ absCall' = [absCall EXCEPT ![w].pc = "sampled", ![w].content = fs[absCall[w].path]]

Answers(w) ==
    /\ absCall[w].pc = "sampled" /\ absCall[w].content \in Content
    /\ \E r \in {Compute(absCall[w].key, absCall[w].content, build), Err} :
           absCall' = [absCall EXCEPT ![w].pc = "done", ![w].res = r]

LEMMA LookupCalls ==
    ASSUME MemInv, MemInv', Stamped, NEW w \in Worker, DiskLookup(w)
    PROVE  /\ UNCHANGED <<fs, build>>
           /\ absCall[w].path = job[w].path /\ job[w].path \in Path
           /\ AnswersAbsent(w) \/ Settles(w) \/ Answers(w) \/ absCall' = absCall
<1> DEFINE j == job[w]
           j2 == job'[w]
<1>1. /\ job \in [Worker -> Job] /\ job' \in [Worker -> Job] /\ j \in Job /\ j2 \in Job
      /\ fs \in [Path -> Content \cup {Absent}]
  BY DEF MemInv, TypeOK
<1>2. UNCHANGED <<fs, build>> /\ \A v \in Worker : v # w => job'[v] = job[v]
  BY <1>1 DEF DiskLookup, ReadFile, CheckHash, StoreHash, Load, ComputeValue, ComputeFails,
              Goto, Reply
<1>3. j.pc \in Busy /\ build \in Build
  BY <1>1, IdleJobType
  DEF DiskLookup, ReadFile, CheckHash, StoreHash, Load, ComputeValue, ComputeFails,
      Busy, Stage, MemInv, PhaseInv, TypeOK
<1>4. absCall' = [absCall EXCEPT ![w] = AbsCall(j2)] /\ absCall[w] = AbsCall(j)
  BY <1>1, <1>2, AbsStep DEF absCall
<1>5. absCall[w].path = j.path /\ absCall[w].key = j.key /\ absCall[w].content = j.content
      /\ j.path \in Path
  BY <1>1, <1>4, AbsFields DEF Job
<1>8. ASSUME ReadFile(w), fs[j.path] = Absent PROVE AnswersAbsent(w)
  <2>1. /\ j.pc = "readFile" /\ j.content = Absent
        /\ j2 = [j EXCEPT !.pc = "done", !.res = Err]
    BY <1>1, <1>8 DEF ReadFile, Reply, MemInv, JobInv
  <2>2. AbsCall(j2) = [AbsCall(j) EXCEPT !.pc = "done", !.content = Absent, !.res = Err]
    <3>1. AbsCall(j2) = [AbsCall(j) EXCEPT !.pc = "done", !.res = Err]
      <4> DEFINE q == [AbsCall(j) EXCEPT !.pc = "done"]
      <4>1. /\ j2.pc = "done" /\ j2.res = Err
            /\ j2.path = j.path /\ j2.key = j.key /\ j2.content = j.content
        BY <1>1, <2>1 DEF Job
      <4>2. AbsCall(j2) = [pc |-> "done", path |-> j.path, key |-> j.key,
                            content |-> j.content, res |-> Err]
        BY <1>1, <4>1, AbsFields, StageMap
      <4>3. q = [pc |-> "done", path |-> j.path, key |-> j.key,
                  content |-> j.content, res |-> j.res]
        BY <1>1, AbsFields
      <4> HIDE DEF q
      <4>4. [q EXCEPT !.res = Err] = AbsCall(j2)
        BY <4>2, <4>3
      <4>5. QED
        BY <4>4 DEF q
    <3>2. AbsCall(j).content = Absent
      BY <1>1, <2>1, AbsFields
    <3>3. AbsCall(j) = [AbsCall(j) EXCEPT !.content = Absent]
      BY <1>1, <3>2, AbsFields
    <3>4. QED
      BY <1>1, <3>1, <3>3, AbsFields
  <2>3. AbsCall(j).pc = "called" /\ AbsCall(j).path = j.path
    BY <1>1, <2>1, AbsFields, StageMap
  <2>4. absCall' = [absCall EXCEPT ![w].pc = "done", ![w].content = Absent, ![w].res = Err]
    BY <1>4, <2>2 DEF absCall
  <2>5. QED
    BY <1>4, <1>5, <1>8, <2>3, <2>4 DEF AnswersAbsent
<1>9. ASSUME ReadFile(w), fs[j.path] # Absent PROVE Settles(w)
  <2>1. j.pc = "readFile" /\ j2 = [j EXCEPT !.pc = "checkHash", !.content = fs[j.path]]
    BY <1>1, <1>9 DEF ReadFile
  <2>2. AbsCall(j2) = [AbsCall(j) EXCEPT !.pc = "sampled", !.content = fs[j.path]]
    <3> DEFINE q == [AbsCall(j) EXCEPT !.pc = "sampled"]
    <3>1. /\ j2.pc = "checkHash" /\ j2.content = fs[j.path]
          /\ j2.path = j.path /\ j2.key = j.key /\ j2.res = j.res
      BY <1>1, <2>1 DEF Job
    <3>2. AbsCall(j2) = [pc |-> "sampled", path |-> j.path, key |-> j.key,
                          content |-> fs[j.path], res |-> j.res]
      BY <1>1, <3>1, AbsFields, StageMap
    <3>3. q = [pc |-> "sampled", path |-> j.path, key |-> j.key,
                content |-> j.content, res |-> j.res]
      BY <1>1, AbsFields
    <3> HIDE DEF q
    <3>4. [q EXCEPT !.content = fs[j.path]] = AbsCall(j2)
      BY <3>2, <3>3
    <3>5. QED
      BY <3>4 DEF q
  <2>3. AbsCall(j).pc = "called" /\ AbsCall(j).path = j.path
    BY <1>1, <2>1, AbsFields, StageMap
  <2>4. absCall' = [absCall EXCEPT ![w].pc = "sampled", ![w].content = fs[j.path]]
    BY <1>4, <2>2 DEF absCall
  <2>5. QED
    BY <1>4, <1>5, <1>9, <2>3, <2>4 DEF Settles
<1>10. ASSUME CheckHash(w) \/ StoreHash(w) \/ (Load(w) /\ j2.pc = "compute")
       PROVE  absCall' = absCall
  <2>1. /\ j.pc \in {"checkHash", "storeHash", "load", "compute"}
        /\ \E s \in {"checkHash", "storeHash", "load", "compute"} : j2 = [j EXCEPT !.pc = s]
    BY <1>1, <1>10 DEF CheckHash, StoreHash, Load, Goto, Reply, Job
  <2>2. AbsCall(j2) = AbsCall(j)
    BY <1>1, <2>1, AbsFields, StageMap DEF Job
  <2>3. QED
    BY <1>4, <2>2 DEF absCall
<1>11. ASSUME (Load(w) /\ j2.pc = "done") \/ ComputeValue(w) \/ ComputeFails(w)
       PROVE  Answers(w)
  <2>1. /\ j.pc \in {"checkHash", "storeHash", "load", "compute"} /\ j.content \in Content
        /\ j2 = [j EXCEPT !.pc = "done", !.res = j2.res]
    <3>1. \E r : job' = [job EXCEPT ![w].pc = "done", ![w].res = r]
      BY <1>1, <1>11 DEF Load, ComputeValue, ComputeFails, Goto, Reply, Job
    <3>2. \E r : j2 = [j EXCEPT !.pc = "done", !.res = r]
      BY <1>1, <3>1
    <3>3. j2 = [j EXCEPT !.pc = "done", !.res = j2.res]
      BY <1>1, <3>2 DEF Job
    <3>4. j.pc \in {"load", "compute"}
      BY <1>11 DEF Load, ComputeValue, ComputeFails
    <3>5. QED
      BY <3>3, <3>4 DEF MemInv, JobInv
  <2>2. AbsCall(j2) = [AbsCall(j) EXCEPT !.pc = "done", !.res = j2.res]
    <3> DEFINE q == [AbsCall(j) EXCEPT !.pc = "done"]
    <3>1. /\ j2.pc = "done" /\ j2.res = j2.res
          /\ j2.path = j.path /\ j2.key = j.key /\ j2.content = j.content
      BY <1>1, <2>1 DEF Job
    <3>2. AbsCall(j2) = [pc |-> "done", path |-> j.path, key |-> j.key,
                          content |-> j.content, res |-> j2.res]
      BY <1>1, <3>1, AbsFields, StageMap
    <3>3. q = [pc |-> "done", path |-> j.path, key |-> j.key,
                content |-> j.content, res |-> j.res]
      BY <1>1, AbsFields
    <3> HIDE DEF q
    <3>4. [q EXCEPT !.res = j2.res] = AbsCall(j2)
      BY <3>2, <3>3
    <3>5. QED
      BY <3>4 DEF q
  <2>3. AbsCall(j).pc = "sampled" /\ AbsCall(j).key = j.key /\ AbsCall(j).content = j.content
    BY <1>1, <2>1, AbsFields, StageMap
  <2>4. absCall' = [absCall EXCEPT ![w].pc = "done", ![w].res = j2.res]
    BY <1>4, <2>2 DEF absCall
  <2>5. j2.pc = "done" /\ j2.content = j.content /\ j2.key = j.key
    BY <1>1, <2>1 DEF Job
  <2>6. j2.res \in {Compute(j.key, j.content, build), Err}
    BY <1>2, <1>3, <2>1, <2>5, DoneAnswers
  <2>7. QED
    BY <1>4, <1>5, <2>1, <2>3, <2>4, <2>6 DEF Answers
<1>12. Load(w) => j2.pc \in {"compute", "done"}
  BY <1>1 DEF Load, Goto, Reply, Job
<1>13. QED
  BY <1>2, <1>5, <1>8, <1>9, <1>10, <1>11, <1>12 DEF DiskLookup

LEMMA RefineLookup ==
    ASSUME MemInv, MemInv', Stamped, NEW w \in Worker, DiskLookup(w)
    PROVE  [Lookup!Next]_(Lookup!callVars)
<1> USE DEF Lookup!callVars
<1>1. absCall = [v \in Worker |-> [job[v] EXCEPT !.pc = Stage2Lookup(@)]]
  BY DEF absCall, AbsCall
<1>2. absCall' = [v \in Worker |-> [job'[v] EXCEPT !.pc = Stage2Lookup(@)]]
  BY DEF absCall, AbsCall
<1>3. UNCHANGED <<fs, build>> /\ absCall[w].path \in Path
  BY LookupCalls
<1>4. [p \in Path |-> {fs[p]}][absCall[w].path] = {fs[absCall[w].path]}
  BY <1>3
<1>5. CASE AnswersAbsent(w)
  <2>1. Lookup!AnswerAtOnce(w)
    BY <1>1, <1>2, <1>3, <1>4, <1>5 DEF AnswersAbsent, Lookup!AnswerAtOnce, Lookup!Answers
  <2>2. QED
    BY <2>1 DEF Lookup!Next
<1>6. CASE Settles(w)
  <2>1. Lookup!Sample(w)
    BY <1>1, <1>2, <1>3, <1>4, <1>6 DEF Settles, Lookup!Sample
  <2>2. QED
    BY <2>1 DEF Lookup!Next
<1>7. CASE Answers(w)
  <2>1. PICK r \in {Compute(absCall[w].key, absCall[w].content, build), Err} :
                absCall' = [absCall EXCEPT ![w].pc = "done", ![w].res = r]
    BY <1>7 DEF Answers
  <2>2. r \in Lookup!Answers(absCall[w].key, absCall[w].content)
    BY <1>7, <2>1, AbsentAssumption DEF Answers, Lookup!Answers, Lookup!Compute, Compute
  <2>3. absCall[w].pc = "sampled"
    BY <1>7 DEF Answers
  <2>4. Lookup!Answer(w)
    BY <1>1, <1>2, <1>3, <2>1, <2>2, <2>3 DEF Lookup!Answer
  <2>5. QED
    BY <2>4 DEF Lookup!Next
<1>8. CASE absCall' = absCall
  BY <1>1, <1>2, <1>3, <1>8
<1>9. QED
  BY <1>5, <1>6, <1>7, <1>8, LookupCalls

\* Every step of the disk cache is a step of ContentLookup or invisible there.
LEMMA RefineStep ==
    ASSUME MemInv, MemInv', Stamped, [Next]_vars
    PROVE  [Lookup!Next]_(Lookup!callVars)
<1> USE DEF Lookup!callVars
<1>1. /\ job \in [Worker -> Job] /\ job' \in [Worker -> Job]
      /\ fs \in [Path -> Content \cup {Absent}]
      /\ \A w \in Worker : job[w].pc = "idle" => job[w] = IdleJob
  BY DEF MemInv, TypeOK, JobInv
<1>2. absCall = [v \in Worker |-> [job[v] EXCEPT !.pc = Stage2Lookup(@)]]
  BY DEF absCall, AbsCall
<1>3. absCall' = [v \in Worker |-> [job'[v] EXCEPT !.pc = Stage2Lookup(@)]]
  BY DEF absCall, AbsCall
<1>4. CASE UNCHANGED <<fs, build, job>>
  BY <1>4
<1>5. ASSUME NEW p \in Path, NEW c \in Content \cup {Absent}, Edit(p, c)
      PROVE  Lookup!Next
  <2>1. fs' = [q \in Path |-> IF q \in {p} THEN c ELSE fs[q]]
    BY <1>1, <1>5 DEF Edit
  <2>2. [q \in Path |-> {fs'[q]}] =
            [q \in Path |-> IF q \in {p} THEN {c} ELSE [r \in Path |-> {fs[r]}][q]]
    BY <2>1
  <2>3. UNCHANGED <<build, job>>
    BY <1>5 DEF Edit
  <2>4. Lookup!Edit({p}, c)
    BY <1>2, <1>3, <2>1, <2>2, <2>3 DEF Lookup!Edit
  <2>5. {p} \in SUBSET Path
    BY <1>5
  <2>6. QED
    BY <1>5, <2>4, <2>5 DEF Lookup!Next
<1>6. ASSUME NEW b \in Build, Boot(b) PROVE Lookup!Next
  BY <1>6 DEF Boot, Lookup!Start, Lookup!Next
<1>7. CASE Lost
  <2>1. absCall' = [w \in Worker |-> IdleJob]
    BY <1>7, AbsIdle, IdleJobType DEF absCall, Lost
  <2>2. Lookup!Stop
    BY <1>2, <1>3, <1>7, <2>1 DEF Lost, Lookup!Stop, Lookup!IdleCall, IdleJob
  <2>3. QED
    BY <2>2 DEF Lookup!Next
<1>8. ASSUME NEW w \in Worker, NEW p \in Path, NEW k \in Key, Call(w, p, k)
      PROVE  Lookup!Next
  <2> DEFINE abs == [pc |-> "called", path |-> p, key |-> k, content |-> Absent, res |-> None]
  <2>1. absCall' = [absCall EXCEPT ![w] = abs] /\ absCall[w].pc = "idle" /\ build # NoBuild
    BY <1>8, CallCalls
  <2>2. Lookup!Call(w, p, k)
    BY <1>2, <1>3, <1>8, <2>1 DEF Call, Lookup!Call
  <2>3. QED
    BY <2>2 DEF Lookup!Next
<1>9. ASSUME NEW w \in Worker, Consume(w) PROVE Lookup!Next
  <2>1. absCall' = [absCall EXCEPT ![w] = IdleJob] /\ absCall[w].pc = "done"
    BY <1>9, ConsumeCalls
  <2>2. Lookup!Return(w)
    BY <1>2, <1>3, <1>9, <2>1 DEF Consume, Lookup!Return, Lookup!IdleCall, IdleJob
  <2>3. QED
    BY <2>2 DEF Lookup!Next
<1>10. ASSUME NEW w \in Worker, DiskLookup(w) PROVE [Lookup!Next]_(Lookup!callVars)
  BY <1>10, RefineLookup
<1>11. ASSUME NEW b \in Build, NEW P \in SUBSET Path, ForeignPersist(b, P)
       PROVE  UNCHANGED <<fs, build, job>>
  BY <1>11 DEF ForeignPersist
<1>12. Persist => UNCHANGED <<fs, build, job>>
  BY DEF Persist, SnapshotHashes, SnapshotEntries, Truncate, WriteState, WriteFails
<1>13. vars' = vars => UNCHANGED <<fs, build, job>>
  BY DEF vars
<1>14. QED
  BY <1>4, <1>5, <1>6, <1>7, <1>8, <1>9, <1>10, <1>11, <1>12, <1>13
  DEF Next, Environment, Exit, Crash

\* The disk cache of a stamped build keeps the promise of ContentLookup with
\* nothing to trust: every lookup answers what the loader of this build makes of
\* the content the file has while the lookup runs (disk.go:107-125).
THEOREM RefinesLookup == ASSUME ~EarlyReturn, Stamped PROVE Spec => LookupSpec
<1>1. IInv /\ IInv' /\ [Next]_vars => [Lookup!Next]_(Lookup!callVars)
  BY RefineStep DEF IInv
<1>2. QED
  BY <1>1, RefineInit, InvariantHolds, PTL DEF Spec, LookupSpec, Lookup!Spec

(***************************************************************************)
(* The watch session.                                                      *)
(***************************************************************************)

\* What a lookup has read, and what a file holds now, is a content the file has
\* had since it was last reported.
SeenInv ==
    /\ \A p \in Path : fs[p] \in seen[p]
    /\ \A w \in Worker :
           job[w].pc \in {"checkHash", "storeHash", "load", "compute"} =>
               job[w].content \in seen[job[w].path]

\* Invalidate is over before lookups begin, and the rows it deletes go first.
ReportInv ==
    /\ reported \subseteq Path
    /\ reported # {} => phase = "invalidate"
    /\ \A p \in reported : entries[p] = EmptyRow

WatchInv ==
    /\ IInv
    /\ verified \subseteq Path
    /\ ReportInv
    /\ seen \in [Path -> SUBSET (Content \cup {Absent})]
    /\ SeenInv
    /\ VerifiedRecent

------------------------------------------------------------------------------
(* The steps of the session that DiskCache does not have keep its invariant. *)

\* A cycle starts after the lookups of the last run, so nothing that a lookup
\* has established is lost with the rows and, after those, the hashes.
LEMMA CycleStartKeeps ==
    ASSUME IInv, phase \in {"idle", "invalidate"}, phase' \in {"invalidate", "run"},
           entries' \in Entries, hashes' \in Hashes,
           \A p \in Path : \/ entries'[p] = EmptyRow
                           \/ entries'[p] = entries[p] /\ hashes'[p] = hashes[p],
           UNCHANGED <<fs, build, job, snap, disk>>
    PROVE  IInv'
<1>1. TypeOK'
  BY DEF IInv, MemInv, TypeOK, Phase
<1>2. \A w \in Worker : job[w].pc = "idle"
  BY DEF IInv, SnapInv
<1>3. (Exclusive /\ JobInv /\ PhaseInv /\ AnswersFresh)'
  BY <1>2 DEF IInv, MemInv, Exclusive, JobInv, PhaseInv, AnswersFresh, Busy
<1>4. MemoryCoherent'
  <2> SUFFICES ASSUME NEW p \in Path PROVE Coherent(entries'[p], hashes'[p], build')
    BY DEF MemoryCoherent
  <2>1. CASE entries'[p] = EmptyRow
    BY <2>1, EmptyRowCoherent
  <2>2. CASE entries'[p] = entries[p] /\ hashes'[p] = hashes[p]
    BY <2>2 DEF IInv, MemInv, MemoryCoherent
  <2>3. QED
    BY <2>1, <2>2
<1>5. (SnapInv /\ DiskCoherent)'
  BY <1>2 DEF IInv, SnapInv, DiskCoherent, Coherent
<1>6. QED
  BY <1>1, <1>3, <1>4, <1>5 DEF IInv, MemInv

LEMMA BeginCycleKeeps ==
    ASSUME IInv, NEW P \in SUBSET Path, BeginCycle(P)
    PROVE  IInv'
<1>1. entries \in Entries /\ hashes' \in Hashes /\ hashes' = hashes
  BY DEF IInv, MemInv, TypeOK, BeginCycle
<1>2. entries' \in Entries /\ \A p \in Path : entries'[p] = IF p \in P THEN EmptyRow
                                                          ELSE entries[p]
  BY <1>1, EvictRows DEF BeginCycle
<1>3. QED
  BY <1>1, <1>2, CycleStartKeeps DEF BeginCycle

LEMMA BeginResetKeeps == ASSUME IInv, BeginReset PROVE IInv'
<1>1. hashes' \in Hashes
  BY DEF IInv, MemInv, TypeOK, BeginReset
<1>2. QED
  BY <1>1, EmptyRowCoherent, CycleStartKeeps DEF BeginReset

\* A hash goes when the row of its path has gone.
LEMMA DropHashKeeps ==
    ASSUME IInv, ReportInv, NEW p \in Path, DropHash(p)
    PROVE  IInv' /\ ReportInv'
<1>1. /\ phase = "invalidate" /\ phase' = phase /\ entries' = entries
      /\ entries[p] = EmptyRow /\ hashes' = [hashes EXCEPT ![p] = NoHash]
  BY DEF DropHash, ReportInv
<1>2. /\ entries' \in Entries /\ hashes' \in Hashes
      /\ \A q \in Path : q # p => hashes'[q] = hashes[q]
  BY <1>1 DEF IInv, MemInv, TypeOK, Hashes
<1>3. IInv'
  BY <1>1, <1>2, CycleStartKeeps DEF DropHash
<1>4. QED
  BY <1>1, <1>3 DEF ReportInv, DropHash, sessionVars

LEMMA StartRunKeeps ==
    ASSUME IInv, StartRun
    PROVE  IInv'
<1>1. entries' \in Entries /\ hashes' \in Hashes
  BY DEF IInv, MemInv, TypeOK, StartRun
<1>2. QED
  BY <1>1, CycleStartKeeps DEF StartRun

\* The fast path answers from a coherent row.
LEMMA HitKeeps ==
    ASSUME IInv, NEW w \in Worker, Hit(w)
    PROVE  /\ IInv'
           /\ LET j == job[w]
                  v == entries[j.path][j.key] IN
              /\ j.path \in verified /\ j.path \in Path /\ j.key \in Key
              /\ v \in Value /\ v # None
              /\ job'[w] = [j EXCEPT !.pc = "done", !.content = v.content, !.res = v]
              /\ job'[w].pc = "done"
              /\ \A u \in Worker : u # w => job'[u] = job[u]
<1> DEFINE j == job[w]
           v == entries[j.path][j.key]
<1>1. /\ TypeOK /\ PhaseInv /\ j \in Job /\ job \in [Worker -> Job]
      /\ j.pc = "readFile" /\ j.path \in Path /\ j.key \in Key
      /\ j.path \in verified /\ v # None /\ entries[j.path] \in Row
  BY DEF IInv, MemInv, TypeOK, Job, Hit, Trusted, Entries
<1>2. v \in Value /\ v.content \in Content
  BY <1>1 DEF Row, Value
<1>3. v.key = j.key /\ (Stamped => v.build = build)
  BY <1>1 DEF IInv, MemInv, MemoryCoherent, Coherent
<1>4. /\ job'[w] = [j EXCEPT !.pc = "done", !.content = v.content, !.res = v]
      /\ \A u \in Worker : u # w => job'[u] = job[u]
      /\ job' = [job EXCEPT ![w] = [j EXCEPT !.pc = "done", !.content = v.content, !.res = v]]
      /\ UNCHANGED <<fs, build, phase, entries, hashes, snap, disk>>
  BY <1>1 DEF Hit, sessionVars
<1> HIDE DEF v
<1>5. [j EXCEPT !.pc = "done", !.content = v.content, !.res = v] \in Job
  BY <1>1, <1>2 DEF Job, Stage
<1>6. /\ job'[w].pc = "done" /\ job'[w].path = j.path /\ job'[w].key = j.key
      /\ job'[w].content = v.content /\ job'[w].res = v
  BY <1>1, <1>4 DEF Job
<1>7. TypeOK'
  BY <1>1, <1>4, <1>5 DEF TypeOK
<1>8. Exclusive'
  BY <1>1, <1>4, <1>6, ExclusiveStep DEF IInv, MemInv, Busy, Stage
<1>9. (JobInv /\ PhaseInv /\ AnswersFresh)'
  <2>1. v # None
    BY <1>1 DEF v
  <2>2. PhaseInv'
    BY <1>1, <1>4, RunningStep DEF IInv
  <2>3. JobInv'
    BY <1>4, <1>6, <2>1 DEF IInv, MemInv, JobInv
  <2>4. AnswersFresh'
    BY <1>3, <1>4, <1>6 DEF IInv, MemInv, AnswersFresh
  <2>5. QED
    BY <2>2, <2>3, <2>4
<1>10. MemoryCoherent'
  BY <1>4 DEF IInv, MemInv, MemoryCoherent, Coherent
<1>11. (SnapInv /\ DiskCoherent)'
  <2>1. phase = "run"
    BY <1>1, IdleJobType DEF IInv, SnapInv, MemInv, PhaseInv, TypeOK, Phase
  <2>2. QED
    BY <1>4, <2>1 DEF IInv, SnapInv, DiskCoherent, Coherent
<1>12. QED
  BY <1>1, <1>2, <1>4, <1>7, <1>8, <1>9, <1>10, <1>11 DEF IInv, MemInv, v

------------------------------------------------------------------------------
(* What is served was seen since the last report. *)

\* The content a lookup settles on when it reads the file is one the file has
\* now; the rows of a file it has verified hold that content only.
LEMMA SlowPathSeen ==
    ASSUME WatchInv, IInv', NEW w \in Worker, SlowPath(w)
    PROVE  SeenInv' /\ VerifiedRecent' /\ verified' \subseteq Path
<1> DEFINE j == job[w]
           p == job[w].path
<1>1. /\ TypeOK /\ TypeOK' /\ MemoryCoherent /\ MemoryCoherent' /\ p \in Path
      /\ job \in [Worker -> Job] /\ j \in Job
  BY DEF WatchInv, IInv, MemInv, TypeOK, Job
<1>2. UNCHANGED <<fs, build, seen>> /\ \A v \in Worker : v # w => job'[v] = job[v]
  BY <1>1 DEF SlowPath, DiskLookup, ReadFile, CheckHash, StoreHash, Load, ComputeValue,
              ComputeFails, Goto, Reply
<1>3. job'[w].path = p
  BY <1>1 DEF SlowPath, DiskLookup, ReadFile, CheckHash, StoreHash, Load, ComputeValue,
              ComputeFails, Goto, Reply, Job
<1>4. job'[w].pc \in {"checkHash", "storeHash", "load", "compute"} =>
          job'[w].content \in seen[p]
  <2>1. CASE ReadFile(w)
    BY <1>1, <2>1 DEF ReadFile, Reply, Job, WatchInv, SeenInv
  <2>2. CASE CheckHash(w) \/ StoreHash(w) \/ Load(w) \/ ComputeValue(w) \/ ComputeFails(w)
    <3>1. /\ j.pc \in {"checkHash", "storeHash", "load", "compute"}
          /\ job'[w].content = j.content
      BY <1>1, <2>2 DEF CheckHash, StoreHash, Load, ComputeValue, ComputeFails, Goto, Reply, Job
    <3>2. QED
      BY <3>1 DEF WatchInv, SeenInv
  <2>3. QED
    BY <2>1, <2>2 DEF SlowPath, DiskLookup
<1>5. SeenInv'
  BY <1>1, <1>2, <1>3, <1>4 DEF WatchInv, SeenInv
<1>6. ASSUME NEW q \in Path, NEW k \in Key, entries'[q][k] # None, entries'[q] # entries[q]
      PROVE  q = p /\ entries'[q][k].content \in seen[p]
  <2>1. CASE ComputeValue(w)
    <3> DEFINE v == Compute(j.key, j.content, build)
    <3>1. /\ j.content \in Content /\ j.key \in Key /\ build \in Build /\ entries \in Entries
          /\ j.content \in seen[p] /\ hashes[p] = HashOf[j.content]
          /\ entries' = StoreFirst(entries, p, j.key, v) /\ UNCHANGED <<hashes, build>>
      BY <1>1, <2>1, RunningStep
      DEF WatchInv, IInv, MemInv, JobInv, SeenInv, ComputeValue, TypeOK, Job
    <3>2. v \in Value
      BY <3>1, ComputeInValue
    <3>3. q = p
      BY <1>1, <1>6, <3>1, <3>2, StoreFirstRow
    <3>4. entries'[p][k].content = j.content
      <4>1. Coherent(entries'[p], HashOf[j.content], build')
        BY <1>1, <3>1 DEF MemoryCoherent
      <4>2. entries'[p][k] \in Value
        BY <1>1, <1>6, <3>3 DEF TypeOK, Entries, Row
      <4>3. QED
        BY <1>6, <3>1, <3>3, <4>1, <4>2, HashAssumption DEF Coherent, Value
    <3>5. QED
      BY <3>1, <3>3, <3>4
  <2>2. CASE CheckHash(w)
    <3>1. entries' = Evict(entries, {p}) /\ entries \in Entries
      BY <1>1, <1>6, <2>2 DEF CheckHash, TypeOK
    <3>2. entries'[q] = EmptyRow
      BY <1>6, <3>1, EvictRows
    <3>3. QED
      BY <1>6, <3>2 DEF EmptyRow
  <2>3. CASE ReadFile(w) \/ StoreHash(w) \/ Load(w) \/ ComputeFails(w)
    BY <1>6, <2>3 DEF ReadFile, StoreHash, Load, ComputeFails
  <2>4. QED
    BY <2>1, <2>2, <2>3 DEF SlowPath, DiskLookup
<1>7. ASSUME job'[w].pc = "done", job'[w].res # Err,
             NEW k \in Key, entries'[p][k] # None, entries'[p] = entries[p]
      PROVE  entries[p][k].content \in seen[p]
  <2>1. j.pc \in {"load", "compute"}
    BY <1>1, <1>7 DEF SlowPath, DiskLookup, ReadFile, CheckHash, StoreHash, Load, ComputeValue,
              ComputeFails, Goto, Reply, Job
  <2>2. /\ hashes[p] = HashOf[j.content] /\ j.content \in Content /\ j.content \in seen[p]
    BY <2>1 DEF WatchInv, IInv, MemInv, JobInv, SeenInv
  <2>3. Coherent(entries[p], HashOf[j.content], build)
    BY <1>1, <2>2 DEF MemoryCoherent
  <2>4. entries[p][k].content = j.content
    BY <1>1, <1>7, <2>2, <2>3, HitIsFresh
  <2>5. QED
    BY <2>2, <2>4
<1>8. verified' \subseteq verified \cup {p}
      /\ (p \in verified' /\ p \notin verified => job'[w].pc = "done" /\ job'[w].res # Err)
  BY DEF SlowPath
<1>9. VerifiedRecent'
  <2> SUFFICES ASSUME NEW q \in verified', NEW k \in Key, entries'[q][k] # None
               PROVE  entries'[q][k].content \in seen[q]
    BY <1>2 DEF VerifiedRecent
  <2>1. q \in Path
    BY <1>1, <1>8 DEF WatchInv
  <2>2. CASE entries'[q] # entries[q]
    BY <1>6, <2>1, <2>2
  <2>3. CASE entries'[q] = entries[q] /\ q \in verified
    BY <2>3 DEF WatchInv, VerifiedRecent
  <2>4. CASE entries'[q] = entries[q] /\ q \notin verified
    BY <1>7, <1>8, <2>4
  <2>5. QED
    BY <2>2, <2>3, <2>4
<1>10. QED
  BY <1>1, <1>5, <1>8, <1>9 DEF WatchInv

\* A report empties the row of a file in the same step in which it narrows what
\* may be served to the content the file has.
LEMMA ReportSeen ==
    ASSUME WatchInv, NEW P \in SUBSET Path, phase = "idle",
           \A p \in P : entries'[p] = EmptyRow,
           \A p \in Path \ P : entries'[p] = entries[p],
           verified' \subseteq verified,
           seen' = [p \in Path |-> IF p \in P THEN {fs[p]} ELSE seen[p]],
           UNCHANGED <<fs, job>>
    PROVE  SeenInv' /\ VerifiedRecent'
<1>1. \A w \in Worker : job[w].pc = "idle"
  BY DEF WatchInv, IInv, SnapInv
<1>2. SeenInv'
  BY <1>1 DEF WatchInv, SeenInv
<1>3. VerifiedRecent'
  BY DEF WatchInv, VerifiedRecent, EmptyRow
<1>4. QED
  BY <1>2, <1>3

\* A step outside Invalidate, or one that leaves the rows alone, keeps what is to be
\* deleted.
LEMMA ReportKept ==
    ASSUME ReportInv, reported' = reported,
           phase # "invalidate" \/ (phase' = phase /\ entries' = entries)
    PROVE  ReportInv'
BY DEF ReportInv

LEMMA WatchInductive ==
    ASSUME ~EarlyReturn
    PROVE  /\ WatchInit => WatchInv
           /\ WatchInv /\ [WatchNext]_watchVars => WatchInv'
<1>1. WatchInit => WatchInv
  <2> SUFFICES ASSUME WatchInit PROVE WatchInv
    OBVIOUS
  <2>1. IInv
    BY Inductive DEF WatchInit
  <2>2. SeenInv /\ seen \in [Path -> SUBSET (Content \cup {Absent})]
    BY <2>1, IdleJobType DEF WatchInit, Init, SeenInv, IInv, MemInv, TypeOK
  <2>3. QED
    BY <2>1, <2>2 DEF WatchInit, WatchInv, VerifiedRecent, ReportInv
<1>2. WatchInv /\ [WatchNext]_watchVars => WatchInv'
  <2> SUFFICES ASSUME WatchInv, [WatchNext]_watchVars PROVE WatchInv'
    OBVIOUS
  <2>1. IInv /\ fs \in [Path -> Content \cup {Absent}]
    BY DEF WatchInv, IInv, MemInv, TypeOK
  <2>2. ASSUME [Next]_vars PROVE IInv'
    BY <2>1, <2>2, Inductive
  <2>3. ASSUME NEW p \in Path, NEW c \in Content \cup {Absent}, WatchEdit(p, c)
        PROVE  WatchInv'
    <3>1. IInv'
      BY <2>2, <2>3 DEF WatchEdit, Next, Environment
    <3>2. /\ seen' = [seen EXCEPT ![p] = @ \cup {c}] /\ fs' = [fs EXCEPT ![p] = c]
          /\ UNCHANGED <<entries, job, verified>>
      BY <2>3 DEF WatchEdit, Edit
    <3>3. seen' \in [Path -> SUBSET (Content \cup {Absent})]
      BY <3>2 DEF WatchInv
    <3>4. \A q \in Path : seen[q] \subseteq seen'[q] /\ fs'[q] \in seen'[q]
      BY <2>1, <3>2 DEF WatchInv, SeenInv
    <3>5. \A w \in Worker : job[w].path \in Path
      BY <2>1 DEF IInv, MemInv, TypeOK, Job
    <3>6. SeenInv' /\ VerifiedRecent'
      BY <3>2, <3>4, <3>5 DEF WatchInv, SeenInv, VerifiedRecent
    <3>7. ReportInv'
      BY <2>3, ReportKept DEF WatchEdit, Edit, WatchInv
    <3>8. QED
      BY <3>1, <3>2, <3>3, <3>6, <3>7 DEF WatchInv
  <2>4. ASSUME UNCHANGED <<fs, entries, job, sessionVars>>, [Next]_vars,
               phase' = phase \/ phase # "invalidate"
        PROVE  WatchInv'
    <3>1. IInv' /\ ReportInv'
      BY <2>2, <2>4, ReportKept DEF WatchInv, sessionVars
    <3>2. QED
      BY <2>4, <3>1 DEF WatchInv, SeenInv, VerifiedRecent, sessionVars
  <2>5. ASSUME NEW b \in Build, NEW P \in SUBSET Path, WatchForeignPersist(b, P)
        PROVE  WatchInv'
    BY <2>4, <2>5 DEF WatchForeignPersist, ForeignPersist, sessionVars, Next, Environment
  <2>6. CASE WatchPersist
    BY <2>4, <2>6
    DEF WatchPersist, Persist, SnapshotHashes, SnapshotEntries, Truncate, WriteState,
        WriteFails, sessionVars, Next
  <2>7. ASSUME NEW b \in Build, WatchBoot(b) PROVE WatchInv'
    <3>1. IInv'
      BY <2>2, <2>7 DEF WatchBoot, Next
    <3>2. \A w \in Worker : job'[w].pc = "idle"
      BY <2>1, <2>7, IdleJobType DEF WatchBoot, Boot, IInv, MemInv, PhaseInv
    <3>3. /\ seen' \in [Path -> SUBSET (Content \cup {Absent})]
          /\ \A p \in Path : fs'[p] \in seen'[p]
      BY <2>1, <2>7 DEF WatchBoot, Boot
    <3>4. QED
      BY <2>7, <3>1, <3>2, <3>3 DEF WatchBoot, WatchInv, SeenInv, VerifiedRecent, ReportInv
  <2>8. ASSUME NEW P \in SUBSET Path, BeginCycle(P) PROVE WatchInv'
    <3>1. IInv'
      BY <2>1, <2>8, BeginCycleKeeps
    <3>2. \A p \in Path : entries'[p] = IF p \in P THEN EmptyRow ELSE entries[p]
      BY <2>1, <2>8, EvictRows DEF BeginCycle, IInv, MemInv, TypeOK
    <3>3. SeenInv' /\ VerifiedRecent'
      BY <2>8, <3>2, ReportSeen DEF BeginCycle
    <3>4. seen' \in [Path -> SUBSET (Content \cup {Absent})]
      BY <2>1, <2>8 DEF BeginCycle, WatchInv
    <3>5. ReportInv'
      BY <2>8, <3>2 DEF BeginCycle, ReportInv
    <3>6. QED
      BY <2>8, <3>1, <3>3, <3>4, <3>5 DEF BeginCycle, WatchInv
  <2>9. CASE BeginReset
    <3>1. IInv'
      BY <2>1, <2>9, BeginResetKeeps
    <3>2. \A p \in Path : entries'[p] = EmptyRow
      BY <2>9, EmptyRowCoherent DEF BeginReset
    <3>3. seen' = [p \in Path |-> IF p \in Path THEN {fs[p]} ELSE seen[p]]
      BY <2>9 DEF BeginReset
    <3>4. SeenInv' /\ VerifiedRecent'
      BY <2>9, <3>2, <3>3, ReportSeen DEF BeginReset
    <3>5. seen' \in [Path -> SUBSET (Content \cup {Absent})]
      BY <2>1, <2>9 DEF BeginReset
    <3>6. ReportInv'
      BY <2>9, <3>2 DEF BeginReset, ReportInv
    <3>7. QED
      BY <2>9, <3>1, <3>4, <3>5, <3>6 DEF BeginReset, WatchInv
  <2>10. ASSUME NEW w \in Worker, NEW p \in Path, NEW k \in Key, WatchCall(w, p, k)
         PROVE  WatchInv'
    <3>1. IInv'
      BY <2>2, <2>10 DEF WatchCall, Next
    <3>2. /\ job'[w].pc = "readFile" /\ \A u \in Worker : u # w => job'[u] = job[u]
          /\ UNCHANGED <<fs, entries, verified, seen>>
      BY <2>1, <2>10 DEF WatchCall, Call, sessionVars, IInv, MemInv, TypeOK
    <3>3. ReportInv'
      BY <2>10, ReportKept DEF WatchCall, Call, sessionVars, WatchInv
    <3>4. QED
      BY <3>1, <3>2, <3>3 DEF WatchInv, SeenInv, VerifiedRecent
  <2>11. ASSUME NEW w \in Worker, Hit(w) PROVE WatchInv'
    <3>1. IInv' /\ job'[w].pc = "done" /\ \A u \in Worker : u # w => job'[u] = job[u]
      BY <2>1, <2>11, HitKeeps
    <3>2. ReportInv'
      BY <2>11, ReportKept DEF Hit, sessionVars, WatchInv
    <3>3. QED
      BY <2>11, <3>1, <3>2 DEF Hit, sessionVars, WatchInv, SeenInv, VerifiedRecent
  <2>12. ASSUME NEW w \in Worker, SlowPath(w) PROVE WatchInv'
    <3>1. IInv'
      BY <2>2, <2>12 DEF SlowPath, Next
    <3>2. ReportInv'
      BY <2>1, <2>12, LookupDisk, ReportKept DEF SlowPath, WatchInv
    <3>3. QED
      BY <2>12, <3>1, <3>2, SlowPathSeen DEF SlowPath, WatchInv
  <2>13. ASSUME NEW w \in Worker, WatchConsume(w) PROVE WatchInv'
    <3>1. IInv'
      BY <2>2, <2>13 DEF WatchConsume, Next
    <3>2. /\ job'[w].pc = "idle" /\ \A u \in Worker : u # w => job'[u] = job[u]
          /\ UNCHANGED <<fs, entries, verified, seen>>
      BY <2>1, <2>13, IdleJobType DEF WatchConsume, Consume, sessionVars, IInv, MemInv, TypeOK
    <3>3. ReportInv'
      BY <2>13, ReportKept DEF WatchConsume, Consume, sessionVars, WatchInv
    <3>4. QED
      BY <3>1, <3>2, <3>3 DEF WatchInv, SeenInv, VerifiedRecent
  <2>14. CASE WatchLost
    <3>1. IInv'
      BY <2>2, <2>14 DEF WatchLost, Next
    <3>2. UNCHANGED <<fs, seen>> /\ verified' = {} /\ \A w \in Worker : job'[w].pc = "idle"
      BY <2>14, IdleJobType DEF WatchLost, Exit, Crash, Lost
    <3>3. ReportInv'
      BY <2>14 DEF WatchLost, ReportInv
    <3>4. QED
      BY <3>1, <3>2, <3>3 DEF WatchInv, SeenInv, VerifiedRecent
  <2>15. CASE UNCHANGED watchVars
    BY <2>4, <2>15 DEF watchVars, vars, sessionVars
  <2>16. ASSUME NEW p \in Path, DropHash(p) PROVE WatchInv'
    <3>1. IInv' /\ ReportInv'
      BY <2>1, <2>16, DropHashKeeps DEF WatchInv
    <3>2. QED
      BY <2>16, <3>1 DEF DropHash, sessionVars, WatchInv, SeenInv, VerifiedRecent
  <2>17. ASSUME NEW p \in Path, DropMark(p) PROVE WatchInv'
    <3>1. IInv' /\ UNCHANGED <<fs, phase, entries, job>>
      BY <2>2, <2>17 DEF DropMark, vars
    <3>2. ReportInv'
      BY <2>17, <3>1 DEF DropMark, WatchInv, ReportInv
    <3>3. QED
      BY <2>17, <3>1, <3>2 DEF DropMark, WatchInv, SeenInv, VerifiedRecent
  <2>18. CASE StartRun
    <3>1. IInv' /\ ReportInv'
      BY <2>1, <2>18, StartRunKeeps DEF StartRun, ReportInv, sessionVars
    <3>2. QED
      BY <2>18, <3>1 DEF StartRun, sessionVars, WatchInv, SeenInv, VerifiedRecent
  <2>19. QED
    BY <2>3, <2>5, <2>6, <2>7, <2>8, <2>9, <2>10, <2>11, <2>12, <2>13, <2>14, <2>15, <2>16,
       <2>17, <2>18
    DEF WatchNext
<1>3. QED
  BY <1>1, <1>2

\* The inductive invariant of a session: that of the disk cache, and a verified row
\* is one of a content the file has had since its last report, also while a lookup
\* is between reading the mark and marking its file (watch.go:45-76).
THEOREM WatchInvariantHolds == ASSUME ~EarlyReturn PROVE WatchSpec => []WatchInv
<1>1. WatchInit => WatchInv
  BY WatchInductive
<1>2. WatchInv /\ [WatchNext]_watchVars => WatchInv'
  BY WatchInductive
<1>3. QED
  BY <1>1, <1>2, PTL DEF WatchSpec

\* The state of a session keeps its type, through any number of cycles, reports and
\* resets (watch.go over disk.go).
THEOREM WatchTypesHold == ASSUME ~EarlyReturn PROVE WatchSpec => []WatchTypeOK
<1>1. WatchInv => WatchTypeOK
  BY DEF WatchInv, IInv, MemInv, WatchTypeOK, ReportInv
<1>2. QED
  BY <1>1, WatchInvariantHolds, PTL

\* The maps of a session, and the cache file it leaves, pair every hash with values
\* of that content: what is reported is dropped from the rows and then from the
\* hashes, before the next lookup, and a row that is trusted without a look at its file is never
\* written with the hash of another content (watch.go:63-76 over disk.go:87-125).
THEOREM WatchCoherenceHolds ==
    ASSUME ~EarlyReturn PROVE WatchSpec => [](MemoryCoherent /\ DiskCoherent)
<1>1. WatchInv => MemoryCoherent /\ DiskCoherent
  BY DEF WatchInv, IInv, MemInv
<1>2. QED
  BY <1>1, WatchInvariantHolds, PTL

\* Whatever a session serves without reading the file was computed from a content
\* the file has had since it was last reported (watch.go:45-69).
THEOREM VerifiedRecentHolds == ASSUME ~EarlyReturn PROVE WatchSpec => []VerifiedRecent
<1>1. WatchInv => VerifiedRecent
  BY DEF WatchInv
<1>2. QED
  BY <1>1, WatchInvariantHolds, PTL

------------------------------------------------------------------------------
(* Refinement of ContentLookup, for stamped builds. *)

LEMMA WatchRefineInit == WatchInit => WatchLookup!Init
<1> SUFFICES ASSUME WatchInit PROVE WatchLookup!Init
  OBVIOUS
<1>1. absCall = [w \in Worker |-> IdleJob]
  BY AbsIdle, IdleJobType DEF absCall, WatchInit, Init
<1>2. QED
  BY <1>1
  DEF WatchInit, Init, WatchLookup!Init, WatchLookup!IdleCall, IdleJob, absCall, AbsCall

\* The disk path settles on a content the file has now, one of those in seen.
LEMMA WatchRefineSlow ==
    ASSUME WatchInv, WatchInv', Stamped, NEW w \in Worker, SlowPath(w)
    PROVE  [WatchLookup!Next]_(WatchLookup!callVars)
<1> USE DEF WatchLookup!callVars
<1>1. absCall = [v \in Worker |-> [job[v] EXCEPT !.pc = Stage2Lookup(@)]]
  BY DEF absCall, AbsCall
<1>2. absCall' = [v \in Worker |-> [job'[v] EXCEPT !.pc = Stage2Lookup(@)]]
  BY DEF absCall, AbsCall
<1>3. /\ UNCHANGED <<fs, build, seen>> /\ absCall[w].path \in Path
      /\ AnswersAbsent(w) \/ Settles(w) \/ Answers(w) \/ absCall' = absCall
  BY LookupCalls DEF SlowPath, WatchInv, IInv
<1>4. fs[absCall[w].path] \in seen[absCall[w].path]
  BY <1>3 DEF WatchInv, SeenInv
<1>5. CASE AnswersAbsent(w)
  <2>1. Err \in WatchLookup!Answers(absCall[w].key, Absent)
    BY DEF WatchLookup!Answers
  <2>2. \E d \in seen[absCall[w].path] : \E r \in WatchLookup!Answers(absCall[w].key, d) :
           absCall' = [absCall EXCEPT ![w].pc = "done", ![w].content = d, ![w].res = r]
    BY <1>4, <1>5, <2>1 DEF AnswersAbsent
  <2>3. absCall[w].pc = "called"
    BY <1>5 DEF AnswersAbsent
  <2>4. WatchLookup!AnswerAtOnce(w)
    BY <1>3, <2>2, <2>3 DEF absCall, AbsCall, WatchLookup!AnswerAtOnce
  <2>5. QED
    BY <2>4 DEF WatchLookup!Next
<1>6. CASE Settles(w)
  <2>1. WatchLookup!Sample(w)
    BY <1>1, <1>2, <1>3, <1>4, <1>6 DEF Settles, WatchLookup!Sample
  <2>2. QED
    BY <2>1 DEF WatchLookup!Next
<1>7. CASE Answers(w)
  <2>1. PICK r \in {Compute(absCall[w].key, absCall[w].content, build), Err} :
                absCall' = [absCall EXCEPT ![w].pc = "done", ![w].res = r]
    BY <1>7 DEF Answers
  <2>2. r \in WatchLookup!Answers(absCall[w].key, absCall[w].content)
    BY <1>7, <2>1, AbsentAssumption
    DEF Answers, WatchLookup!Answers, WatchLookup!Compute, Compute
  <2>3. absCall[w].pc = "sampled"
    BY <1>7 DEF Answers
  <2>4. WatchLookup!Answer(w)
    BY <1>1, <1>2, <1>3, <2>1, <2>2, <2>3 DEF WatchLookup!Answer
  <2>5. QED
    BY <2>4 DEF WatchLookup!Next
<1>8. CASE absCall' = absCall
  BY <1>1, <1>2, <1>3, <1>8
<1>9. QED
  BY <1>3, <1>5, <1>6, <1>7, <1>8

\* The fast path settles and answers at once, from a content in seen.
LEMMA WatchRefineHit ==
    ASSUME WatchInv, WatchInv', Stamped, NEW w \in Worker, Hit(w)
    PROVE  WatchLookup!AnswerAtOnce(w)
<1> DEFINE j == job[w]
           v == entries[j.path][j.key]
           c == v.content
<1>1. absCall = [u \in Worker |-> [job[u] EXCEPT !.pc = Stage2Lookup(@)]]
  BY DEF absCall, AbsCall
<1>2. absCall' = [u \in Worker |-> [job'[u] EXCEPT !.pc = Stage2Lookup(@)]]
  BY DEF absCall, AbsCall
<1>3. /\ j.path \in verified /\ j.path \in Path /\ j.key \in Key /\ v \in Value /\ v # None
      /\ job'[w] = [j EXCEPT !.pc = "done", !.content = v.content, !.res = v]
      /\ \A u \in Worker : u # w => job'[u] = job[u]
  BY HitKeeps DEF WatchInv
<1>4. /\ job \in [Worker -> Job] /\ job' \in [Worker -> Job] /\ j \in Job /\ job'[w] \in Job
      /\ j.pc = "readFile" /\ UNCHANGED <<fs, build, seen>>
  BY DEF WatchInv, IInv, MemInv, TypeOK, Hit, sessionVars
<1>5. c \in seen[j.path] /\ c \in Content
  BY <1>3 DEF WatchInv, VerifiedRecent, Value
<1>6. v = Compute(j.key, c, build)
  <2>1. v.key = j.key /\ v.build = build
    BY <1>3 DEF WatchInv, IInv, MemInv, MemoryCoherent, Coherent
  <2>2. v = [key |-> v.key, content |-> v.content, build |-> v.build]
    BY <1>3 DEF Value
  <2>3. QED
    BY <2>1, <2>2 DEF Compute
<1> HIDE DEF v
<1>7. absCall' = [absCall EXCEPT ![w] = AbsCall(job'[w])] /\ absCall[w] = AbsCall(j)
  BY <1>3, <1>4, AbsStep DEF absCall
<1>8. /\ absCall[w].pc = "called" /\ absCall[w].path = j.path /\ absCall[w].key = j.key
  BY <1>4, <1>7, AbsFields, StageMap
<1>9. AbsCall(job'[w]) = [AbsCall(j) EXCEPT !.pc = "done", !.content = c, !.res = v]
  <2>1. /\ job'[w].pc = "done" /\ job'[w].path = j.path /\ job'[w].key = j.key
        /\ job'[w].content = c /\ job'[w].res = v
    BY <1>3, <1>4 DEF Job
  <2>2. AbsCall(job'[w]) = [pc |-> "done", path |-> j.path, key |-> j.key,
                            content |-> c, res |-> v]
    BY <1>4, <2>1, AbsFields, StageMap
  <2>3. AbsCall(j) = [pc |-> Stage2Lookup(j.pc), path |-> j.path, key |-> j.key,
                      content |-> j.content, res |-> j.res]
    BY <1>4, AbsFields
  <2> DEFINE q1 == [AbsCall(j) EXCEPT !.pc = "done"]
             q2 == [q1 EXCEPT !.content = c]
  <2>4. q1 = [pc |-> "done", path |-> j.path, key |-> j.key,
              content |-> j.content, res |-> j.res]
    BY <2>3
  <2> HIDE DEF c, q1
  <2>5. q2 = [pc |-> "done", path |-> j.path, key |-> j.key, content |-> c, res |-> j.res]
    BY <2>4
  <2> HIDE DEF q2
  <2>6. [q2 EXCEPT !.res = v] = AbsCall(job'[w])
    BY <2>2, <2>5
  <2>7. QED
    BY <2>6 DEF q1, q2
<1>10. absCall' = [absCall EXCEPT ![w].pc = "done", ![w].content = c, ![w].res = v]
  BY <1>7, <1>9 DEF absCall
<1>11. v \in WatchLookup!Answers(absCall[w].key, c)
  BY <1>5, <1>6, <1>8, AbsentAssumption DEF WatchLookup!Answers, WatchLookup!Compute, Compute
<1> HIDE DEF c
<1>12. \E d \in seen[absCall[w].path] : \E r \in WatchLookup!Answers(absCall[w].key, d) :
           absCall' = [absCall EXCEPT ![w].pc = "done", ![w].content = d, ![w].res = r]
  BY <1>5, <1>8, <1>10, <1>11
<1>13. QED
  BY <1>4, <1>8, <1>12 DEF absCall, AbsCall, WatchLookup!AnswerAtOnce

\* Every step of the session cache is a step of ContentLookup or invisible there.
LEMMA WatchRefineStep ==
    ASSUME WatchInv, WatchInv', Stamped, [WatchNext]_watchVars
    PROVE  [WatchLookup!Next]_(WatchLookup!callVars)
<1> USE DEF WatchLookup!callVars
<1>1. /\ job \in [Worker -> Job] /\ job' \in [Worker -> Job]
      /\ fs \in [Path -> Content \cup {Absent}]
      /\ seen \in [Path -> SUBSET (Content \cup {Absent})]
  BY DEF WatchInv, IInv, MemInv, TypeOK
<1>2. absCall = [v \in Worker |-> [job[v] EXCEPT !.pc = Stage2Lookup(@)]]
  BY DEF absCall, AbsCall
<1>3. absCall' = [v \in Worker |-> [job'[v] EXCEPT !.pc = Stage2Lookup(@)]]
  BY DEF absCall, AbsCall
<1>4. CASE UNCHANGED <<fs, build, job, seen>>
  BY <1>4
<1>5. ASSUME NEW p \in Path, NEW c \in Content \cup {Absent}, WatchEdit(p, c)
      PROVE  WatchLookup!Next
  <2>1. fs' = [q \in Path |-> IF q \in {p} THEN c ELSE fs[q]] /\ UNCHANGED <<build, job>>
    BY <1>1, <1>5 DEF WatchEdit, Edit
  <2>2. seen' = [q \in Path |-> IF q \in {p} THEN seen[q] \cup {c} ELSE seen[q]]
    BY <1>1, <1>5 DEF WatchEdit
  <2>3. WatchLookup!Edit({p}, c)
    BY <1>2, <1>3, <2>1, <2>2 DEF WatchLookup!Edit
  <2>4. {p} \in SUBSET Path
    BY <1>5
  <2>5. QED
    BY <1>5, <2>3, <2>4 DEF WatchLookup!Next
<1>6. ASSUME NEW b \in Build, WatchBoot(b) PROVE WatchLookup!Next
  BY <1>6 DEF WatchBoot, Boot, WatchLookup!Start, WatchLookup!Next
<1>7. ASSUME NEW P \in SUBSET Path, BeginCycle(P) PROVE WatchLookup!Next
  BY <1>7 DEF BeginCycle, WatchLookup!Notify, WatchLookup!Next
<1>8. CASE BeginReset
  <2>1. WatchLookup!Notify(Path)
    BY <1>8 DEF BeginReset, WatchLookup!Notify
  <2>2. QED
    BY <2>1 DEF WatchLookup!Next
<1>9. ASSUME NEW w \in Worker, NEW p \in Path, NEW k \in Key, WatchCall(w, p, k)
      PROVE  WatchLookup!Next
  <2> DEFINE abs == [pc |-> "called", path |-> p, key |-> k, content |-> Absent, res |-> None]
  <2>1. absCall' = [absCall EXCEPT ![w] = abs] /\ absCall[w].pc = "idle" /\ build # NoBuild
    BY <1>9, CallCalls DEF WatchInv, IInv, WatchCall
  <2>2. WatchLookup!Call(w, p, k)
    BY <1>2, <1>3, <1>9, <2>1 DEF WatchCall, Call, sessionVars, WatchLookup!Call
  <2>3. QED
    BY <2>2 DEF WatchLookup!Next
<1>10. ASSUME NEW w \in Worker, WatchConsume(w) PROVE WatchLookup!Next
  <2>1. absCall' = [absCall EXCEPT ![w] = IdleJob] /\ absCall[w].pc = "done"
    BY <1>10, ConsumeCalls DEF WatchInv, IInv, WatchConsume
  <2>2. WatchLookup!Return(w)
    BY <1>2, <1>3, <1>10, <2>1
    DEF WatchConsume, Consume, sessionVars, WatchLookup!Return, WatchLookup!IdleCall, IdleJob
  <2>3. QED
    BY <2>2 DEF WatchLookup!Next
<1>11. ASSUME NEW w \in Worker, Hit(w) PROVE WatchLookup!Next
  BY <1>11, WatchRefineHit DEF WatchLookup!Next
<1>12. ASSUME NEW w \in Worker, SlowPath(w)
       PROVE  [WatchLookup!Next]_(WatchLookup!callVars)
  BY <1>12, WatchRefineSlow
<1>13. CASE WatchLost
  <2>1. absCall' = [w \in Worker |-> IdleJob]
    BY <1>13, AbsIdle, IdleJobType DEF absCall, WatchLost, Exit, Crash, Lost
  <2>2. WatchLookup!Stop
    BY <1>2, <1>3, <1>13, <2>1
    DEF WatchLost, Exit, Crash, Lost, WatchLookup!Stop, WatchLookup!IdleCall, IdleJob
  <2>3. QED
    BY <2>2 DEF WatchLookup!Next
<1>14. ASSUME NEW b \in Build, NEW P \in SUBSET Path, WatchForeignPersist(b, P)
       PROVE  UNCHANGED <<fs, build, job, seen>>
  BY <1>14 DEF WatchForeignPersist, ForeignPersist, sessionVars
<1>15. WatchPersist => UNCHANGED <<fs, build, job, seen>>
  BY DEF WatchPersist, Persist, SnapshotHashes, SnapshotEntries, Truncate, WriteState,
         WriteFails, sessionVars
<1>16. watchVars' = watchVars => UNCHANGED <<fs, build, job, seen>>
  BY DEF watchVars, vars
<1>17. StartRun \/ (\E p \in Path : DropHash(p) \/ DropMark(p))
           => UNCHANGED <<fs, build, job, seen>>
  BY DEF StartRun, DropHash, DropMark, sessionVars, vars
<1>18. QED
  BY <1>4, <1>5, <1>6, <1>7, <1>8, <1>9, <1>10, <1>11, <1>12, <1>13, <1>14, <1>15, <1>16, <1>17
  DEF WatchNext

\* The session cache of a stamped build keeps the promise of ContentLookup: it
\* answers what the loader of this build makes of a content the file has had
\* since the host last reported it (watch.go).
THEOREM RefinesWatchLookup ==
    ASSUME ~EarlyReturn, Stamped PROVE WatchSpec => WatchLookupSpec
<1>1. WatchInv /\ WatchInv' /\ [WatchNext]_watchVars
          => [WatchLookup!Next]_(WatchLookup!callVars)
  BY WatchRefineStep
<1>2. QED
  BY <1>1, WatchRefineInit, WatchInvariantHolds, PTL
  DEF WatchSpec, WatchLookupSpec, WatchLookup!Spec
==============================================================================
