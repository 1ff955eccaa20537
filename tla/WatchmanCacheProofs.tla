------------------------- MODULE WatchmanCacheProofs -------------------------
(***************************************************************************)
(* Proofs about WatchmanCache for any names, links, keys, contents, builds *)
(* and workers, provided no link dangles (~Dangling) and a cache file      *)
(* without a clock is loaded only when nothing has changed since it was    *)
(* written (QuietStart): what the code does otherwise is not sound.        *)
(***************************************************************************)
EXTENDS WatchmanCache, TLAPS

------------------------------------------------------------------------------
(* The inductive invariant. *)

\* Links are one step long and lead to a file.
FilesInv ==
    \A p \in Path : link[p] # p =>
        /\ p \in Link /\ link[p] \notin Link /\ fs[p] = Absent
        /\ View(p) # Absent

\* The history covers the present, and covers no more while no process has asked
\* the daemon.
HistoryInv ==
    /\ \A p \in Path : View(p) \in seen[p]
    /\ Regular \subseteq reals
    /\ ~Running => seen = [p \in Path |-> {View(p)}] /\ reals = Regular

ProcessInv ==
    /\ phase = "down" <=> build = NoBuild
    /\ ~Running => entries = NoEntries /\ symlinks = NoLinks /\ job = NoJobs

\* What the maps, and the copy that is being written, hold.
Recent(rows) ==
    \A p \in Path, k \in Key : rows[p][k] # None =>
        /\ rows[p][k].key = k
        /\ rows[p][k].content \in seen[p]
        /\ Stamped => rows[p][k].build = build
        /\ p \in reals
RowsInv == Recent(entries) /\ (phase = "truncated" => Recent(snap))
LinksInv == \A p \in Path : symlinks[p] # None => symlinks[p] \in reals

\* What a lookup has established at each stage: its path has been a real path,
\* and the content it has read is one the file has had.
LookupInv ==
    \A w \in Worker :
        /\ job[w].pc = "idle" => job[w] = IdleJob
        /\ job[w].pc \in {"resolve", "load", "readFile"} => job[w].content = Absent
        /\ job[w].pc \notin {"unresolved", "done"} => job[w].res = None
        /\ job[w].pc \in {"load", "readFile", "recheck", "compute"} => job[w].path \in reals
        /\ job[w].pc \in {"recheck", "compute"} =>
               job[w].content \in Content \cap seen[job[w].path]

\* A name the daemon will not report for the clock of the process has stayed the
\* same kind of file with the same content since the process asked.
ClockInv ==
    Running /\ last.status # "foreign" =>
        \A p \in Path \ last.changed :
            /\ p \in reals => link[p] = p
            /\ link[p] = p => seen[p] = {fs[p]}

\* The clock of the watcher covers what has changed since a file without a clock.
StartInv ==
    phase = "started" =>
        /\ watcher.status # "blank"
        /\ Readable(build) /\ disk.clock.status = "blank" /\ watcher.status = "known" =>
               disk.clock.changed \subseteq watcher.changed

\* The cache file holds rows of its own keys and version.
DiskInv ==
    disk.status = "written" =>
        \A p \in Path, k \in Key : disk.entries[p][k] # None =>
            /\ disk.entries[p][k].key = k
            /\ Stamped => disk.entries[p][k].build = disk.version

MemoryInv == RowsInv /\ LinksInv /\ LookupInv
FileInv == StartInv /\ DiskInv /\ DiskSound

WatchmanInv ==
    /\ WatchmanTypeOK
    /\ FilesInv
    /\ HistoryInv
    /\ ProcessInv
    /\ MemoryInv
    /\ ClockInv
    /\ FileInv

------------------------------------------------------------------------------
(* Facts about the data. *)

LEMMA Rows ==
    /\ NoEntries \in Entries
    /\ \A p \in Path, k \in Key : NoEntries[p][k] = None
    /\ NoLinks \in Links
    /\ \A p \in Path : NoLinks[p] = None
BY DEF EmptyRow, Row, NoEntries, Entries, Links, NoLinks

LEMMA EvictRows ==
    ASSUME NEW e \in Entries, NEW P
    PROVE  /\ Evict(e, P) \in Entries
           /\ \A p \in Path, k \in Key :
                  Evict(e, P)[p][k] # None => p \notin P /\ Evict(e, P)[p][k] = e[p][k]
BY DEF Evict, Entries, EmptyRow, Row

LEMMA StoreFirstRow ==
    ASSUME NEW e \in Entries, NEW p \in Path, NEW k \in Key, NEW v \in Value
    PROVE  /\ StoreFirst(e, p, k, v) \in Entries
           /\ \A q \in Path, j \in Key : q # p \/ j # k => StoreFirst(e, p, k, v)[q][j] = e[q][j]
           /\ StoreFirst(e, p, k, v)[p][k] = IF e[p][k] = None THEN v ELSE e[p][k]
BY DEF StoreFirst, Entries, Row

LEMMA IdleTypes ==
    /\ AnyPath \in Path
    /\ IdleJob \in Job /\ IdleJob.pc = "idle" /\ IdleJob.content = Absent /\ IdleJob.res = None
    /\ IdleJob.key \in Key /\ IdleJob.path = AnyPath
    /\ NoJobs \in [Worker -> Job]
    /\ \A w \in Worker : NoJobs[w] = IdleJob
<1>1. AnyPath \in Path
  BY LinkAssumption DEF AnyPath
<1>2. (CHOOSE k \in Key : TRUE) \in Key
  BY NonemptyAssumption
<1>3. QED
  BY <1>1, <1>2 DEF IdleJob, NoJobs, Job, Stage

LEMMA ClockTypes == Blank \in Clock /\ Now \in Clock /\ NoDisk \in DiskFile
BY Rows DEF Blank, Now, Clock, NoDisk, DiskFile

LEMMA ClockSteps ==
    ASSUME NEW clock \in Clock, NEW P \in SUBSET Path
    PROVE  /\ Touch(clock, P) \in Clock /\ Touch(clock, P).status = clock.status
           /\ clock.status # "foreign" => Touch(clock, P).changed = clock.changed \cup P
           /\ Outdate(clock) \in Clock
           /\ Outdate(clock).status # "known"
           /\ Outdate(clock).status = "foreign" \/ Outdate(clock) = clock
BY DEF Touch, Outdate, Clock, Now

\* A real path is its own real path.
LEMMA RealPath ==
    ASSUME WatchmanInv, NEW p \in Path
    PROVE  link[p] \in Regular /\ View(link[p]) = View(p)
<1>1. link \in [Path -> Path] /\ link[p] \in Path
  BY DEF WatchmanInv, WatchmanTypeOK
<1>2. link[link[p]] = link[p]
  BY <1>1 DEF WatchmanInv, FilesInv
<1>3. QED
  BY <1>1, <1>2 DEF Regular, View

LEMMA InitWatchman == ASSUME ~Dangling, Init PROVE WatchmanInv
<1>1. WatchmanTypeOK
  BY Rows, IdleTypes, ClockTypes DEF Init, WatchmanTypeOK, Phase, Regular, View
<1>2. FilesInv
  BY DEF Init, FilesInv
<1>3. HistoryInv
  BY DEF Init, HistoryInv
<1>4. ProcessInv /\ ClockInv
  BY DEF Init, ProcessInv, ClockInv, Running
<1>5. MemoryInv
  <2>1. \A w \in Worker : job[w] = IdleJob
    BY IdleTypes DEF Init
  <2>2. LookupInv
    BY <2>1, IdleTypes DEF LookupInv
  <2>3. RowsInv /\ LinksInv
    BY Rows DEF Init, RowsInv, Recent, LinksInv
  <2>4. QED
    BY <2>2, <2>3 DEF MemoryInv
<1>6. FileInv
  BY DEF Init, FileInv, StartInv, DiskInv, DiskSound, NoDisk
<1>7. QED
  BY <1>1, <1>2, <1>3, <1>4, <1>5, <1>6 DEF WatchmanInv
------------------------------------------------------------------------------
(* The files change, and the daemon. *)

\* Whatever happens to the name n, the others stay what they are.
LEMMA ChangeKeeps ==
    ASSUME WatchmanInv, NEW n \in Path, Change({n}), FilesInv',
           fs' \in [Path -> Content \cup {Absent}], link' \in [Path -> Path],
           \A p \in Path : p # n => fs'[p] = fs[p] /\ link'[p] = link[p]
    PROVE  WatchmanInv'
<1>1. /\ UNCHANGED <<build, phase, entries, symlinks, job, snap>>
      /\ seen' = [p \in Path |-> {View(p)'} \cup IF Running THEN seen[p] ELSE {}]
      /\ reals' = Regular' \cup IF Running THEN reals ELSE {}
      /\ Running' = Running
  BY DEF Change, Running
<1>2. /\ watcher \in Clock /\ last \in Clock /\ disk \in DiskFile /\ disk.clock \in Clock
      /\ seen \in [Path -> SUBSET (Content \cup {Absent})] /\ reals \subseteq Path
  BY DEF WatchmanInv, WatchmanTypeOK, DiskFile
<1>3. /\ watcher' \in Clock /\ watcher'.status = watcher.status
      /\ phase = "started" /\ watcher.status # "foreign" =>
             watcher'.changed = watcher.changed \cup {n}
  BY <1>2, ClockSteps DEF Change
<1>4. /\ last' \in Clock /\ last'.status = last.status
      /\ Running /\ last.status # "foreign" => last'.changed = last.changed \cup {n}
  BY <1>2, ClockSteps DEF Change
<1>5. /\ disk' \in DiskFile /\ disk'.status = disk.status /\ disk'.version = disk.version
      /\ disk'.entries = disk.entries /\ disk'.clock.status = disk.clock.status
      /\ disk.status = "written" /\ disk.clock.status # "foreign" =>
             disk'.clock.changed = disk.clock.changed \cup {n}
  <2>1. CASE disk.status = "written"
    <3>1. disk' = [disk EXCEPT !.clock = Touch(@, {n})]
      BY <2>1 DEF Change
    <3>2. /\ Touch(disk.clock, {n}) \in Clock
          /\ Touch(disk.clock, {n}).status = disk.clock.status
          /\ disk.clock.status # "foreign" =>
                 Touch(disk.clock, {n}).changed = disk.clock.changed \cup {n}
      BY <1>2, ClockSteps
    <3>3. QED
      BY <1>2, <3>1, <3>2 DEF DiskFile
  <2>2. CASE disk.status # "written"
    BY <1>2, <2>2 DEF Change
  <2>3. QED
    BY <2>1, <2>2
<1>6. \A p \in Path : View(p)' \in Content \cup {Absent}
  BY DEF View
<1>7. WatchmanTypeOK'
  <2>1. seen' \in [Path -> SUBSET (Content \cup {Absent})]
    BY <1>1, <1>2, <1>6
  <2>2. reals' \subseteq Path
    BY <1>1, <1>2 DEF Regular
  <2>3. QED
    BY <1>1, <1>3, <1>4, <1>5, <2>1, <2>2 DEF WatchmanInv, WatchmanTypeOK
<1>8. HistoryInv'
  BY <1>1 DEF HistoryInv
<1>9. ProcessInv'
  BY <1>1 DEF WatchmanInv, ProcessInv
<1>10. Running => /\ \A p \in Path : seen[p] \subseteq seen'[p]
                  /\ reals \subseteq reals'
  BY <1>1
<1>11. MemoryInv'
  <2>1. CASE Running
    <3>1. RowsInv'
      BY <1>1, <1>10, <2>1 DEF WatchmanInv, MemoryInv, RowsInv, Recent
    <3>2. LinksInv'
      BY <1>1, <1>10, <2>1 DEF WatchmanInv, MemoryInv, LinksInv
    <3>3. LookupInv'
      <4>1. \A w \in Worker : job[w].path \in Path
        BY DEF WatchmanInv, WatchmanTypeOK, Job
      <4>2. QED
        BY <1>1, <1>10, <2>1, <4>1 DEF WatchmanInv, MemoryInv, LookupInv
    <3>4. QED
      BY <3>1, <3>2, <3>3 DEF MemoryInv
  <2>2. CASE ~Running
    <3>1. entries' = NoEntries /\ symlinks' = NoLinks /\ phase' # "truncated" /\ job' = NoJobs
      BY <1>1, <2>2 DEF WatchmanInv, ProcessInv, Running
    <3>2. \A w \in Worker : job'[w] = IdleJob
      BY <3>1, IdleTypes
    <3>3. LookupInv'
      BY <3>2, IdleTypes DEF LookupInv
    <3>4. QED
      BY <3>1, <3>3, Rows DEF MemoryInv, RowsInv, Recent, LinksInv
  <2>3. QED
    BY <2>1, <2>2
<1>12. ClockInv'
  <2>1. SUFFICES ASSUME Running, last.status # "foreign",
                        NEW p \in Path, p \notin last.changed, p # n
                 PROVE  /\ p \in reals' => link'[p] = p
                        /\ link'[p] = p => seen'[p] = {fs'[p]}
    BY <1>1, <1>4 DEF ClockInv
  <2>2. /\ p \in reals => link[p] = p
        /\ link[p] = p => seen[p] = {fs[p]}
    BY <2>1 DEF WatchmanInv, ClockInv
  <2>3. p \in reals' => link'[p] = p
    BY <1>1, <2>1, <2>2 DEF Regular
  <2>4. ASSUME link'[p] = p PROVE seen'[p] = {fs'[p]}
    <3>1. View(p)' = fs'[p] /\ link[p] = p /\ fs'[p] = fs[p]
      BY <2>1, <2>4 DEF View
    <3>2. QED
      BY <1>1, <2>1, <2>2, <3>1
  <2>5. QED
    BY <2>3, <2>4
<1>13. StartInv'
  BY <1>1, <1>3, <1>5 DEF WatchmanInv, FileInv, StartInv, Readable
<1>14. DiskInv' /\ DiskSound'
  BY <1>5 DEF WatchmanInv, FileInv, DiskInv, DiskSound
<1>15. QED
  BY <1>7, <1>8, <1>9, <1>11, <1>12, <1>13, <1>14 DEF WatchmanInv, FileInv

LEMMA EditKeeps ==
    ASSUME ~Dangling, WatchmanInv, NEW p \in Path, NEW c \in Content \cup {Absent}, Edit(p, c)
    PROVE  WatchmanInv'
<1>1. /\ link[p] = p /\ link' = link /\ fs' = [fs EXCEPT ![p] = c] /\ Change({p})
      /\ c = Absent => \A q \in Path \ {p} : link[q] # p
      /\ fs \in [Path -> Content \cup {Absent}] /\ link \in [Path -> Path]
  BY DEF Edit, WatchmanInv, WatchmanTypeOK
<1>2. /\ fs' \in [Path -> Content \cup {Absent}]
      /\ fs'[p] = c /\ \A q \in Path : q # p => fs'[q] = fs[q]
  BY <1>1
<1>3. FilesInv'
  <2>1. SUFFICES ASSUME NEW q \in Path, link[q] # q
                 PROVE  /\ q \in Link /\ link[q] \notin Link /\ fs'[q] = Absent
                        /\ View(q)' # Absent
    BY <1>1 DEF FilesInv
  <2>2. q # p /\ q \in Link /\ link[q] \notin Link /\ fs[q] = Absent /\ View(q) # Absent
    BY <1>1, <2>1 DEF WatchmanInv, FilesInv
  <2>3. View(q)' # Absent
    BY <1>1, <1>2, <2>2 DEF View
  <2>4. QED
    BY <1>2, <2>2, <2>3
<1>4. QED
  BY <1>1, <1>2, <1>3, ChangeKeeps

LEMMA RelinkKeeps ==
    ASSUME ~Dangling, WatchmanInv, NEW p \in Path, NEW q \in Path, Relink(p, q)
    PROVE  WatchmanInv'
<1>1. p \in Link /\ (q # p => q \notin Link /\ fs[q] # Absent)
  BY DEF Relink
<1>2. /\ fs \in [Path -> Content \cup {Absent}] /\ link \in [Path -> Path]
      /\ link' = [link EXCEPT ![p] = q] /\ Change({p})
  BY DEF Relink, WatchmanInv, WatchmanTypeOK
<1>3. PICK c \in IF q = p THEN Content ELSE {Absent} : fs' = [fs EXCEPT ![p] = c]
  BY DEF Relink
<1>4. /\ fs' \in [Path -> Content \cup {Absent}] /\ link' \in [Path -> Path]
      /\ fs'[p] = c /\ link'[p] = q
      /\ \A r \in Path : r # p => fs'[r] = fs[r] /\ link'[r] = link[r]
  BY <1>2, <1>3
<1>5. FilesInv'
  <2>1. SUFFICES ASSUME NEW r \in Path, link'[r] # r
                 PROVE  /\ r \in Link /\ link'[r] \notin Link /\ fs'[r] = Absent
                        /\ View(r)' # Absent
    BY DEF FilesInv
  <2>2. CASE r = p
    <3>1. q # p /\ c = Absent /\ link'[r] = q
      BY <1>3, <1>4, <2>1, <2>2
    <3>2. fs'[q] = fs[q] /\ fs'[r] = Absent
      BY <1>4, <2>2, <3>1
    <3>3. View(r)' = fs[q]
      BY <3>1, <3>2 DEF View
    <3>4. QED
      BY <1>1, <2>2, <3>1, <3>2, <3>3
  <2>3. CASE r # p
    <3>1. r \in Link /\ link[r] \notin Link /\ fs[r] = Absent /\ View(r) # Absent
      BY <1>4, <2>1, <2>3 DEF WatchmanInv, FilesInv
    <3>2. link'[r] = link[r] /\ fs'[r] = fs[r]
      BY <1>4, <2>3
    <3>3. link[r] \in Path
      BY <1>2
    <3>4. View(r)' = View(r)
      BY <1>1, <1>4, <3>1, <3>2, <3>3 DEF View
    <3>5. QED
      BY <3>1, <3>2, <3>4
  <2>4. QED
    BY <2>2, <2>3
<1>6. QED
  BY <1>2, <1>4, <1>5, ChangeKeeps

\* A restarted daemon does not know the clocks of the one before it.
LEMMA DaemonRestartKeeps == ASSUME WatchmanInv, DaemonRestart PROVE WatchmanInv'
<1>1. /\ UNCHANGED <<fs, link, build, phase, entries, symlinks, job, snap, seen, reals>>
      /\ watcher' = Outdate(watcher) /\ last' = Outdate(last)
      /\ disk' = [disk EXCEPT !.clock = Outdate(@)]
      /\ Running' = Running
      /\ \A p \in Path : View(p)' = View(p)
      /\ Regular' = Regular
  BY DEF DaemonRestart, files, history, Running, View, Regular
<1>2. /\ watcher \in Clock /\ last \in Clock /\ disk \in DiskFile /\ disk.clock \in Clock
  BY DEF WatchmanInv, WatchmanTypeOK, DiskFile
<1>3. /\ watcher' \in Clock /\ watcher'.status # "known"
      /\ watcher'.status = "foreign" \/ watcher' = watcher
  BY <1>1, <1>2, ClockSteps
<1>4. last' \in Clock /\ (last'.status = "foreign" \/ last' = last)
  BY <1>1, <1>2, ClockSteps
<1>5. /\ disk' \in DiskFile /\ disk'.status = disk.status /\ disk'.version = disk.version
      /\ disk'.entries = disk.entries
      /\ disk'.clock.status = "foreign" \/ disk'.clock = disk.clock
  <2>1. /\ Outdate(disk.clock) \in Clock
        /\ Outdate(disk.clock).status = "foreign" \/ Outdate(disk.clock) = disk.clock
    BY <1>2, ClockSteps
  <2>2. QED
    BY <1>1, <1>2, <2>1 DEF DiskFile
<1>6. WatchmanTypeOK'
  BY <1>1, <1>3, <1>4, <1>5 DEF WatchmanInv, WatchmanTypeOK
<1>7. FilesInv' /\ HistoryInv' /\ ProcessInv'
  BY <1>1 DEF WatchmanInv, FilesInv, HistoryInv, ProcessInv
<1>8. MemoryInv'
  BY <1>1 DEF WatchmanInv, MemoryInv, RowsInv, Recent, LinksInv, LookupInv
<1>9. ClockInv'
  BY <1>1, <1>4 DEF WatchmanInv, ClockInv
<1>10. FileInv'
  BY <1>1, <1>3, <1>5 DEF WatchmanInv, FileInv, StartInv, DiskInv, DiskSound
<1>11. QED
  BY <1>6, <1>7, <1>8, <1>9, <1>10 DEF WatchmanInv

\* The steps that leave the files, the daemon and the history alone.
LEMMA StaysReal ==
    ASSUME WatchmanInv, UNCHANGED <<fs, link, seen, reals>>
    PROVE  /\ FilesInv' /\ Regular' = Regular /\ \A p \in Path : View(p)' = View(p)
           /\ Running' \/ ~Running => HistoryInv'
<1>1. FilesInv' /\ Regular' = Regular /\ \A p \in Path : View(p)' = View(p)
  BY DEF WatchmanInv, FilesInv, View, Regular
<1>2. HistoryInv
  BY DEF WatchmanInv
<1>3. ASSUME Running' \/ ~Running PROVE HistoryInv'
  BY <1>1, <1>2, <1>3 DEF HistoryInv
<1>4. QED
  BY <1>1, <1>3

LEMMA OtherPersistKeeps == ASSUME WatchmanInv, OtherPersist PROVE WatchmanInv'
<1>1. /\ phase = "down" /\ disk' = [NoDisk EXCEPT !.status = "other"]
      /\ UNCHANGED <<fs, link, build, phase, watcher, last, entries, symlinks, job, snap,
                     seen, reals>>
  BY DEF OtherPersist, files, cache, history
<1>2. disk' \in DiskFile /\ disk'.status = "other"
  BY <1>1, ClockTypes DEF DiskFile
<1>3. WatchmanTypeOK'
  BY <1>1, <1>2 DEF WatchmanInv, WatchmanTypeOK
<1>4. FilesInv' /\ HistoryInv'
  BY <1>1, StaysReal DEF Running
<1>5. ProcessInv' /\ ClockInv'
  BY <1>1 DEF WatchmanInv, ProcessInv, ClockInv, Running
<1>6. MemoryInv'
  BY <1>1 DEF WatchmanInv, MemoryInv, RowsInv, Recent, LinksInv, LookupInv
<1>7. FileInv'
  BY <1>1, <1>2 DEF FileInv, StartInv, DiskInv, DiskSound
<1>8. QED
  BY <1>3, <1>4, <1>5, <1>6, <1>7 DEF WatchmanInv

------------------------------------------------------------------------------
(* The life of a process. *)

LEMMA StartWatcherKeeps ==
    ASSUME QuietStart, WatchmanInv, NEW b \in Build, StartWatcher(b)
    PROVE  WatchmanInv'
<1>1. /\ phase = "down" /\ phase' = "started" /\ build' = b /\ watcher' = Now
      /\ Readable(b) /\ disk.clock.status = "blank" => disk.clock.changed = {}
      /\ UNCHANGED <<fs, link, last, entries, symlinks, job, snap, disk, seen, reals>>
  BY DEF StartWatcher, files, cache, history
<1>2. WatchmanTypeOK'
  BY <1>1, ClockTypes DEF WatchmanInv, WatchmanTypeOK, Phase
<1>3. FilesInv' /\ HistoryInv'
  BY <1>1, StaysReal DEF Running
<1>4. ProcessInv' /\ ClockInv'
  BY <1>1, NoBuildAssumption DEF WatchmanInv, ProcessInv, ClockInv, Running
<1>5. MemoryInv'
  <2>1. \A p \in Path, k \in Key : entries[p][k] = None
    BY <1>1, Rows DEF WatchmanInv, ProcessInv, Running
  <2>2. QED
    BY <1>1, <2>1 DEF WatchmanInv, MemoryInv, RowsInv, Recent, LinksInv, LookupInv
<1>6. FileInv'
  <2>1. StartInv'
    BY <1>1 DEF StartInv, Readable, Now
  <2>2. QED
    BY <1>1, <2>1 DEF WatchmanInv, FileInv, DiskInv, DiskSound
<1>7. QED
  BY <1>2, <1>3, <1>4, <1>5, <1>6 DEF WatchmanInv

\* What read() makes of the cache file: rows the daemon vouches for.
LEMMA ReadRows ==
    ASSUME WatchmanInv, phase = "started", Readable(build), watcher.status = "known"
    PROVE  LET rows == IF Since.status = "foreign" THEN NoEntries
                       ELSE Evict(disk.entries, Since.changed)
           IN  rows \in Entries /\ Recent(rows)
<1>1. CASE Since.status = "foreign"
  BY <1>1, Rows DEF Recent
<1>2. CASE Since.status # "foreign"
  <2> DEFINE rows == Evict(disk.entries, Since.changed)
  <2>1. disk.clock.status # "foreign" /\ disk.clock.changed \subseteq Since.changed
    BY <1>2 DEF Since, WatchmanInv, FileInv, StartInv
  <2>2. disk.status = "written" /\ disk.entries \in Entries
    BY DEF WatchmanInv, WatchmanTypeOK, DiskFile, Readable
  <2>3. /\ rows \in Entries
        /\ \A p \in Path, k \in Key :
               rows[p][k] # None => p \notin Since.changed /\ rows[p][k] = disk.entries[p][k]
    BY <2>2, EvictRows
  <2> HIDE DEF rows
  <2>4. ASSUME NEW p \in Path, NEW k \in Key, rows[p][k] # None
        PROVE  /\ rows[p][k].key = k
               /\ rows[p][k].content \in seen[p]
               /\ Stamped => rows[p][k].build = build
               /\ p \in reals
    <3>1. p \notin disk.clock.changed /\ rows[p][k] = disk.entries[p][k]
      BY <2>1, <2>3, <2>4
    <3>2. link[p] = p /\ rows[p][k].content = fs[p]
      BY <2>1, <2>2, <2>4, <3>1 DEF WatchmanInv, FileInv, DiskSound
    <3>3. rows[p][k].key = k /\ (Stamped => rows[p][k].build = disk.version)
      BY <2>2, <2>4, <3>1 DEF WatchmanInv, FileInv, DiskInv
    <3>4. View(p) = fs[p] /\ p \in Regular
      BY <3>2 DEF View, Regular
    <3>5. fs[p] \in seen[p] /\ p \in reals
      BY <3>4 DEF WatchmanInv, HistoryInv
    <3>6. Stamped => disk.version = build
      BY DEF Readable
    <3>7. QED
      BY <3>2, <3>3, <3>5, <3>6
  <2>5. Recent(rows)
    BY <2>4 DEF Recent
  <2>6. QED
    BY <1>2, <2>3, <2>5 DEF rows
<1>3. QED
  BY <1>1, <1>2

LEMMA ReadKeeps == ASSUME WatchmanInv, Read PROVE WatchmanInv'
<1>1. /\ phase = "started" /\ phase' = "run" /\ watcher' = Blank
      /\ UNCHANGED <<fs, link, build, job, snap, disk, seen, reals>>
  BY DEF Read, files, history
<1>2. PICK rows \in Entries, clock \in {Blank, Now} : Recent(rows) /\ Loaded(rows, clock)
  <2>1. CASE Loaded(NoEntries, Blank)
    BY <2>1, Rows DEF Recent
  <2>2. CASE ~Loaded(NoEntries, Blank)
    BY <1>1, <2>2, ReadRows DEF Read
  <2>3. QED
    BY <2>1, <2>2
<1>3. /\ entries' = rows /\ last' = clock /\ last' \in Clock
      /\ last'.changed = {}
      /\ symlinks' = [p \in Path |-> IF rows[p] # EmptyRow THEN p ELSE None]
  BY <1>2, ClockTypes DEF Loaded, Blank, Now
<1>4. WatchmanTypeOK'
  BY <1>1, <1>2, <1>3, ClockTypes DEF WatchmanInv, WatchmanTypeOK, Phase, Links
<1>5. FilesInv' /\ Regular' = Regular /\ \A p \in Path : View(p)' = View(p)
  BY <1>1, StaysReal
<1>6. seen = [p \in Path |-> {View(p)}] /\ reals = Regular
  BY <1>1 DEF WatchmanInv, HistoryInv, Running
<1>7. HistoryInv'
  BY <1>1, <1>5, <1>6 DEF HistoryInv, Running
<1>8. ProcessInv'
  BY <1>1 DEF WatchmanInv, ProcessInv, Running
<1>9. MemoryInv'
  <2>1. RowsInv'
    BY <1>1, <1>2, <1>3 DEF RowsInv, Recent
  <2>2. LinksInv'
    <3>1. ASSUME NEW p \in Path, symlinks'[p] # None PROVE symlinks'[p] \in reals'
      <4>1. rows[p] # EmptyRow /\ symlinks'[p] = p /\ rows[p] \in Row
        BY <1>2, <1>3, <3>1 DEF Entries
      <4>2. PICK k \in Key : rows[p][k] # None
        BY <4>1 DEF Row, EmptyRow
      <4>3. QED
        BY <1>1, <1>2, <4>1, <4>2 DEF Recent
    <3>2. QED
      BY <3>1 DEF LinksInv
  <2>3. LookupInv'
    BY <1>1 DEF WatchmanInv, MemoryInv, LookupInv
  <2>4. QED
    BY <2>1, <2>2, <2>3 DEF MemoryInv
<1>10. ClockInv'
  BY <1>1, <1>6 DEF ClockInv, Regular, View
<1>11. FileInv'
  BY <1>1 DEF WatchmanInv, FileInv, StartInv, DiskInv, DiskSound
<1>12. QED
  BY <1>4, <1>5, <1>7, <1>8, <1>9, <1>10, <1>11 DEF WatchmanInv

\* The copy that is written next holds what the maps hold.
LEMMA PersistKeeps == ASSUME WatchmanInv, Persist PROVE WatchmanInv'
<1>1. /\ phase = "run" /\ phase' = "truncated" /\ snap' = entries
      /\ disk' = [NoDisk EXCEPT !.status = "partial"]
      /\ UNCHANGED <<fs, link, build, watcher, last, entries, symlinks, job, seen, reals>>
  BY DEF Persist, files, cache, history
<1>2. disk' \in DiskFile /\ disk'.status = "partial"
  BY <1>1, ClockTypes DEF DiskFile
<1>3. WatchmanTypeOK'
  BY <1>1, <1>2 DEF WatchmanInv, WatchmanTypeOK, Phase
<1>4. FilesInv' /\ HistoryInv'
  BY <1>1, StaysReal DEF Running
<1>5. ProcessInv' /\ ClockInv'
  BY <1>1 DEF WatchmanInv, ProcessInv, ClockInv, Running
<1>6. MemoryInv'
  BY <1>1 DEF WatchmanInv, MemoryInv, RowsInv, Recent, LinksInv, LookupInv
<1>7. FileInv'
  BY <1>1, <1>2 DEF FileInv, StartInv, DiskInv, DiskSound
<1>8. QED
  BY <1>3, <1>4, <1>5, <1>6, <1>7 DEF WatchmanInv

\* Whatever ends the process, nothing of its memory counts any more.
LEMMA LostKeeps ==
    ASSUME WatchmanInv, Lost, disk' \in DiskFile, DiskInv', DiskSound'
    PROVE  WatchmanInv'
<1>1. /\ phase' = "down" /\ build' = NoBuild /\ watcher' = Blank /\ last' = Blank
      /\ entries' = NoEntries /\ symlinks' = NoLinks /\ job' = NoJobs /\ snap' = NoEntries
      /\ seen' = [p \in Path |-> {View(p)}] /\ reals' = Regular
      /\ UNCHANGED <<fs, link>>
  BY DEF Lost, files
<1>2. WatchmanTypeOK'
  BY <1>1, Rows, IdleTypes, ClockTypes
  DEF WatchmanInv, WatchmanTypeOK, Phase, Regular, View
<1>3. FilesInv' /\ HistoryInv'
  BY <1>1 DEF WatchmanInv, FilesInv, HistoryInv, View, Regular
<1>4. ProcessInv' /\ ClockInv' /\ StartInv'
  BY <1>1 DEF ProcessInv, ClockInv, StartInv, Running
<1>5. MemoryInv'
  <2>1. \A w \in Worker : job'[w] = IdleJob
    BY <1>1, IdleTypes
  <2>2. LookupInv'
    BY <2>1, IdleTypes DEF LookupInv
  <2>3. QED
    BY <1>1, <2>2, Rows DEF MemoryInv, RowsInv, Recent, LinksInv
<1>6. QED
  BY <1>2, <1>3, <1>4, <1>5 DEF WatchmanInv, FileInv

LEMMA WriteStateKeeps == ASSUME WatchmanInv, WriteState PROVE WatchmanInv'
<1>1. /\ phase = "truncated" /\ Lost /\ UNCHANGED <<fs, link>>
      /\ disk' = [status |-> "written", version |-> build, entries |-> snap, clock |-> last]
      /\ build \in Build \cup {NoBuild} /\ snap \in Entries /\ last \in Clock
  BY DEF WriteState, Lost, files, WatchmanInv, WatchmanTypeOK
<1>2. /\ disk' \in DiskFile /\ disk'.version = build
      /\ disk'.entries = snap /\ disk'.clock = last
  BY <1>1 DEF DiskFile
<1>3. Recent(snap) /\ Running
  BY <1>1 DEF WatchmanInv, MemoryInv, RowsInv, Running
<1>4. DiskInv'
  BY <1>2, <1>3 DEF DiskInv, Recent
<1>5. DiskSound'
  <2>1. SUFFICES ASSUME last.status # "foreign", NEW p \in Path, p \notin last.changed,
                        NEW k \in Key, snap[p][k] # None
                 PROVE  link[p] = p /\ snap[p][k].content = fs[p]
    BY <1>1, <1>2 DEF DiskSound
  <2>2. p \in reals /\ snap[p][k].content \in seen[p]
    BY <1>3, <2>1 DEF Recent
  <2>3. link[p] = p /\ seen[p] = {fs[p]}
    BY <1>3, <2>1, <2>2 DEF WatchmanInv, ClockInv
  <2>4. QED
    BY <2>2, <2>3
<1>6. QED
  BY <1>1, <1>2, <1>4, <1>5, LostKeeps

LEMMA CrashKeeps == ASSUME WatchmanInv, Crash PROVE WatchmanInv'
<1>1. Lost /\ UNCHANGED <<fs, link, disk>>
  BY DEF Crash, Lost, files
<1>2. disk' \in DiskFile /\ DiskInv' /\ DiskSound'
  BY <1>1 DEF WatchmanInv, WatchmanTypeOK, FileInv, DiskInv, DiskSound
<1>3. QED
  BY <1>1, <1>2, LostKeeps

------------------------------------------------------------------------------
(* The steps of a lookup. *)

\* LookupInv, for one lookup.
Sound(j) ==
    /\ j.pc = "idle" => j = IdleJob
    /\ j.pc \in {"resolve", "load", "readFile"} => j.content = Absent
    /\ j.pc \notin {"unresolved", "done"} => j.res = None
    /\ j.pc \in {"load", "readFile", "recheck", "compute"} => j.path \in reals
    /\ j.pc \in {"recheck", "compute"} => j.content \in Content \cap seen[j.path]

\* What no lookup changes.
Aside == <<fs, link, build, phase, watcher, last, snap, disk, seen, reals>>

\* The lookup of one worker goes on.
LEMMA LookupStep ==
    ASSUME WatchmanInv, Running, UNCHANGED Aside, NEW w \in Worker, NEW j \in Job, Sound(j),
           job' = [job EXCEPT ![w] = j],
           entries' \in Entries, Recent(entries'),
           symlinks' \in Links, \A p \in Path : symlinks'[p] # None => symlinks'[p] \in reals
    PROVE  WatchmanInv'
<1>1. /\ UNCHANGED <<fs, link, build, phase, watcher, last, snap, disk, seen, reals>>
      /\ Running' = Running
  BY DEF Aside, Running
<1>2. job \in [Worker -> Job]
  BY DEF WatchmanInv, WatchmanTypeOK
<1>3. /\ job' \in [Worker -> Job] /\ job'[w] = j
      /\ \A u \in Worker : u # w => job'[u] = job[u]
  BY <1>2
<1>4. WatchmanTypeOK'
  BY <1>1, <1>3 DEF WatchmanInv, WatchmanTypeOK
<1>5. FilesInv' /\ HistoryInv'
  BY <1>1, StaysReal
<1>6. ProcessInv' /\ ClockInv' /\ FileInv'
  BY <1>1
  DEF WatchmanInv, ProcessInv, ClockInv, FileInv, StartInv, DiskInv, DiskSound, Readable
<1>7. LookupInv'
  <2>1. \A u \in Worker : Sound(job'[u])
    <3>1. \A u \in Worker : Sound(job[u])
      BY DEF WatchmanInv, MemoryInv, LookupInv, Sound
    <3>2. QED
      BY <1>3, <3>1
  <2>2. QED
    BY <1>1, <2>1 DEF LookupInv, Sound
<1>8. RowsInv' /\ LinksInv'
  BY <1>1 DEF WatchmanInv, MemoryInv, RowsInv, Recent, LinksInv
<1>9. QED
  BY <1>4, <1>5, <1>6, <1>7, <1>8 DEF WatchmanInv, MemoryInv

\* What a step of a lookup may take for granted.
LEMMA LookupFacts ==
    ASSUME WatchmanInv, NEW w \in Worker
    PROVE  /\ job \in [Worker -> Job] /\ job[w] \in Job /\ Sound(job[w])
           /\ job[w].pc # "idle" => Running
           /\ entries \in Entries /\ Recent(entries)
           /\ symlinks \in Links /\ \A p \in Path : symlinks[p] # None => symlinks[p] \in reals
<1>1. job \in [Worker -> Job] /\ entries \in Entries /\ symlinks \in Links
  BY DEF WatchmanInv, WatchmanTypeOK
<1>2. Sound(job[w]) /\ Recent(entries) /\ LinksInv
  BY DEF WatchmanInv, MemoryInv, LookupInv, Sound, RowsInv
<1>3. job[w].pc # "idle" => Running
  BY IdleTypes DEF WatchmanInv, ProcessInv
<1>4. QED
  BY <1>1, <1>2, <1>3 DEF LinksInv

\* A step that changes the lookup only.
LEMMA JobStep ==
    ASSUME WatchmanInv, Running, UNCHANGED <<Aside, entries, symlinks>>,
           NEW w \in Worker, NEW j \in Job, Sound(j), job' = [job EXCEPT ![w] = j]
    PROVE  WatchmanInv'
<1>1. UNCHANGED Aside /\ entries' = entries /\ symlinks' = symlinks
  BY DEF Aside
<1>2. QED
  BY <1>1, LookupFacts, LookupStep

LEMMA CallKeeps ==
    ASSUME WatchmanInv, NEW w \in Worker, NEW p \in Path, NEW k \in Key, Call(w, p, k)
    PROVE  WatchmanInv'
<1> DEFINE j == [IdleJob EXCEPT !.pc = "resolve", !.name = p, !.key = k]
<1>1. /\ Running /\ UNCHANGED <<Aside, entries, symlinks>>
      /\ job' = [job EXCEPT ![w] = j]
  BY DEF Call, Running, Aside, files, cache, history
<1>2. j \in Job /\ j.pc = "resolve" /\ j.content = Absent /\ j.res = None
  BY IdleTypes DEF Job, Stage
<1> HIDE DEF j
<1>3. Sound(j)
  BY <1>2 DEF Sound
<1>4. QED
  BY <1>1, <1>2, <1>3, JobStep

LEMMA ConsumeKeeps == ASSUME WatchmanInv, NEW w \in Worker, Consume(w) PROVE WatchmanInv'
<1>1. /\ Running /\ UNCHANGED <<Aside, entries, symlinks>>
      /\ job' = [job EXCEPT ![w] = IdleJob]
  BY DEF Consume, Running, Aside, files, cache, history
<1>2. IdleJob \in Job /\ Sound(IdleJob)
  BY IdleTypes DEF Sound
<1>3. QED
  BY <1>1, <1>2, JobStep

\* A resolved name leads to a name that has been a real path.
LEMMA ResolveKeeps ==
    ASSUME WatchmanInv, NEW w \in Worker, Resolve(w)
    PROVE  WatchmanInv'
<1> DEFINE p == job[w].name
           r == Target(p)
<1>1. /\ job[w].pc = "resolve" /\ UNCHANGED Aside /\ entries' = entries
      /\ job[w] \in Job /\ p \in Path /\ Sound(job[w]) /\ Running
      /\ job \in [Worker -> Job] /\ Recent(entries) /\ entries \in Entries
      /\ symlinks \in Links /\ \A q \in Path : symlinks[q] # None => symlinks[q] \in reals
  BY LookupFacts DEF Resolve, Aside, files, history, Job
<1>2. ASSUME NEW t \in Path, t \in reals
      PROVE  LET j == [job[w] EXCEPT !.pc = "load", !.path = t] IN j \in Job /\ Sound(j)
  BY <1>1, <1>2 DEF Job, Stage, Sound
<1>3. CASE symlinks[p] # None /\ UNCHANGED symlinks
           /\ job' = [job EXCEPT ![w].pc = "load", ![w].path = symlinks[p]]
  <2>1. symlinks[p] \in Path /\ symlinks[p] \in reals
    BY <1>1, <1>3 DEF Links
  <2>2. job' = [job EXCEPT ![w] = [job[w] EXCEPT !.pc = "load", !.path = symlinks[p]]]
    BY <1>1, <1>3
  <2>3. QED
    BY <1>1, <1>2, <1>3, <2>1, <2>2, LookupStep
<1>4. CASE symlinks[p] = None /\ UNCHANGED symlinks
           /\ job' = [job EXCEPT ![w].pc = "unresolved", ![w].res = Err]
  <2> DEFINE j == [job[w] EXCEPT !.pc = "unresolved", !.res = Err]
  <2>1. job' = [job EXCEPT ![w] = j]
    BY <1>1, <1>4
  <2>2. j \in Job /\ j.pc = "unresolved"
    BY <1>1 DEF Job, Stage
  <2> HIDE DEF j
  <2>3. Sound(j)
    BY <2>2 DEF Sound
  <2>4. QED
    BY <1>1, <1>4, <2>1, <2>2, <2>3, LookupStep
<1>5. CASE /\ symlinks[p] = None
           /\ View(p) # Absent \/ p \notin Regular
           /\ symlinks' = [q \in Path |-> IF q = p \/ (q = r /\ symlinks[r] = None)
                                          THEN r ELSE symlinks[q]]
           /\ job' = [job EXCEPT ![w].pc = "load", ![w].path = symlinks'[r]]
  <2>1. View(p) # Absent
    BY <1>1, <1>5 DEF WatchmanInv, FilesInv, Regular
  <2>2. r \in Regular /\ r \in Path
    BY <1>1, <2>1, RealPath DEF Target, Regular
  <2>3. r \in reals /\ None \notin Path
    BY <2>2, NoPathAssumption DEF WatchmanInv, HistoryInv
  <2> HIDE DEF p, r
  <2>4. symlinks' \in Links /\ \A q \in Path : symlinks'[q] # None => symlinks'[q] \in reals
    BY <1>1, <1>5, <2>2, <2>3 DEF Links
  <2>5. symlinks'[r] \in Path /\ symlinks'[r] \in reals
    BY <1>1, <1>5, <2>2, <2>3 DEF Links
  <2> DEFINE t == symlinks'[r]
  <2>6. job' = [job EXCEPT ![w] = [job[w] EXCEPT !.pc = "load", !.path = t]]
    <3>1. job' = [job EXCEPT ![w].pc = "load", ![w].path = t] /\ job \in [Worker -> Job]
      BY <1>1, <1>5
    <3> HIDE DEF t
    <3>2. QED
      BY <3>1
  <2>7. QED
    BY <1>1, <1>2, <2>4, <2>5, <2>6, LookupStep
<1>6. QED
  BY <1>3, <1>4, <1>5 DEF Resolve

\* A hit ends a lookup.
LEMMA HitKeeps ==
    ASSUME WatchmanInv, Running, UNCHANGED Aside, NEW w \in Worker, NEW v \in Value,
           Hit(w, v), entries' \in Entries, Recent(entries'), symlinks' = symlinks
    PROVE  WatchmanInv'
<1> DEFINE j == [job[w] EXCEPT !.pc = "done", !.content = v.content, !.res = v]
<1>1. job' = [job EXCEPT ![w] = j]
  BY DEF Hit
<1>2. j \in Job /\ j.pc = "done"
  BY LookupFacts DEF Job, Stage, Value
<1> HIDE DEF j
<1>3. Sound(j)
  BY <1>2 DEF Sound
<1>4. QED
  BY <1>1, <1>2, <1>3, LookupFacts, LookupStep

LEMMA ReplyKeeps ==
    ASSUME WatchmanInv, Running, UNCHANGED <<Aside, entries, symlinks>>,
           NEW w \in Worker, Reply(w, Err)
    PROVE  WatchmanInv'
<1> DEFINE j == [job[w] EXCEPT !.pc = "done", !.res = Err]
<1>1. job' = [job EXCEPT ![w] = j]
  BY LookupFacts DEF Reply
<1>2. j \in Job /\ j.pc = "done"
  BY LookupFacts DEF Job, Stage
<1> HIDE DEF j
<1>3. Sound(j)
  BY <1>2 DEF Sound
<1>4. QED
  BY <1>1, <1>2, <1>3, JobStep

\* Load and Recheck: a value, or on to the next stage.
LEMMA LookKeeps ==
    ASSUME WatchmanInv, NEW w \in Worker, Load(w) \/ Recheck(w)
    PROVE  WatchmanInv'
<1> DEFINE v == entries[job[w].path][job[w].key]
           next == IF job[w].pc = "load" THEN "readFile" ELSE "compute"
<1>1. /\ job[w].pc \in {"load", "recheck"}
      /\ UNCHANGED <<Aside, entries, symlinks>> /\ UNCHANGED Aside
      /\ entries' = entries /\ symlinks' = symlinks
      /\ (v # None /\ Hit(w, v)) \/ job' = [job EXCEPT ![w].pc = next]
  BY DEF Load, Recheck, Aside, files, cache, history
<1>2. /\ Running /\ job[w] \in Job /\ Sound(job[w]) /\ entries \in Entries /\ Recent(entries)
  BY <1>1, LookupFacts
<1>3. CASE v # None /\ Hit(w, v)
  <2>1. v \in Value
    BY <1>2, <1>3 DEF Entries, Row, Job
  <2>2. QED
    BY <1>1, <1>2, <1>3, <2>1, HitKeeps
<1>4. CASE job' = [job EXCEPT ![w].pc = next]
  <2> DEFINE j == [job[w] EXCEPT !.pc = next]
  <2>1. job' = [job EXCEPT ![w] = j]
    BY <1>4
  <2>2. j \in Job /\ Sound(j)
    BY <1>1, <1>2 DEF Job, Stage, Sound
  <2>3. QED
    BY <1>1, <1>2, <2>1, <2>2, JobStep
<1>5. QED
  BY <1>1, <1>3, <1>4

LEMMA ReadFileKeeps == ASSUME WatchmanInv, NEW w \in Worker, ReadFile(w) PROVE WatchmanInv'
<1> DEFINE c == View(job[w].path)
<1>1. /\ job[w].pc = "readFile" /\ UNCHANGED <<Aside, entries, symlinks>>
      /\ Running /\ job[w] \in Job /\ Sound(job[w]) /\ job[w].path \in Path
  BY LookupFacts DEF ReadFile, Aside, files, cache, history, Job
<1>2. c \in seen[job[w].path] /\ c \in Content \cup {Absent}
  BY <1>1 DEF WatchmanInv, HistoryInv, WatchmanTypeOK, View
<1>3. CASE Reply(w, Err)
  BY <1>1, <1>3, ReplyKeeps
<1>4. CASE c # Absent /\ job' = [job EXCEPT ![w].pc = "recheck", ![w].content = c]
  <2> HIDE DEF c
  <2> DEFINE j == [job[w] EXCEPT !.pc = "recheck", !.content = c]
  <2>1. job' = [job EXCEPT ![w] = j]
    BY <1>4, LookupFacts
  <2>2. j \in Job /\ Sound(j)
    BY <1>1, <1>2, <1>4 DEF Job, Stage, Sound
  <2>3. QED
    BY <1>1, <2>1, <2>2, JobStep
<1>5. QED
  BY <1>3, <1>4 DEF ReadFile

LEMMA ComputeValueKeeps ==
    ASSUME WatchmanInv, NEW w \in Worker, ComputeValue(w)
    PROVE  WatchmanInv'
<1> DEFINE p == job[w].path
           k == job[w].key
           v == Compute(k, job[w].content, build)
<1>1. /\ job[w].pc = "compute" /\ UNCHANGED Aside /\ symlinks' = symlinks
      /\ entries' = StoreFirst(entries, p, k, v) /\ Hit(w, entries'[p][k])
      /\ Running /\ job[w] \in Job /\ Sound(job[w]) /\ p \in Path /\ k \in Key
      /\ entries \in Entries /\ Recent(entries)
  BY LookupFacts DEF ComputeValue, Aside, files, history, Job
<1>2. /\ job[w].content \in Content /\ job[w].content \in seen[p] /\ p \in reals
      /\ build \in Build
  BY <1>1 DEF Sound, WatchmanInv, ProcessInv, WatchmanTypeOK, Running
<1>3. /\ v \in Value /\ v.key = k /\ v.content = job[w].content /\ v.build = build
  BY <1>1, <1>2 DEF Compute, Value
<1> HIDE DEF p, k, v
<1>4. /\ entries' \in Entries
      /\ \A q \in Path, i \in Key : q # p \/ i # k => entries'[q][i] = entries[q][i]
      /\ entries'[p][k] = IF entries[p][k] = None THEN v ELSE entries[p][k]
  BY <1>1, <1>3, StoreFirstRow
<1>5. Recent(entries')
  BY <1>1, <1>2, <1>3, <1>4 DEF Recent
<1>6. entries'[p][k] \in Value
  BY <1>1, <1>3, <1>4 DEF Entries, Row
<1>7. QED
  BY <1>1, <1>4, <1>5, <1>6, HitKeeps

LEMMA LookupKeeps == ASSUME WatchmanInv, NEW w \in Worker, LoadOrStoreFile(w) PROVE WatchmanInv'
<1>1. CASE ComputeFails(w)
  <2>1. Running /\ UNCHANGED <<Aside, entries, symlinks>> /\ Reply(w, Err)
    BY <1>1, LookupFacts DEF ComputeFails, Aside, files, cache, history
  <2>2. QED
    BY <2>1, ReplyKeeps
<1>2. QED
  BY <1>1, ResolveKeeps, LookKeeps, ReadFileKeeps, ComputeValueKeeps DEF LoadOrStoreFile

------------------------------------------------------------------------------
(* The invariant holds. *)

LEMMA StutterKeeps == ASSUME WatchmanInv, UNCHANGED vars PROVE WatchmanInv'
<1>1. /\ UNCHANGED <<fs, link, build, phase, watcher, last, entries, symlinks, job, snap, disk>>
      /\ UNCHANGED <<seen, reals>> /\ Running' = Running
  BY DEF vars, Running
<1>2. FilesInv' /\ HistoryInv'
  BY <1>1, StaysReal
<1>3. WatchmanTypeOK' /\ ProcessInv' /\ ClockInv'
  BY <1>1 DEF WatchmanInv, WatchmanTypeOK, ProcessInv, ClockInv
<1>4. MemoryInv'
  BY <1>1 DEF WatchmanInv, MemoryInv, RowsInv, Recent, LinksInv, LookupInv
<1>5. FileInv'
  BY <1>1 DEF WatchmanInv, FileInv, StartInv, DiskInv, DiskSound, Readable
<1>6. QED
  BY <1>2, <1>3, <1>4, <1>5 DEF WatchmanInv

LEMMA WatchmanInductive ==
    ASSUME ~Dangling, QuietStart, WatchmanInv, [Next]_vars
    PROVE  WatchmanInv'
<1>1. CASE Environment
  BY <1>1, EditKeeps, RelinkKeeps, DaemonRestartKeeps, OtherPersistKeeps DEF Environment
<1>2. CASE \E b \in Build : StartWatcher(b)
  BY <1>2, StartWatcherKeeps
<1>3. CASE Read \/ Persist \/ WriteState \/ Crash
  BY <1>3, ReadKeeps, PersistKeeps, WriteStateKeeps, CrashKeeps
<1>4. CASE \E w \in Worker, p \in Path, k \in Key : Call(w, p, k)
  BY <1>4, CallKeeps
<1>5. CASE \E w \in Worker : LoadOrStoreFile(w) \/ Consume(w)
  BY <1>5, LookupKeeps, ConsumeKeeps
<1>6. CASE UNCHANGED vars
  BY <1>6, StutterKeeps
<1>7. QED
  BY <1>1, <1>2, <1>3, <1>4, <1>5, <1>6 DEF Next

\* The inductive invariant: the files and their history, what the maps and the
\* lookups of a process hold of it, what the daemon's clocks vouch for, and what
\* the cache file can be trusted for (watchman/cache.go).
THEOREM WatchmanInvariantHolds ==
    ASSUME ~Dangling, QuietStart PROVE Spec => []WatchmanInv
<1>1. WatchmanInv /\ [Next]_vars => WatchmanInv'
  BY WatchmanInductive
<1>2. Init => WatchmanInv
  BY InitWatchman
<1>3. QED
  BY <1>1, <1>2, PTL DEF Spec

\* The state keeps its type.
THEOREM WatchmanTypesHold == ASSUME ~Dangling, QuietStart PROVE Spec => []WatchmanTypeOK
<1>1. WatchmanInv => WatchmanTypeOK
  BY DEF WatchmanInv
<1>2. QED
  BY <1>1, WatchmanInvariantHolds, PTL

\* Whatever the cache serves without reading the file was computed from a content
\* the file has had since the process asked the daemon what changed, whatever
\* happened to files, links, daemon and cache file (cache.go:151).
THEOREM EntriesRecentHolds == ASSUME ~Dangling, QuietStart PROVE Spec => []EntriesRecent
<1>1. WatchmanInv => EntriesRecent
  BY DEF WatchmanInv, MemoryInv, RowsInv, Recent, EntriesRecent
<1>2. QED
  BY <1>1, WatchmanInvariantHolds, PTL

\* What the cache file holds for a name the daemon will not report as changed is
\* what the next process would compute from the file (cache.go:167).
THEOREM DiskSoundHolds == ASSUME ~Dangling, QuietStart PROVE Spec => []DiskSound
<1>1. WatchmanInv => DiskSound
  BY DEF WatchmanInv, FileInv
<1>2. QED
  BY <1>1, WatchmanInvariantHolds, PTL

\* Rows are kept under real paths only, the paths the daemon reports (cache.go:195).
THEOREM KeysAreRealHolds == ASSUME ~Dangling, QuietStart PROVE Spec => []KeysAreReal
<1>1. ASSUME WatchmanInv, NEW p \in Path, entries[p] # EmptyRow PROVE p \in reals
  <2>1. entries[p] \in Row
    BY <1>1 DEF WatchmanInv, WatchmanTypeOK, Entries
  <2>2. PICK k \in Key : entries[p][k] # None
    BY <1>1, <2>1 DEF Row, EmptyRow
  <2>3. QED
    BY <1>1, <2>2 DEF WatchmanInv, MemoryInv, RowsInv, Recent
<1>2. WatchmanInv => KeysAreReal
  BY <1>1 DEF KeysAreReal
<1>3. QED
  BY <1>2, WatchmanInvariantHolds, PTL

------------------------------------------------------------------------------
(* Refinement of ContentLookup, for stamped builds. *)

absFs == [p \in Path |-> View(p)]
absBuild == IF phase = "started" THEN NoBuild ELSE build
absCall == [w \in Worker |-> LookupCall(job[w])]

NoCall == [pc |-> "idle", path |-> AnyPath, key |-> IdleJob.key, content |-> Absent, res |-> None]

\* The caller sees a lookup from the moment its name is resolved.
Unseen == {"idle", "resolve", "unresolved"}
Called == {"load", "readFile", "recheck", "compute"}

LEMMA CallOf ==
    ASSUME NEW j
    PROVE  /\ j.pc \in Unseen => LookupCall(j) = NoCall
           /\ j.pc \in Called =>
                  LookupCall(j) = [pc |-> "called", path |-> j.path, key |-> j.key,
                                   res |-> j.res, content |-> Absent]
           /\ j.pc = "done" =>
                  LookupCall(j) = [pc |-> "done", path |-> j.path, key |-> j.key,
                                   res |-> j.res, content |-> j.content]
<1>1. /\ j.pc \in Unseen => LookupPc(j.pc) = "idle"
      /\ j.pc \in Called => LookupPc(j.pc) = "called"
      /\ j.pc = "done" => LookupPc(j.pc) = "done"
  BY DEF LookupPc, Unseen, Called
<1>2. QED
  BY <1>1 DEF LookupCall, NoCall, Called

LEMMA AbsNoCall ==
    /\ NoCall = [pc |-> "idle", path |-> CHOOSE p \in Path : TRUE,
                 key |-> CHOOSE k \in Key : TRUE, content |-> Absent, res |-> None]
    /\ NoCall.pc = "idle"
BY DEF NoCall, AnyPath, IdleJob

LEMMA WatchmanRefineInit == Init => Lookup!Init
<1> SUFFICES ASSUME Init PROVE Lookup!Init
  OBVIOUS
<1>1. \A w \in Worker : LookupCall(job[w]) = NoCall
  BY IdleTypes, CallOf DEF Init, Unseen
<1>2. absCall = [w \in Worker |-> NoCall]
  BY <1>1 DEF absCall
<1>3. /\ absFs \in [Path -> Content \cup {Absent}] /\ seen = [p \in Path |-> {absFs[p]}]
      /\ absBuild = NoBuild
  BY DEF Init, absFs, absBuild, View
<1>4. QED
  BY <1>2, <1>3, AbsNoCall
  DEF Lookup!Init, Lookup!IdleCall, absCall, absFs, absBuild

\* What a step sees of the lookup of one worker.
LEMMA CallStep ==
    ASSUME NEW w \in Worker, \A u \in Worker : u # w => job'[u] = job[u]
    PROVE  absCall' = [absCall EXCEPT ![w] = LookupCall(job'[w])]
BY DEF absCall

LEMMA CallSame ==
    ASSUME NEW w \in Worker, \A u \in Worker : u # w => job'[u] = job[u],
           LookupCall(job'[w]) = LookupCall(job[w])
    PROVE  absCall' = absCall
BY DEF absCall

LEMMA AbsFilesSame ==
    ASSUME UNCHANGED <<fs, link>>
    PROVE  absFs' = absFs
BY DEF absFs, View

\* A lookup answers at once, from a content in seen.
LEMMA AnswersAtOnce ==
    ASSUME WatchmanInv, UNCHANGED <<fs, link, build, phase, seen>>,
           NEW w \in Worker, \A u \in Worker : u # w => job'[u] = job[u],
           job[w].pc \in Called, job'[w].pc = "done",
           job'[w].path = job[w].path, job'[w].key = job[w].key,
           NEW c \in seen[job[w].path], NEW r,
           r = Err \/ (c # Absent /\ r = Compute(job[w].key, c, build)),
           job'[w].content = c, job'[w].res = r
    PROVE  Lookup!AnswerAtOnce(w)
<1>1. /\ absCall[w] = [pc |-> "called", path |-> job[w].path, key |-> job[w].key,
                       res |-> job[w].res, content |-> Absent]
      /\ LookupCall(job'[w]) = [pc |-> "done", path |-> job[w].path, key |-> job[w].key,
                                res |-> r, content |-> c]
  BY CallOf DEF absCall
<1> DEFINE q1 == [absCall[w] EXCEPT !.pc = "done"]
           q2 == [q1 EXCEPT !.content = c]
<1>2. q1 = [pc |-> "done", path |-> job[w].path, key |-> job[w].key,
            res |-> job[w].res, content |-> Absent]
  BY <1>1
<1> HIDE DEF q1
<1>3. q2 = [pc |-> "done", path |-> job[w].path, key |-> job[w].key,
            res |-> job[w].res, content |-> c]
  BY <1>2
<1> HIDE DEF q2
<1>4. LookupCall(job'[w]) = [q2 EXCEPT !.res = r]
  BY <1>1, <1>3
<1>5. absCall' = [absCall EXCEPT ![w].pc = "done", ![w].content = c, ![w].res = r]
  <2>1. absCall' = [absCall EXCEPT ![w] = [q2 EXCEPT !.res = r]]
    BY <1>4, CallStep
  <2>2. QED
    BY <2>1 DEF q2, q1, absCall
<1>6. absBuild = build /\ UNCHANGED <<absFs, seen, absBuild>>
  <2>1. Running
    BY IdleTypes DEF WatchmanInv, ProcessInv, Called
  <2>2. QED
    BY <2>1, AbsFilesSame DEF absBuild, Running
<1>7. r \in IF c = Absent THEN {Err} ELSE {Compute(job[w].key, c, build), Err}
  OBVIOUS
<1>8. r \in Lookup!Answers(absCall[w].key, c)
  BY <1>1, <1>6, <1>7 DEF Lookup!Answers, Lookup!Compute, Compute, absBuild
<1>9. \E d \in seen[absCall[w].path] : \E s \in Lookup!Answers(absCall[w].key, d) :
          absCall' = [absCall EXCEPT ![w].pc = "done", ![w].content = d, ![w].res = s]
  <2>1. c \in seen[absCall[w].path]
    BY <1>1
  <2>2. \E s \in Lookup!Answers(absCall[w].key, c) :
            absCall' = [absCall EXCEPT ![w].pc = "done", ![w].content = c, ![w].res = s]
    BY <1>5, <1>8
  <2>3. QED
    BY <2>1, <2>2
<1>10. absCall[w].pc = "called"
  BY <1>1
<1>11. QED
  BY <1>6, <1>9, <1>10 DEF Lookup!AnswerAtOnce, absCall, absFs, absBuild

\* A step of a lookup that its caller does not see.
Unobserved == UNCHANGED <<absFs, seen, absBuild, absCall>>

\* What stays the same in a step of a lookup.
LEMMA LookupAside ==
    ASSUME WatchmanInv, WatchmanInv', NEW w \in Worker, LoadOrStoreFile(w) \/ Consume(w)
    PROVE  /\ UNCHANGED <<fs, link, build, phase, seen>>
           /\ UNCHANGED <<absFs, absBuild>>
           /\ \A u \in Worker : u # w => job'[u] = job[u]
           /\ job[w] \in Job /\ job'[w] \in Job /\ Sound(job[w]) /\ Running
<1>1. /\ job \in [Worker -> Job] /\ job' \in [Worker -> Job]
  BY DEF WatchmanInv, WatchmanTypeOK
<1>2. UNCHANGED <<fs, link, build, phase, seen>>
  BY DEF LoadOrStoreFile, Resolve, Load, ReadFile, Recheck, ComputeValue, ComputeFails, Consume,
         files, history
<1>3. \A u \in Worker : u # w => job'[u] = job[u]
  BY <1>1
  DEF LoadOrStoreFile, Resolve, Load, ReadFile, Recheck, ComputeValue, ComputeFails, Consume,
      Hit, Reply
<1>4. job[w].pc # "idle"
  BY DEF LoadOrStoreFile, Resolve, Load, ReadFile, Recheck, ComputeValue, ComputeFails, Consume
<1>5. QED
  BY <1>1, <1>2, <1>3, <1>4, LookupFacts, AbsFilesSame DEF absBuild

LEMMA WatchmanRefineResolve ==
    ASSUME WatchmanInv, WatchmanInv', NEW w \in Worker, Resolve(w)
    PROVE  Unobserved \/ Lookup!Next
<1> DEFINE t == job'[w].path
           k == job[w].key
<1>1. /\ UNCHANGED <<fs, link, build, phase, seen>> /\ UNCHANGED <<absFs, absBuild>>
      /\ \A u \in Worker : u # w => job'[u] = job[u]
      /\ job[w] \in Job /\ job'[w] \in Job /\ Sound(job[w]) /\ Running /\ job[w].pc = "resolve"
      /\ job \in [Worker -> Job]
  BY LookupAside, LookupFacts DEF LoadOrStoreFile, Resolve
<1>2. /\ job'[w].key = k /\ job'[w].content = job[w].content
      /\ \/ job'[w].pc = "unresolved"
         \/ job'[w].pc = "load" /\ job'[w].res = job[w].res
  BY <1>1 DEF Resolve, Job
<1>3. CASE job'[w].pc = "unresolved"
  <2>1. LookupCall(job'[w]) = LookupCall(job[w])
    BY <1>1, <1>3, CallOf DEF Unseen
  <2>2. QED
    BY <1>1, <2>1, CallSame DEF Unobserved
<1>4. CASE job'[w].pc = "load" /\ job'[w].res = job[w].res
  <2>1. t \in Path /\ k \in Key /\ job[w].res = None
    BY <1>1 DEF Job, Sound
  <2>2. LookupCall(job'[w]) = [pc |-> "called", path |-> t, key |-> k, content |-> Absent,
                               res |-> None]
    BY <1>2, <1>4, <2>1, CallOf DEF Called
  <2>3. absCall[w].pc = "idle"
    BY <1>1, CallOf, AbsNoCall DEF Unseen, absCall
  <2>4. absCall' = [absCall EXCEPT ![w] = [pc |-> "called", path |-> t, key |-> k,
                                           content |-> Absent, res |-> None]]
    BY <1>1, <2>2, CallStep
  <2>5. absBuild # NoBuild
    BY <1>1 DEF absBuild, Running, WatchmanInv, ProcessInv
  <2> HIDE DEF t, k
  <2>6. Lookup!Call(w, t, k)
    BY <1>1, <2>3, <2>4, <2>5 DEF Lookup!Call, absCall, absFs, absBuild
  <2>7. QED
    BY <2>1, <2>6 DEF Lookup!Next
<1>5. QED
  BY <1>2, <1>3, <1>4

\* A hit answers with a value computed from a content in seen.
LEMMA HitAnswers ==
    ASSUME WatchmanInv, WatchmanInv', Stamped, NEW w \in Worker, LoadOrStoreFile(w),
           job[w].pc \in Called,
           NEW v \in Value, Hit(w, v), v = entries'[job[w].path][job[w].key]
    PROVE  Lookup!Next
<1>1. /\ UNCHANGED <<fs, link, build, phase, seen>>
      /\ \A u \in Worker : u # w => job'[u] = job[u]
      /\ job[w] \in Job /\ job \in [Worker -> Job]
  BY LookupAside, LookupFacts
<1>2. /\ job'[w].pc = "done" /\ job'[w].path = job[w].path /\ job'[w].key = job[w].key
      /\ job'[w].content = v.content /\ job'[w].res = v
      /\ job[w].path \in Path /\ job[w].key \in Key
  BY <1>1 DEF Hit, Job
<1>3. v.key = job[w].key /\ v.content \in seen[job[w].path] /\ v.build = build
  <2>1. Recent(entries)' /\ v # None
    BY NoValueAssumption DEF WatchmanInv, MemoryInv, RowsInv
  <2>2. QED
    BY <1>1, <1>2, <2>1 DEF Recent
<1>4. v.content # Absent /\ v = Compute(job[w].key, v.content, build)
  <2>1. v = [key |-> v.key, content |-> v.content, build |-> v.build] /\ v.content \in Content
    BY DEF Value
  <2>2. QED
    BY <1>3, <2>1, AbsentAssumption DEF Compute
<1> DEFINE c == v.content
<1> HIDE DEF c
<1>5. Lookup!AnswerAtOnce(w)
  BY <1>1, <1>2, <1>3, <1>4, AnswersAtOnce DEF c
<1>6. QED
  BY <1>5 DEF Lookup!Next

\* A failed lookup answers Err for a content in seen.
LEMMA ReplyAnswers ==
    ASSUME WatchmanInv, WatchmanInv', NEW w \in Worker, LoadOrStoreFile(w),
           job[w].pc \in Called, Reply(w, Err), job[w].content \in seen[job[w].path]
    PROVE  Lookup!Next
<1>1. /\ UNCHANGED <<fs, link, build, phase, seen>>
      /\ \A u \in Worker : u # w => job'[u] = job[u]
      /\ job[w] \in Job /\ job \in [Worker -> Job]
  BY LookupAside, LookupFacts
<1>2. /\ job'[w].pc = "done" /\ job'[w].path = job[w].path /\ job'[w].key = job[w].key
      /\ job'[w].content = job[w].content /\ job'[w].res = Err
  BY <1>1 DEF Reply, Job
<1>3. Lookup!AnswerAtOnce(w)
  BY <1>1, <1>2, AnswersAtOnce
<1>4. QED
  BY <1>3 DEF Lookup!Next

LEMMA WatchmanRefineLookup ==
    ASSUME WatchmanInv, WatchmanInv', Stamped, NEW w \in Worker, LoadOrStoreFile(w)
    PROVE  Unobserved \/ Lookup!Next
<1> DEFINE v == entries[job[w].path][job[w].key]
<1>1. /\ UNCHANGED <<fs, link, build, phase, seen>> /\ UNCHANGED <<absFs, absBuild>>
      /\ \A u \in Worker : u # w => job'[u] = job[u]
      /\ job[w] \in Job /\ Sound(job[w]) /\ Running
      /\ job[w].path \in Path /\ job[w].key \in Key
      /\ job \in [Worker -> Job] /\ entries \in Entries /\ entries' \in Entries
  BY LookupAside, LookupFacts DEF Job, WatchmanInv, WatchmanTypeOK
<1>2. ASSUME job[w].pc \in Called, job'[w].pc \in Called,
             job'[w].path = job[w].path, job'[w].key = job[w].key, job'[w].res = job[w].res
      PROVE  Unobserved
  <2>1. LookupCall(job'[w]) = LookupCall(job[w])
    BY <1>2, CallOf
  <2>2. QED
    BY <1>1, <2>1, CallSame DEF Unobserved
<1>3. CASE Load(w) \/ Recheck(w)
  <2>1. /\ job[w].pc \in Called /\ entries' = entries
        /\ \/ v # None /\ Hit(w, v)
           \/ job' = [job EXCEPT ![w].pc = "readFile"]
           \/ job' = [job EXCEPT ![w].pc = "compute"]
    BY <1>3 DEF Load, Recheck, Called, cache
  <2>2. CASE v # None /\ Hit(w, v)
    <3>1. v \in Value /\ v = entries'[job[w].path][job[w].key]
      BY <1>1, <2>1, <2>2 DEF Entries, Row
    <3>2. QED
      BY <2>1, <2>2, <3>1, HitAnswers
  <2>3. CASE \/ job' = [job EXCEPT ![w].pc = "readFile"]
             \/ job' = [job EXCEPT ![w].pc = "compute"]
    BY <1>1, <1>2, <2>1, <2>3 DEF Job, Called
  <2>4. QED
    BY <2>1, <2>2, <2>3
<1>4. CASE ReadFile(w)
  <2> DEFINE c == View(job[w].path)
  <2>1. /\ job[w].pc = "readFile" /\ job[w].pc \in Called /\ job[w].content = Absent
        /\ \/ c = Absent /\ Reply(w, Err)
           \/ job' = [job EXCEPT ![w].pc = "recheck", ![w].content = c]
    BY <1>1, <1>4 DEF ReadFile, Called, Sound
  <2>2. CASE c = Absent /\ Reply(w, Err)
    <3>1. job[w].content \in seen[job[w].path]
      BY <1>1, <2>1, <2>2 DEF WatchmanInv, HistoryInv
    <3>2. QED
      BY <2>1, <2>2, <3>1, ReplyAnswers
  <2> HIDE DEF c
  <2>3. CASE job' = [job EXCEPT ![w].pc = "recheck", ![w].content = c]
    BY <1>1, <1>2, <2>1, <2>3 DEF Job, Called
  <2>4. QED
    BY <2>1, <2>2, <2>3
<1>5. CASE ComputeValue(w)
  <2> DEFINE new == entries'[job[w].path][job[w].key]
  <2>1. /\ job[w].pc = "compute" /\ job[w].pc \in Called /\ Hit(w, new)
        /\ entries' = StoreFirst(entries, job[w].path, job[w].key,
                                 Compute(job[w].key, job[w].content, build))
    BY <1>5 DEF ComputeValue, Called
  <2>2. Compute(job[w].key, job[w].content, build) \in Value
    BY <1>1, <2>1 DEF Compute, Value, Sound, WatchmanInv, ProcessInv, WatchmanTypeOK, Running
  <2>3. new \in Value
    <3>1. new \in Value \cup {None} /\ v \in Value \cup {None}
      BY <1>1 DEF Entries, Row
    <3>2. new # None
      BY <1>1, <2>1, <2>2, <3>1, StoreFirstRow, NoValueAssumption
    <3>3. QED
      BY <3>1, <3>2
  <2>4. QED
    BY <2>1, <2>3, HitAnswers
<1>6. CASE ComputeFails(w)
  <2>1. /\ job[w].pc \in Called /\ Reply(w, Err) /\ job[w].content \in seen[job[w].path]
    BY <1>1, <1>6 DEF ComputeFails, Called, Sound
  <2>2. QED
    BY <2>1, ReplyAnswers
<1>7. QED
  BY <1>3, <1>4, <1>5, <1>6, WatchmanRefineResolve DEF LoadOrStoreFile

LEMMA WatchmanRefineConsume ==
    ASSUME WatchmanInv, WatchmanInv', NEW w \in Worker, Consume(w)
    PROVE  Unobserved \/ Lookup!Next
<1>1. /\ UNCHANGED <<absFs, absBuild, seen>> /\ UNCHANGED <<fs, link, build, phase, seen>>
      /\ \A u \in Worker : u # w => job'[u] = job[u]
      /\ job[w].pc \in {"done", "unresolved"} /\ job \in [Worker -> Job]
      /\ job'[w] = IdleJob
  BY LookupAside, LookupFacts DEF Consume
<1>2. LookupCall(job'[w]) = NoCall
  BY <1>1, IdleTypes, CallOf DEF Unseen
<1>3. CASE job[w].pc = "unresolved"
  <2>1. LookupCall(job[w]) = NoCall
    BY <1>3, CallOf DEF Unseen
  <2>2. QED
    BY <1>1, <1>2, <2>1, CallSame DEF Unobserved
<1>4. CASE job[w].pc = "done"
  <2>1. absCall[w].pc = "done"
    BY <1>4, CallOf DEF absCall
  <2>2. absCall' = [absCall EXCEPT ![w] = NoCall]
    BY <1>1, <1>2, CallStep
  <2>3. Lookup!Return(w)
    BY <1>1, <2>1, <2>2, AbsNoCall
    DEF Lookup!Return, Lookup!IdleCall, absCall, absFs, absBuild
  <2>4. QED
    BY <2>3 DEF Lookup!Next
<1>5. QED
  BY <1>1, <1>3, <1>4

\* A change of one file changes what all its names read as.
LEMMA ChangeEdits ==
    ASSUME WatchmanInv, WatchmanInv', NEW n \in Path, Change({n}), NEW P \in SUBSET Path,
           NEW c \in Content \cup {Absent},
           \A q \in Path : View(q)' = IF q \in P THEN c ELSE View(q)
    PROVE  Lookup!Edit(P, c)
<1>1. /\ UNCHANGED <<build, phase, job>>
      /\ seen' = [q \in Path |-> {View(q)'} \cup IF Running THEN seen[q] ELSE {}]
  BY DEF Change
<1>2. absFs' = [q \in Path |-> IF q \in P THEN c ELSE absFs[q]]
  BY DEF absFs
<1>3. UNCHANGED <<absBuild, absCall>>
  BY <1>1 DEF absBuild, absCall
<1>4. \/ seen' = [q \in Path |-> IF q \in P THEN seen[q] \cup {c} ELSE seen[q]]
      \/ seen' = [q \in Path |-> IF q \in P THEN {c} ELSE seen[q]]
  <2>1. CASE Running
    <3>1. ASSUME NEW q \in Path
          PROVE  {View(q)'} \cup seen[q] = IF q \in P THEN seen[q] \cup {c} ELSE seen[q]
      <4>1. View(q) \in seen[q]
        BY DEF WatchmanInv, HistoryInv
      <4>2. QED
        BY <4>1
    <3>2. seen' = [q \in Path |-> {View(q)'} \cup seen[q]]
      BY <1>1, <2>1
    <3>3. QED
      BY <3>1, <3>2
  <2>2. CASE ~Running
    <3>1. seen = [q \in Path |-> {View(q)}]
      BY <2>2 DEF WatchmanInv, HistoryInv
    <3>2. seen' = [q \in Path |-> {View(q)'}]
      BY <1>1, <2>2
    <3>3. QED
      BY <3>1, <3>2
  <2>3. QED
    BY <2>1, <2>2
<1>5. QED
  BY <1>2, <1>3, <1>4 DEF Lookup!Edit, absFs, absCall, absBuild

LEMMA WatchmanRefineEdit ==
    ASSUME WatchmanInv, WatchmanInv', NEW p \in Path, NEW c \in Content \cup {Absent}, Edit(p, c)
    PROVE  Lookup!Next
<1> DEFINE P == {q \in Path : link[q] = p}
<1>1. /\ link' = link /\ fs' = [fs EXCEPT ![p] = c] /\ Change({p})
      /\ fs \in [Path -> Content \cup {Absent}] /\ link \in [Path -> Path]
  BY DEF Edit, WatchmanInv, WatchmanTypeOK
<1>2. \A q \in Path : View(q)' = IF q \in P THEN c ELSE View(q)
  BY <1>1 DEF View
<1>3. P \in SUBSET Path
  OBVIOUS
<1> HIDE DEF P
<1>4. Lookup!Edit(P, c)
  BY <1>1, <1>2, <1>3, ChangeEdits
<1>5. QED
  BY <1>3, <1>4 DEF Lookup!Next

LEMMA WatchmanRefineRelink ==
    ASSUME WatchmanInv, WatchmanInv', NEW p \in Path, NEW q \in Path, Relink(p, q)
    PROVE  Lookup!Next
<1>1. /\ p \in Link /\ link[p] # q
      /\ fs \in [Path -> Content \cup {Absent}] /\ link \in [Path -> Path]
      /\ link' = [link EXCEPT ![p] = q] /\ Change({p})
      /\ fs' \in [Path -> Content \cup {Absent}] /\ link' \in [Path -> Path]
  BY DEF Relink, WatchmanInv, WatchmanTypeOK
<1>2. \A r \in Path : r # p => fs'[r] = fs[r] /\ link'[r] = link[r]
  BY <1>1 DEF Relink
<1>3. ASSUME NEW r \in Path, r # p PROVE View(r)' = View(r)
  <2>1. link[r] # p
    BY <1>1, <1>3 DEF WatchmanInv, FilesInv
  <2>2. link[r] \in Path
    BY <1>1
  <2>3. QED
    BY <1>2, <1>3, <2>1, <2>2 DEF View
<1> DEFINE c == View(p)'
<1>4. c \in Content \cup {Absent}
  BY <1>1 DEF View
<1> HIDE DEF c
<1>5. \A r \in Path : View(r)' = IF r \in {p} THEN c ELSE View(r)
  BY <1>3 DEF c
<1>6. {p} \in SUBSET Path
  OBVIOUS
<1>7. Lookup!Edit({p}, c)
  BY <1>1, <1>4, <1>5, <1>6, ChangeEdits
<1>8. QED
  BY <1>4, <1>6, <1>7 DEF Lookup!Next

\* A process may trust nothing it was told before it asked the daemon.
LEMMA WatchmanRefineRead == ASSUME WatchmanInv, Read PROVE Lookup!Next
<1>1. /\ phase = "started" /\ phase' = "run"
      /\ UNCHANGED <<fs, link, build, job, seen>>
  BY DEF Read, files, history
<1>2. UNCHANGED <<absFs, absCall>> /\ absBuild' = build /\ build \in Build
  BY <1>1, AbsFilesSame
  DEF absBuild, absCall, WatchmanInv, ProcessInv, WatchmanTypeOK
<1>3. seen' = [p \in Path |-> {absFs[p]}]
  BY <1>1 DEF WatchmanInv, HistoryInv, Running, absFs
<1>4. Lookup!Start(build)
  BY <1>2, <1>3 DEF Lookup!Start, absFs, absBuild, absCall
<1>5. QED
  BY <1>2, <1>4 DEF Lookup!Next

LEMMA WatchmanRefineLost == ASSUME WatchmanInv, Lost PROVE Lookup!Next
<1>1. /\ phase' = "down" /\ build' = NoBuild /\ job' = NoJobs /\ UNCHANGED <<fs, link>>
      /\ seen' = [p \in Path |-> {View(p)}]
  BY DEF Lost, files
<1>2. absFs' = absFs /\ absBuild' = NoBuild /\ seen' = [p \in Path |-> {absFs[p]}]
  BY <1>1, AbsFilesSame DEF absBuild, absFs
<1>3. \A w \in Worker : LookupCall(job'[w]) = NoCall
  BY <1>1, IdleTypes, CallOf DEF Unseen
<1>4. absCall' = [w \in Worker |-> NoCall]
  BY <1>3 DEF absCall
<1>5. Lookup!Stop
  BY <1>2, <1>4, AbsNoCall
  DEF Lookup!Stop, Lookup!IdleCall, absFs, absBuild, absCall
<1>6. QED
  BY <1>5 DEF Lookup!Next

\* Every step is a step of ContentLookup or one it does not see.
LEMMA WatchmanRefineStep ==
    ASSUME WatchmanInv, WatchmanInv', Stamped, [Next]_vars
    PROVE  Unobserved \/ Lookup!Next
<1>1. CASE Environment
  <2>1. CASE DaemonRestart \/ OtherPersist
    BY <2>1, AbsFilesSame
    DEF DaemonRestart, OtherPersist, files, history, Unobserved, absBuild, absCall
  <2>2. QED
    BY <1>1, <2>1, WatchmanRefineEdit, WatchmanRefineRelink DEF Environment
<1>2. CASE \E b \in Build : StartWatcher(b)
  <2>1. UNCHANGED <<fs, link, seen, job>> /\ phase = "down" /\ phase' = "started"
    BY <1>2 DEF StartWatcher, files, history
  <2>2. QED
    BY <2>1, AbsFilesSame
    DEF Unobserved, absBuild, absCall, WatchmanInv, ProcessInv
<1>3. CASE Read \/ WriteState \/ Crash
  BY <1>3, WatchmanRefineRead, WatchmanRefineLost DEF WriteState, Crash
<1>4. CASE Persist
  <2>1. UNCHANGED <<fs, link, seen, job, build>> /\ phase = "run" /\ phase' = "truncated"
    BY <1>4 DEF Persist, files, history
  <2>2. QED
    BY <2>1, AbsFilesSame DEF Unobserved, absBuild, absCall
<1>5. ASSUME NEW w \in Worker, NEW p \in Path, NEW k \in Key, Call(w, p, k)
      PROVE  Unobserved
  <2>1. /\ UNCHANGED <<fs, link, seen, build, phase>> /\ job[w].pc = "idle"
        /\ job' = [job EXCEPT ![w] = [IdleJob EXCEPT !.pc = "resolve", !.name = p, !.key = k]]
        /\ job \in [Worker -> Job]
    BY <1>5 DEF Call, files, history, WatchmanInv, WatchmanTypeOK
  <2>2. job'[w].pc = "resolve" /\ \A u \in Worker : u # w => job'[u] = job[u]
    BY <2>1, IdleTypes DEF Job
  <2>3. LookupCall(job'[w]) = LookupCall(job[w])
    BY <2>1, <2>2, CallOf DEF Unseen
  <2>4. QED
    BY <2>1, <2>2, <2>3, CallSame, AbsFilesSame DEF Unobserved, absBuild
<1>6. CASE \E w \in Worker : LoadOrStoreFile(w) \/ Consume(w)
  BY <1>6, WatchmanRefineLookup, WatchmanRefineConsume
<1>7. CASE UNCHANGED vars
  BY <1>7, AbsFilesSame DEF vars, Unobserved, absBuild, absCall
<1>8. QED
  BY <1>1, <1>2, <1>3, <1>4, <1>5, <1>6, <1>7 DEF Next

\* The watchman cache of a stamped build keeps the promise of ContentLookup: a
\* lookup answers what the loader of this build makes of a content its file has
\* had since the process asked the daemon what changed (cache.go).
THEOREM RefinesWatchmanLookup ==
    ASSUME ~Dangling, QuietStart, Stamped PROVE Spec => WatchmanLookupSpec
<1>1. WatchmanInv /\ WatchmanInv' /\ [Next]_vars => [Lookup!Next]_(Lookup!callVars)
  BY WatchmanRefineStep DEF Unobserved, Lookup!callVars, absFs, absBuild, absCall
<1>2. QED
  BY <1>1, WatchmanRefineInit, WatchmanInvariantHolds, PTL
  DEF Spec, WatchmanLookupSpec, Lookup!Spec
==============================================================================
