---------------------------- MODULE WatchmanCache ----------------------------
(***************************************************************************)
(* runner/pkg/watchman/cache.go over common/cache/filecompute.go: a cache  *)
(* that serves files without reading them, on the word of the watchman     *)
(* daemon.  The cache file holds a clock of the daemon; the next process   *)
(* asks which files changed since that clock and drops their rows.         *)
(*                                                                         *)
(* A clock is represented by what the daemon answers for it: the names     *)
(* that changed since.  Rows are kept under the real path of a file, so a  *)
(* lookup first resolves its name, which may be a symbolic link.           *)
(***************************************************************************)
EXTENDS FileCompute

CONSTANTS Worker,      \* goroutines that look files up during a run
          Link,        \* names that may be symbolic links, to one of the others
          Dangling,    \* whether links may point to a file that does not exist
          QuietStart,  \* whether a file persisted without a clock is loaded only
                       \* when nothing has changed since it was persisted
          NoBuild,     \* in place of a build: no process is running
          Stamped      \* buildinfo.IsStamped()

ASSUME LinkAssumption == Link \subseteq Path /\ Link # Path
ASSUME NoPathAssumption == None \notin Path
ASSUME NonemptyAssumption == Key # {}
ASSUME NoBuildAssumption == NoBuild \notin Build
ASSUME FlagAssumption ==
    Dangling \in BOOLEAN /\ QuietStart \in BOOLEAN /\ Stamped \in BOOLEAN

VARIABLES fs,        \* the content of each regular file, or Absent
          link,      \* the real path of each name
          build,     \* the build of the running process, or NoBuild
          phase,     \* where the process is in its life
          watcher,   \* WatchmanWatcher.lastClockSpec, from Start to GetDiff
          last,      \* watchmanCache.lastClockSpec
          entries,   \* FileComputeCache.entries
          symlinks,  \* watchmanCache.symlinks
          job,       \* the lookup each worker is in
          snap,      \* what write() has copied out of entries
          disk,      \* the cache file
          seen,      \* history: the contents of each file since the process
                     \* asked the daemon what changed
          reals      \* history: the names that have been real paths since then

files == <<fs, link>>
cache == <<last, entries, symlinks>>
history == <<seen, reals>>
vars == <<fs, link, build, phase, watcher, last, entries, symlinks, job, snap, disk,
          seen, reals>>

Phase == {"down", "started", "run", "truncated"}
Entries == [Path -> Row]
Links == [Path -> Path \cup {None}]
NoLinks == [p \in Path |-> None]

\* A clock of this daemon, of an earlier one, or the empty string.  Of an empty
\* clock, changed is not known to the program: QuietStart speaks of it.
Clock == [status : {"blank", "known", "foreign"}, changed : SUBSET Path]
Blank == [status |-> "blank", changed |-> {}]
Now == [status |-> "known", changed |-> {}]

\* "other": written by another mode of the cache, whose type is not "watchman".
DiskFile == [status  : {"missing", "partial", "other", "written"},
             version : Build \cup {NoBuild}, entries : Entries, clock : Clock]
NoDisk == [status |-> "missing", version |-> NoBuild,
           entries |-> NoEntries, clock |-> Blank]

\* The stages of LoadOrStoreFile, named after the call that comes next.
Stage == {"idle", "resolve", "unresolved", "load", "readFile", "recheck", "compute", "done"}

Job == [pc : Stage, name : Path, path : Path, key : Key,
        content : Content \cup {Absent}, res : Value \cup {None, Err}]
AnyPath == CHOOSE p \in Path : TRUE
IdleJob == [pc |-> "idle", name |-> AnyPath, path |-> AnyPath,
            key |-> CHOOSE k \in Key : TRUE, content |-> Absent, res |-> None]
NoJobs == [w \in Worker |-> IdleJob]

\* What a name reads as, with links followed.
View(p) == fs[link[p]]

WatchmanTypeOK ==
    /\ fs \in [Path -> Content \cup {Absent}]
    /\ link \in [Path -> Path]
    /\ build \in Build \cup {NoBuild}
    /\ phase \in Phase
    /\ watcher \in Clock
    /\ last \in Clock
    /\ entries \in Entries
    /\ symlinks \in Links
    /\ job \in [Worker -> Job]
    /\ snap \in Entries
    /\ disk \in DiskFile
    /\ seen \in [Path -> SUBSET (Content \cup {Absent})]
    /\ reals \subseteq Path

Regular == {p \in Path : link[p] = p}

Init ==
    /\ fs \in [Path -> Content \cup {Absent}]
    /\ link \in [Path -> Path]
    /\ \A p \in Path : link[p] # p => p \in Link /\ link[p] \notin Link /\ fs[p] = Absent
    /\ \A p \in Path : link[p] # p /\ ~Dangling => View(p) # Absent
    /\ build = NoBuild
    /\ phase = "down"
    /\ watcher = Blank
    /\ last = Blank
    /\ entries = NoEntries
    /\ symlinks = NoLinks
    /\ job = NoJobs
    /\ snap = NoEntries
    /\ disk = NoDisk
    /\ seen = [p \in Path |-> {View(p)}]
    /\ reals = Regular

------------------------------------------------------------------------------
(* The files, the daemon and the other users of the cache file. *)

Touch(clock, P) ==
    IF clock.status = "foreign" THEN clock ELSE [clock EXCEPT !.changed = @ \cup P]
Outdate(clock) == IF clock.status = "known" THEN [Now EXCEPT !.status = "foreign"] ELSE clock

Running == phase \in {"run", "truncated"}

\* The daemon sees a change of the names P; the history of a run records what
\* every name reads as from now on.
Change(P) ==
    /\ watcher' = IF phase = "started" THEN Touch(watcher, P) ELSE watcher
    /\ last' = IF Running THEN Touch(last, P) ELSE last
    /\ disk' = IF disk.status = "written" THEN [disk EXCEPT !.clock = Touch(@, P)] ELSE disk
    /\ seen' = [p \in Path |-> {View(p)'} \cup IF Running THEN seen[p] ELSE {}]
    /\ reals' = Regular' \cup IF Running THEN reals ELSE {}
    /\ UNCHANGED <<build, phase, entries, symlinks, job, snap>>

\* A regular file is written, created or removed.
Edit(p, c) ==
    /\ link[p] = p
    /\ fs[p] # c
    /\ c = Absent /\ ~Dangling => \A q \in Path \ {p} : link[q] # p
    /\ fs' = [fs EXCEPT ![p] = c]
    /\ UNCHANGED link
    /\ Change({p})

\* A name becomes a link to q, or a link becomes a regular file (q = p).
Relink(p, q) ==
    /\ p \in Link
    /\ link[p] # q
    /\ q = p \/ q \notin Link
    /\ q # p /\ ~Dangling => fs[q] # Absent
    /\ link' = [link EXCEPT ![p] = q]
    /\ \E c \in IF q = p THEN Content ELSE {Absent} : fs' = [fs EXCEPT ![p] = c]
    /\ Change({p})

\* The daemon restarts: clocks taken before mean nothing to it.
DaemonRestart ==
    /\ watcher' = Outdate(watcher)
    /\ last' = Outdate(last)
    /\ disk' = [disk EXCEPT !.clock = Outdate(@)]
    /\ UNCHANGED <<files, build, phase, entries, symlinks, job, snap, history>>

\* A run without watchman leaves its own state in the cache file.
OtherPersist ==
    /\ phase = "down"
    /\ disk.status # "other"
    /\ disk' = [NoDisk EXCEPT !.status = "other"]
    /\ UNCHANGED <<files, build, phase, watcher, cache, job, snap, history>>

------------------------------------------------------------------------------
(* The life of a process. *)

\* VerifyCacheVersion and the decoder accept the file.
Readable(b) == disk.status = "written" /\ (Stamped => disk.version = b)

\* NewWatchmanCache: WatchmanWatcher.Start asks the daemon for its clock.
StartWatcher(b) ==
    /\ phase = "down"
    /\ QuietStart /\ Readable(b) /\ disk.clock.status = "blank" => disk.clock.changed = {}
    /\ phase' = "started"
    /\ build' = b
    /\ watcher' = Now
    /\ UNCHANGED <<files, cache, job, snap, disk, history>>

\* The clock GetDiff asks about.
Since == IF disk.clock.status = "blank" THEN watcher ELSE disk.clock

\* read() is over: what it has made of the cache file.  The names with rows are
\* marked as real paths.  (A row without a value, which a failed loader leaves,
\* is no row here; the code marks its name too.)
Loaded(rows, clock) ==
    /\ entries' = rows
    /\ symlinks' = [p \in Path |-> IF rows[p] # EmptyRow THEN p ELSE None]
    /\ last' = clock

\* Mutant of Read: the rows are loaded before the diff is applied.
ReadKeepsChanged ==
    /\ phase = "started"
    /\ phase' = "run"
    /\ watcher' = Blank
    /\ \/ Loaded(NoEntries, Blank)
       \/ /\ Readable(build)
          /\ watcher.status = "known"
          /\ Loaded(IF Since.status = "foreign" THEN NoEntries ELSE disk.entries, Now)
    /\ UNCHANGED <<files, build, job, snap, disk, history>>

\* Mutant of Read: IsFreshInstance is ignored.
ReadTrustsFresh ==
    /\ phase = "started"
    /\ phase' = "run"
    /\ watcher' = Blank
    /\ \/ Loaded(NoEntries, Blank)
       \/ /\ Readable(build)
          /\ watcher.status = "known"
          /\ Loaded(Evict(disk.entries, Since.changed), Now)
    /\ UNCHANGED <<files, build, job, snap, disk, history>>

\* watchmanCache.read: with no usable cache file or no answer from the daemon it
\* returns early and the clock stays empty; otherwise the rows of the changed
\* names are dropped, or all of them when the daemon is not the one that issued
\* the clock.
Read ==
    /\ phase = "started"
    /\ phase' = "run"
    /\ watcher' = Blank
    /\ \/ Loaded(NoEntries, Blank)
       \/ /\ Readable(build)
          /\ watcher.status = "known"
          /\ Loaded(IF Since.status = "foreign" THEN NoEntries
                    ELSE Evict(disk.entries, Since.changed), Now)
    /\ UNCHANGED <<files, build, job, snap, disk, history>>

\* The run is over, or a batch was abandoned at its first error while other
\* lookups of it are running; DoneGeneratingRules persists: the rows are copied,
\* and WriteCacheFile opens the file with O_TRUNC.
Persist ==
    /\ phase = "run"
    /\ \/ \A w \in Worker : job[w].pc = "idle"
       \/ \E w \in Worker : job[w].pc \in {"done", "unresolved"} /\ job[w].res = Err
    /\ phase' = "truncated"
    /\ snap' = entries
    /\ disk' = [NoDisk EXCEPT !.status = "partial"]
    /\ UNCHANGED <<files, build, watcher, cache, job, history>>

\* The process ends, or dies: only the files survive.
Lost ==
    /\ phase' = "down"
    /\ build' = NoBuild
    /\ watcher' = Blank
    /\ last' = Blank
    /\ entries' = NoEntries
    /\ symlinks' = NoLinks
    /\ job' = NoJobs
    /\ snap' = NoEntries
    /\ seen' = [p \in Path |-> {View(p)}]
    /\ reals' = Regular
    /\ UNCHANGED files

\* Mutant of WriteState: the clock is asked for when the file is written.
WriteStateNow ==
    /\ phase = "truncated"
    /\ disk' = [status |-> "written", version |-> build, entries |-> snap, clock |-> Now]
    /\ Lost

\* The state is written with the clock of the last diff, and the process ends ...
WriteState ==
    /\ phase = "truncated"
    /\ disk' = [status |-> "written", version |-> build, entries |-> snap, clock |-> last]
    /\ Lost

\* ... or it dies, or an encoder or Close fails, with the file as it is.
Crash == phase # "down" /\ UNCHANGED disk /\ Lost

------------------------------------------------------------------------------
(* LoadOrStoreFile. *)

Reply(w, r) == job' = [job EXCEPT ![w].pc = "done", ![w].res = r]
Hit(w, v) == job' = [job EXCEPT ![w] = [@ EXCEPT !.pc = "done", !.content = v.content,
                                                 !.res = v]]

\* A worker takes a file.  The names of a batch are distinct, but two of them
\* may be the same real file.
Call(w, p, k) ==
    /\ phase = "run"
    /\ job[w].pc = "idle"
    /\ \A v \in Worker : job[v].pc # "idle" => job[v].name # p
    /\ job' = [job EXCEPT ![w] = [IdleJob EXCEPT !.pc = "resolve", !.name = p, !.key = k]]
    /\ UNCHANGED <<files, build, phase, watcher, cache, snap, disk, history>>

\* Mutant of Target: links are not followed.
TargetUnresolved(p) == p

\* Lstat and EvalSymlinks, for a name that exists.  EvalSymlinks is only asked
\* about a name that is itself a link, and fails when the target is missing.
Target(p) == IF View(p) = Absent THEN p ELSE link[p]

\* resolveSymlink: a name resolved before is not looked at again; Lstat fails
\* for a name that does not exist.
Resolve(w) ==
    LET p == job[w].name
        r == Target(p) IN
    /\ job[w].pc = "resolve"
    /\ \/ /\ symlinks[p] # None
          /\ job' = [job EXCEPT ![w].pc = "load", ![w].path = symlinks[p]]
          /\ UNCHANGED symlinks
       \/ /\ symlinks[p] = None
          /\ View(p) = Absent /\ p \in Regular
          /\ job' = [job EXCEPT ![w].pc = "unresolved", ![w].res = Err]
          /\ UNCHANGED symlinks
       \/ /\ symlinks[p] = None
          /\ View(p) # Absent \/ p \notin Regular
          /\ symlinks' = [q \in Path |-> IF q = p \/ (q = r /\ symlinks[r] = None)
                                         THEN r ELSE symlinks[q]]
          /\ job' = [job EXCEPT ![w].pc = "load", ![w].path = symlinks'[r]]
    /\ UNCHANGED <<files, build, phase, watcher, last, entries, snap, disk, history>>

\* The fast path of FileComputeCache.LoadOrStoreFile: no file I/O.
Load(w) ==
    LET v == entries[job[w].path][job[w].key] IN
    /\ job[w].pc = "load"
    /\ \/ v # None /\ Hit(w, v)
       \/ v = None /\ job' = [job EXCEPT ![w].pc = "readFile"]
    /\ UNCHANGED <<files, build, phase, watcher, cache, snap, disk, history>>

ReadFile(w) ==
    LET c == View(job[w].path) IN
    /\ job[w].pc = "readFile"
    /\ \/ c = Absent /\ Reply(w, Err)
       \/ c # Absent /\ job' = [job EXCEPT ![w].pc = "recheck", ![w].content = c]
    /\ UNCHANGED <<files, build, phase, watcher, cache, snap, disk, history>>

\* loadOrStore looks the key up once more before it computes.
Recheck(w) ==
    LET v == entries[job[w].path][job[w].key] IN
    /\ job[w].pc = "recheck"
    /\ \/ v # None /\ Hit(w, v)
       \/ v = None /\ job' = [job EXCEPT ![w].pc = "compute"]
    /\ UNCHANGED <<files, build, phase, watcher, cache, snap, disk, history>>

\* Another lookup may have stored the key meanwhile: then its value is the answer.
ComputeValue(w) ==
    LET p == job[w].path
        k == job[w].key
        v == Compute(k, job[w].content, build) IN
    /\ job[w].pc = "compute"
    /\ entries' = StoreFirst(entries, p, k, v)
    /\ Hit(w, entries'[p][k])
    /\ UNCHANGED <<files, build, phase, watcher, last, symlinks, snap, disk, history>>

\* Mutant of ComputeFails: the error is cached like a value.
ComputeFailsCached(w) ==
    /\ job[w].pc = "compute"
    /\ entries' = StoreFirst(entries, job[w].path, job[w].key, Err)
    /\ Reply(w, Err)
    /\ UNCHANGED <<files, build, phase, watcher, last, symlinks, snap, disk, history>>

\* A loader error is returned and not cached.
ComputeFails(w) ==
    /\ job[w].pc = "compute"
    /\ Reply(w, Err)
    /\ UNCHANGED <<files, build, phase, watcher, cache, snap, disk, history>>

Consume(w) ==
    /\ job[w].pc \in {"done", "unresolved"}
    /\ phase = "run"
    /\ job' = [job EXCEPT ![w] = IdleJob]
    /\ UNCHANGED <<files, build, phase, watcher, cache, snap, disk, history>>

LoadOrStoreFile(w) ==
    \/ Resolve(w) \/ Load(w) \/ ReadFile(w) \/ Recheck(w)
    \/ ComputeValue(w) \/ ComputeFails(w)

Environment ==
    \/ \E p \in Path, c \in Content \cup {Absent} : Edit(p, c)
    \/ \E p, q \in Path : Relink(p, q)
    \/ DaemonRestart
    \/ OtherPersist

Next ==
    \/ Environment
    \/ \E b \in Build : StartWatcher(b)
    \/ Read
    \/ \E w \in Worker, p \in Path, k \in Key : Call(w, p, k)
    \/ \E w \in Worker : LoadOrStoreFile(w) \/ Consume(w)
    \/ Persist
    \/ WriteState
    \/ Crash

Spec == Init /\ [][Next]_vars

------------------------------------------------------------------------------
(* Properties. *)

\* A row is served without reading the file, so it must have been computed from
\* a content its file has had since this process asked the daemon what changed:
\* a file changed before that is never served from before the change, whatever
\* happened to the file, the links, the daemon and the cache file (cache.go:151).
EntriesRecent ==
    \A p \in Path, k \in Key : entries[p][k] # None =>
        /\ entries[p][k].key = k
        /\ entries[p][k].content \in seen[p]
        /\ Stamped => entries[p][k].build = build

\* The cache file can be trusted by the next process: what it holds for a name
\* the daemon will not report as changed is computed from what the file holds
\* now, and no such name is a link (cache.go:167).
DiskSound ==
    disk.status = "written" /\ disk.clock.status # "foreign" =>
        \A p \in Path \ disk.clock.changed, k \in Key : disk.entries[p][k] # None =>
            /\ link[p] = p
            /\ disk.entries[p][k].content = fs[p]

\* Rows are kept under real paths, the ones the daemon reports (cache.go:195).
KeysAreReal == \A p \in Path : entries[p] # EmptyRow => p \in reals

\* The cache implements ContentLookup for the real path of every name that is
\* looked up, a file's acceptable contents being those since the process asked
\* what changed.
LookupPc(pc) ==
    CASE pc \in {"idle", "resolve", "unresolved"} -> "idle"
      [] pc \in {"load", "readFile", "recheck", "compute"} -> "called"
      [] pc = "done" -> "done"

LookupCall(j) ==
    IF LookupPc(j.pc) = "idle"
    THEN [pc |-> "idle", path |-> AnyPath, key |-> IdleJob.key, content |-> Absent,
          res |-> None]
    ELSE [pc |-> LookupPc(j.pc), path |-> j.path, key |-> j.key, res |-> j.res,
          content |-> IF j.pc = "done" THEN j.content ELSE Absent]

Lookup == INSTANCE ContentLookup WITH
    fs <- [p \in Path |-> View(p)],
    build <- IF phase = "started" THEN NoBuild ELSE build,
    call <- [w \in Worker |-> LookupCall(job[w])]

WatchmanLookupSpec == Lookup!Spec
==============================================================================
