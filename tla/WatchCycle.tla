----------------------------- MODULE WatchCycle -----------------------------
(***************************************************************************)
(* The watch loop of runner/runner.go: a first run over the whole tree,    *)
(* then one run per change set of the host, restricted to the directories  *)
(* computeUpdatedDirs derives from it, with the walk cache of the run      *)
(* before, pruned of what the change set touches.                          *)
(*                                                                         *)
(* The tree is abstracted to one source per directory and to the BUILD     *)
(* file generated from it.  How sources are read is left to the caches     *)
(* (WatchCache: a reported file is read afresh), how cycles arrive to the  *)
(* protocol (CycleFeed: one at a time).  The host reports every change to  *)
(* a source or by a user to a BUILD file, in the first cycle after it.     *)
(***************************************************************************)
EXTENDS FiniteSets

CONSTANTS Dir,        \* directories, as paths
          Root,       \* the workspace
          Parent,     \* the parent of each directory; the root's is itself
          Version,    \* what a source may contain
          Absent,     \* in place of a version: there is no source
          None,       \* there is no BUILD file, no cached listing, nothing generated
          RootBuild   \* whether the workspace always has a BUILD file

ASSUME TreeAssumption ==
    /\ IsFiniteSet(Dir) /\ Root \in Dir /\ Parent \in [Dir -> Dir] /\ Parent[Root] = Root
    /\ \A S \in SUBSET Dir :   \* every directory is below the workspace
          Root \in S /\ (\A d \in Dir : Parent[d] \in S => d \in S) => S = Dir
    /\ Absent \notin Version /\ None \notin Version /\ None # Absent
    /\ RootBuild \in BOOLEAN

VARIABLES src,        \* the source of each directory, or Absent
          build,      \* the version each BUILD file was generated from; Absent: it
                      \* has no generated target; None: there is no BUILD file
          changed,    \* directories with changes the host has not reported
          phase,      \* what the loop is doing
          update,     \* the directories this run updates
          useCache,   \* ASPECT_GAZELLE_WALK_CACHE
          walkCache,  \* listings of the run before, and of this one
          visited,    \* the directories this run has visited
          gen         \* what it has generated for them

tree == <<src, build, changed>>
vars == <<src, build, changed, phase, update, useCache, walkCache, visited, gen>>

\* A directory and those above it; the directories in or below those of D.
AncestorsOf[d \in Dir] == {d} \cup IF d = Root THEN {} ELSE AncestorsOf[Parent[d]]
Below(D) == {d \in Dir : AncestorsOf[d] \cap D # {}}

Exists(d) == d = Root \/ \E e \in Below({d}) : src[e] # Absent \/ build[e] # None
Tree == {d \in Dir : Exists(d)}

\* What the walk learns of a directory by reading it.
Listing == [src : BOOLEAN, subdirs : SUBSET Dir]
ASSUME NoneAssumption == None \notin Listing
ReadDir(d) == [src |-> src[d] # Absent,
               subdirs |-> {e \in Tree \ {Root} : Parent[e] = d}]
NoListings == [d \in Dir |-> None]
Nothing == [d \in Dir |-> None]

Phase == {"start", "walk", "await", "ended"}

TypeOK ==
    /\ src \in [Dir -> Version \cup {Absent}]
    /\ build \in [Dir -> Version \cup {Absent, None}]
    /\ changed \subseteq Dir
    /\ phase \in Phase
    /\ update \subseteq Dir
    /\ useCache \in BOOLEAN
    /\ walkCache \in [Dir -> Listing \cup {None}]
    /\ visited \subseteq Dir
    /\ gen \in [Dir -> Version \cup {Absent, None}]

Init ==
    /\ src \in [Dir -> Version \cup {Absent}]
    /\ build \in [Dir -> {Absent, None}]
    /\ RootBuild => build[Root] # None
    /\ changed = {}
    /\ phase = "start"
    /\ update = {}
    /\ useCache \in BOOLEAN
    /\ walkCache = NoListings
    /\ visited = {}
    /\ gen = Nothing

------------------------------------------------------------------------------
(* The user and the host. *)

Changed(d) ==
    /\ changed' = changed \cup {d}
    /\ UNCHANGED <<phase, update, useCache, walkCache, visited, gen>>

\* A source is written, created or removed; directories come and go with what
\* is in them.
Edit(d, v) ==
    /\ phase # "start"
    /\ src[d] # v
    /\ src' = [src EXCEPT ![d] = v]
    /\ UNCHANGED build
    /\ Changed(d)

\* A BUILD file is removed, or written without targets.
EditBuild(d) ==
    /\ phase # "start"
    /\ build' \in {[build EXCEPT ![d] = Absent], [build EXCEPT ![d] = None]}
    /\ build' # build
    /\ RootBuild => build'[Root] # None
    /\ UNCHANGED src
    /\ Changed(d)

------------------------------------------------------------------------------
(* The loop. *)

\* A run begins, over the directories below args, or over the whole tree when
\* there are none.
Run(args) ==
    /\ phase' = "walk"
    /\ update' = IF args = {} THEN Dir ELSE Below(args)
    /\ visited' = {}
    /\ gen' = Nothing

\* The first run, before the loop.
FirstRun ==
    /\ phase = "start"
    /\ Run({})
    /\ UNCHANGED <<tree, useCache, walkCache>>

\* Mutant of UpdatedDirs: directories without a BUILD file are left out.
UpdatedOwnDirs(D) == {d \in D : build[d] # None}

\* computeUpdatedDirs: the nearest directory with a BUILD file, if any, of each
\* change.  A directory seen for an earlier change need not be seen again: what
\* is above it has been seen too.
UpdatedDirs(D) ==
    {b \in Dir : \E d \in D :
        /\ b \in AncestorsOf[d] /\ build[b] # None
        /\ \A e \in AncestorsOf[d] : build[e] # None => b \in Below({e})}

\* Mutant of Prune: there is no entry any more where a listing was.
PruneKeys(D) == [d \in Dir \ Below(D) |-> walkCache[d]]

\* Mutant of Prune: only the listings of the changed directories' parents go.
PruneParents(D) == [d \in Dir |-> IF d \in {Parent[e] : e \in D} \ D THEN None ELSE walkCache[d]]

\* walkCacheEntryInvalidated: the listings of the changed directories and of
\* those below them go, all of them for a change in the root.
Prune(D) == [d \in Dir |-> IF d \in Below(D) THEN None ELSE walkCache[d]]

\* A CYCLE with its change set: runWatchCycle, up to the run.
Cycle ==
    /\ phase = "await"
    /\ changed # {}
    /\ changed' = {}
    /\ Run(UpdatedDirs(changed))
    /\ walkCache' = IF useCache THEN Prune(changed) ELSE NoListings
    /\ UNCHANGED <<src, build, useCache>>

\* CYCLE_RESET: the host has lost track; everything is forgotten and updated.
CycleReset ==
    /\ phase = "await"
    /\ changed' = {}
    /\ Run({})
    /\ walkCache' = NoListings
    /\ UNCHANGED <<src, build, useCache>>

\* The walker reads listings ahead of the walk, on its own.
Populate(d) ==
    /\ phase = "walk"
    /\ walkCache[d] = None /\ Exists(d)
    /\ d # Root => walkCache[Parent[d]] # None /\ d \in walkCache[Parent[d]].subdirs
    /\ walkCache' = [walkCache EXCEPT ![d] = ReadDir(d)]
    /\ UNCHANGED <<tree, phase, update, useCache, visited, gen>>

\* The walk reads a directory, unless its listing is cached, and generates the
\* rules of those to update.  It knows the directories its listings name.
Known(d) == d = Root \/ (Parent[d] \in visited /\ d \in walkCache[Parent[d]].subdirs)

Visit(d) ==
    /\ phase = "walk"
    /\ d \in Dir \ visited /\ Known(d)
    /\ walkCache[d] # None \/ Exists(d)
    /\ walkCache' = IF walkCache[d] = None THEN [walkCache EXCEPT ![d] = ReadDir(d)]
                    ELSE walkCache
    /\ d \in update /\ walkCache'[d].src => src[d] # Absent
    /\ gen' = [gen EXCEPT ![d] = IF d \notin update THEN None
                                 ELSE IF walkCache'[d].src THEN src[d] ELSE Absent]
    /\ visited' = visited \cup {d}
    /\ UNCHANGED <<tree, phase, update, useCache>>

\* A directory or a source that was there is gone when it is read: the run fails
\* and Watch returns its error.
VisitFails(d) ==
    /\ phase = "walk"
    /\ d \in Dir \ visited /\ Known(d)
    /\ \/ walkCache[d] = None /\ ~Exists(d)
       \/ walkCache[d] # None /\ d \in update /\ walkCache[d].src /\ src[d] = Absent
    /\ phase' = "ended"
    /\ UNCHANGED <<tree, update, useCache, walkCache, visited, gen>>

\* Mutant of Written: a BUILD file that is there is left as it is.
WrittenNew(d) == IF build[d] # None THEN build[d] ELSE IF gen[d] = Absent THEN None ELSE gen[d]

\* What the run leaves in place of a BUILD file: nothing new where it has not
\* generated, no file of its own without a target, one that has lost its targets.
Written(d) ==
    CASE gen[d] = None -> build[d]
      [] gen[d] = Absent /\ build[d] = None -> None
      [] OTHER -> gen[d]

\* All files are written at the end.
Emit ==
    /\ phase = "walk"
    /\ \A d \in Dir : Known(d) => d \in visited
    /\ phase' = "await"
    /\ build' = [d \in Dir |-> Written(d)]
    /\ update' = {}
    /\ visited' = {}
    /\ gen' = Nothing
    /\ UNCHANGED <<src, changed, useCache, walkCache>>

Loop ==
    \/ FirstRun \/ Cycle \/ CycleReset \/ Emit
    \/ \E d \in Dir : Populate(d) \/ Visit(d) \/ VisitFails(d)

Next ==
    \/ \E d \in Dir, v \in Version \cup {Absent} : Edit(d, v)
    \/ \E d \in Dir : EditBuild(d)
    \/ Loop

Fairness == WF_vars(Loop)

Spec == Init /\ [][Next]_vars /\ Fairness

------------------------------------------------------------------------------
(* Properties. *)

UpToDate(d) ==
    IF src[d] = Absent THEN build[d] \in {Absent, None} ELSE build[d] = src[d]

\* What the walk cache hides from the walk: a directory, or one above it, that has
\* appeared since the listing of its parent was read.  A change is reported for the
\* directory it is in, and the listings above that stay (walkCacheEntryInvalidated,
\* runner.go:451), although runner/pkg/watchman/cache.go:156, whose rule this is, says
\* that those of the parents go as well.
Hidden(d) ==
    /\ useCache
    /\ \E a \in AncestorsOf[d] \ {Root} :
          walkCache[Parent[a]] # None /\ a \notin walkCache[Parent[a]].subdirs

\* Between cycles, with no change left to report, the incremental runs have led
\* to the BUILD files a run over the whole tree would generate: no change falls
\* between the runs, wherever BUILD files came and went and whatever the walk cache
\* kept, but for the directories it hides (runner.go:318-407).
Converged ==
    phase = "await" /\ changed = {} => \A d \in Dir : UpToDate(d) \/ Hidden(d)

\* Once every change is reported, no cached listing is wrong about the source of its
\* own directory, though the walker reads ahead and sources change meanwhile; and
\* without a walk cache a listing names the directories there are
\* (runner.go:430-470).
CacheTrue ==
    phase = "await" /\ changed = {} =>
        \A d \in Dir : walkCache[d] # None =>
            /\ walkCache[d].src <=> src[d] # Absent
            /\ useCache \/ walkCache[d] = ReadDir(d)

\* A source, as long as it is not changed again, sooner or later has the BUILD
\* file generated from it, however cycles, resets and other edits interleave,
\* unless the walk cache hides its directory, or a run has failed and Watch has
\* returned (runner.go:293-311).
Reflected ==
    \A d \in Dir : \A v \in Version \cup {Absent} :
        src[d] = v ~> UpToDate(d) \/ Hidden(d) \/ src[d] # v \/ phase = "ended"
==============================================================================
