----------------------------- MODULE FileCompute -----------------------------
(***************************************************************************)
(* The data of common/cache/filecompute.go: what a cache holds for a file, *)
(* and the operations FileComputeCache offers to the caches built on it    *)
(* (the disk cache, the watch cache and the watchman cache).               *)
(*                                                                         *)
(* A file is a path; what the loader computes from it depends on the       *)
(* lookup key (which language asks), on the content it is given and on the *)
(* version of the loader itself, so a computed value is that triple.  The  *)
(* path a row belongs to is left out: two paths never share a row.  A path *)
(* with no *fileEntry and a path whose *fileEntry is empty are the same:   *)
(* no code tells them apart.                                               *)
(***************************************************************************)
CONSTANTS Path,     \* workspace-relative paths of the files
          Key,      \* lookup keys, e.g. "kotlin.Parse" or a hash of queries
          Content,  \* what a file may contain
          Build,    \* versions of the program (buildinfo.GitCommit)
          Absent,   \* in place of a content: the file cannot be read
          None,     \* in place of a value: nothing is cached
          Err       \* in place of a value: the lookup returned an error

ASSUME AbsentAssumption == Absent \notin Content

Value == [key : Key, content : Content, build : Build]

ASSUME NoValueAssumption == None \notin Value /\ Err \notin Value /\ None # Err

\* What the loader returns for key k from content c, in a process of build b.
Compute(k, c, b) == [key |-> k, content |-> c, build |-> b]

Row == [Key -> Value \cup {None}]
EmptyRow == [k \in Key |-> None]
NoEntries == [p \in Path |-> EmptyRow]

\* Mutant of Evict: Invalidate forgets to delete.
EvictNothing(e, P) == e

\* FileComputeCache.Invalidate
Evict(e, P) == [p \in Path |-> IF p \in P THEN EmptyRow ELSE e[p]]

\* fileEntry.loadOrStore: the first value stored for a key stays.
StoreFirst(e, p, k, v) ==
    IF e[p][k] = None THEN [e EXCEPT ![p] = [@ EXCEPT ![k] = v]] ELSE e
==============================================================================
