---------------------------- MODULE ContentLookup ----------------------------
(***************************************************************************)
(* What a cache promises the language extensions that call LoadOrStoreFile *)
(* (the interface Cache of common/cache/cache.go): the answer is what the  *)
(* loader computes from a content the file had, recently enough.           *)
(*                                                                         *)
(* "Recently enough" is the variable seen: the contents a file has had     *)
(* since the cache was last told that it changed.  A cache that reads the  *)
(* file on every lookup keeps it a singleton; a cache that trusts change   *)
(* notifications may answer from any content in it.                        *)
(***************************************************************************)
EXTENDS FileCompute

CONSTANTS Worker, NoBuild

VARIABLES fs,     \* the content of each file, or Absent
          seen,   \* the contents a lookup may still answer from
          build,  \* the build of the running process, or NoBuild
          call    \* the call each worker is in

callVars == <<fs, seen, build, call>>

IdleCall == [pc |-> "idle", path |-> CHOOSE p \in Path : TRUE,
             key |-> CHOOSE k \in Key : TRUE, content |-> Absent, res |-> None]

Init ==
    /\ fs \in [Path -> Content \cup {Absent}]
    /\ seen = [p \in Path |-> {fs[p]}]
    /\ build = NoBuild
    /\ call = [w \in Worker |-> IdleCall]

\* A file changes, under all the names P it has, and the cache learns of it now
\* or later.
Edit(P, c) ==
    /\ fs' = [p \in Path |-> IF p \in P THEN c ELSE fs[p]]
    /\ \/ seen' = [p \in Path |-> IF p \in P THEN seen[p] \cup {c} ELSE seen[p]]
       \/ seen' = [p \in Path |-> IF p \in P THEN {c} ELSE seen[p]]
    /\ UNCHANGED <<build, call>>

\* The cache learns that the files P may have changed.
Notify(P) ==
    /\ seen' = [p \in Path |-> IF p \in P THEN {fs[p]} ELSE seen[p]]
    /\ UNCHANGED <<fs, build, call>>

\* A process starts; it has been told nothing, so it may trust nothing older.
Start(b) ==
    /\ build' = b
    /\ seen' = [p \in Path |-> {fs[p]}]
    /\ UNCHANGED <<fs, call>>

Stop ==
    /\ build' = NoBuild
    /\ call' = [w \in Worker |-> IdleCall]
    /\ seen' \in {seen, [p \in Path |-> {fs[p]}]}
    /\ UNCHANGED fs

Call(w, p, k) ==
    /\ build # NoBuild
    /\ call[w].pc = "idle"
    /\ call' = [call EXCEPT ![w] = [pc |-> "called", path |-> p, key |-> k,
                                    content |-> Absent, res |-> None]]
    /\ UNCHANGED <<fs, seen, build>>

Answers(k, c) == IF c = Absent THEN {Err} ELSE {Compute(k, c, build), Err}

\* The lookup settles on a content ...
Sample(w) ==
    /\ call[w].pc = "called"
    /\ \E c \in seen[call[w].path] :
          call' = [call EXCEPT ![w].pc = "sampled", ![w].content = c]
    /\ UNCHANGED <<fs, seen, build>>

\* ... and answers what the loader makes of it, ...
Answer(w) ==
    /\ call[w].pc = "sampled"
    /\ \E r \in Answers(call[w].key, call[w].content) :
          call' = [call EXCEPT ![w].pc = "done", ![w].res = r]
    /\ UNCHANGED <<fs, seen, build>>

\* ... or does both at once.
AnswerAtOnce(w) ==
    /\ call[w].pc = "called"
    /\ \E c \in seen[call[w].path] : \E r \in Answers(call[w].key, c) :
          call' = [call EXCEPT ![w].pc = "done", ![w].content = c, ![w].res = r]
    /\ UNCHANGED <<fs, seen, build>>

Return(w) ==
    /\ call[w].pc = "done"
    /\ call' = [call EXCEPT ![w] = IdleCall]
    /\ UNCHANGED <<fs, seen, build>>

Next ==
    \/ \E P \in SUBSET Path, c \in Content \cup {Absent} : Edit(P, c)
    \/ \E P \in SUBSET Path : Notify(P)
    \/ \E b \in Build : Start(b)
    \/ Stop
    \/ \E w \in Worker, p \in Path, k \in Key : Call(w, p, k)
    \/ \E w \in Worker : Sample(w) \/ Answer(w) \/ AnswerAtOnce(w) \/ Return(w)

Spec == Init /\ [][Next]_callVars
==============================================================================
