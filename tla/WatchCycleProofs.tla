-------------------------- MODULE WatchCycleProofs --------------------------
(***************************************************************************)
(* Proofs about WatchCycle: its types, what may be relied on in the walk   *)
(* cache carried from one run to the next (CacheTrue), and that the        *)
(* incremental runs lead to what a full run would, but for the directories *)
(* the walk cache hides (Converged).                                       *)
(*                                                                         *)
(* The order of the argument: facts about the tree (the ancestors of a     *)
(* directory, the nearest of them with a BUILD file, the directories that  *)
(* exist), the invariant of what is read (ReadInv), the invariant of what  *)
(* is up to date (PhaseInv), the theorems.                                 *)
(***************************************************************************)
EXTENDS WatchCycle, TLAPS

(***************************************************************************)
(* The tree.                                                               *)
(***************************************************************************)

\* The workspace is its own parent.
LEMMA TreeShape ==
    /\ Root \in Dir /\ Parent[Root] = Root
    /\ \A d \in Dir : Parent[d] \in Dir
BY TreeAssumption

\* AncestorsOf, a recursive function, is what its definition says: there is a
\* function with that equation, the one to the least set with the directory
\* that is closed under Parent.
LEMMA AncestorsDef ==
    AncestorsOf = [d \in Dir |-> {d} \cup IF d = Root THEN {} ELSE AncestorsOf[Parent[d]]]
<1> DEFINE Closed(S) == \A x \in S : Parent[x] \in S
           Least(d) == {e \in Dir : \A S \in SUBSET Dir : d \in S /\ Closed(S) => e \in S}
           f == [d \in Dir |-> Least(d)]
<1>1. Least(Root) = {Root}
  <2>1. {Root} \in SUBSET Dir /\ Closed({Root}) /\ Root \in {Root} BY TreeShape
  <2>2. Least(Root) \subseteq {Root} BY <2>1
  <2> QED BY <2>2, TreeShape
<1>2. ASSUME NEW d \in Dir, d # Root
      PROVE  Least(d) = {d} \cup Least(Parent[d])
  <2>1. Parent[d] \in Dir BY TreeAssumption
  <2>2. Least(d) \subseteq {d} \cup Least(Parent[d])
    <3> SUFFICES ASSUME NEW e \in Least(d), e # d,
                        NEW S \in SUBSET Dir, Parent[d] \in S, Closed(S)
                 PROVE  e \in S
      OBVIOUS
    <3>1. S \cup {d} \in SUBSET Dir /\ Closed(S \cup {d}) /\ d \in S \cup {d}
      OBVIOUS
    <3> QED BY <3>1
  <2>3. ASSUME NEW S \in SUBSET Dir, d \in S, Closed(S)
        PROVE  Parent[d] \in S /\ Closed(S)
    BY <2>3
  <2>4. {d} \cup Least(Parent[d]) \subseteq Least(d) BY <2>3
  <2> QED BY <2>2, <2>4
<1> HIDE DEF Least
<1>3. \A d \in Dir : Least(d) = {d} \cup IF d = Root THEN {} ELSE f[Parent[d]]
  BY <1>1, <1>2, TreeShape
<1>4. f = [d \in Dir |-> {d} \cup IF d = Root THEN {} ELSE f[Parent[d]]]
  BY <1>3
<1> HIDE DEF f
<1> QED BY <1>4 DEF AncestorsOf

\* The ancestors of a directory are itself and those of its parent.
LEMMA AncestorsStep ==
    /\ AncestorsOf[Root] = {Root}
    /\ \A d \in Dir \ {Root} : AncestorsOf[d] = {d} \cup AncestorsOf[Parent[d]]
BY AncestorsDef, TreeAssumption

\* They are directories, it and the workspace among them.
LEMMA AncestorsType ==
    \A d \in Dir : AncestorsOf[d] \subseteq Dir /\ d \in AncestorsOf[d] /\ Root \in AncestorsOf[d]
<1> DEFINE S == {d \in Dir : AncestorsOf[d] \subseteq Dir /\ Root \in AncestorsOf[d]}
<1>1. Root \in S BY AncestorsStep, TreeAssumption
<1>2. ASSUME NEW d \in Dir, Parent[d] \in S
      PROVE  d \in S
  BY <1>1, <1>2, AncestorsStep
<1>3. S \in SUBSET Dir OBVIOUS
<1> HIDE DEF S
<1>4. S = Dir BY <1>1, <1>2, <1>3, TreeAssumption
<1>5. \A d \in Dir : d \in AncestorsOf[d] BY AncestorsStep
<1> QED BY <1>4, <1>5 DEF S

\* What is above an ancestor is above the directory.
LEMMA AncestorsUp ==
    ASSUME NEW d \in Dir, NEW e \in AncestorsOf[d]
    PROVE  AncestorsOf[e] \subseteq AncestorsOf[d]
<1> DEFINE S == {x \in Dir : \A y \in AncestorsOf[x] : AncestorsOf[y] \subseteq AncestorsOf[x]}
<1>1. Root \in S BY AncestorsStep, TreeAssumption
<1>2. ASSUME NEW x \in Dir, Parent[x] \in S
      PROVE  x \in S
  <2>1. CASE x = Root BY <2>1, <1>1
  <2>2. CASE x # Root BY <2>2, <1>2, AncestorsStep
  <2> QED BY <2>1, <2>2
<1>3. S \in SUBSET Dir OBVIOUS
<1> HIDE DEF S
<1>4. S = Dir BY <1>1, <1>2, <1>3, TreeAssumption
<1> QED BY <1>4 DEF S

\* Induction from the workspace down to a directory: a set with the workspace
\* and, of the directories on the way, each whose parent it has, has them all.
LEMMA PathInduction ==
    ASSUME NEW x \in Dir, NEW V \in SUBSET Dir, Root \in V,
           \A a \in AncestorsOf[x] : a # Root /\ Parent[a] \in V => a \in V
    PROVE  AncestorsOf[x] \subseteq V
<1> DEFINE S == {a \in Dir : a \in AncestorsOf[x] => a \in V}
<1>1. Root \in S BY TreeAssumption
<1>2. ASSUME NEW d \in Dir, Parent[d] \in S
      PROVE  d \in S
  <2>1. CASE d \notin AncestorsOf[x] \/ d = Root BY <2>1, <1>1
  <2>2. CASE d \in AncestorsOf[x] /\ d # Root
    <3>1. Parent[d] \in Dir BY TreeAssumption
    <3>2. Parent[d] \in AncestorsOf[x]
      BY <2>2, <3>1, AncestorsUp, AncestorsStep, AncestorsType
    <3> QED BY <2>2, <3>2, <1>2
  <2> QED BY <2>1, <2>2
<1>3. S \in SUBSET Dir OBVIOUS
<1> HIDE DEF S
<1>4. S = Dir BY <1>1, <1>2, <1>3, TreeAssumption
<1> QED BY <1>4, AncestorsType DEF S

\* With a BUILD file in the workspace there is a nearest one above every
\* directory.
LEMMA NearestBuild ==
    ASSUME build[Root] # None, NEW x \in Dir
    PROVE  \E b \in AncestorsOf[x] :
             /\ build[b] # None
             /\ \A e \in AncestorsOf[x] : build[e] # None => e \in AncestorsOf[b]
<1> DEFINE Nearest(d, b) ==
             /\ build[b] # None
             /\ \A e \in AncestorsOf[d] : build[e] # None => e \in AncestorsOf[b]
           S == {d \in Dir : \E b \in AncestorsOf[d] : Nearest(d, b)}
<1>1. Root \in S BY AncestorsStep, TreeAssumption
<1>2. ASSUME NEW d \in Dir, Parent[d] \in S
      PROVE  d \in S
  <2>1. CASE d = Root BY <2>1, <1>1
  <2>2. CASE d # Root /\ build[d] # None BY <2>2, AncestorsType
  <2>3. CASE d # Root /\ build[d] = None
    <3>1. PICK b \in AncestorsOf[Parent[d]] : Nearest(Parent[d], b) BY <1>2
    <3>2. b \in AncestorsOf[d] /\ Nearest(d, b) BY <2>3, <3>1, AncestorsStep
    <3> QED BY <3>2
  <2> QED BY <2>1, <2>2, <2>3
<1>3. S \in SUBSET Dir OBVIOUS
<1> HIDE DEF S
<1>4. S = Dir BY <1>1, <1>2, <1>3, TreeAssumption
<1> QED BY <1>4 DEF S

\* With a BUILD file in the workspace, computeUpdatedDirs leaves no change out:
\* each is in or below a directory to update.
LEMMA ChangesUpdated ==
    ASSUME build[Root] # None, NEW D \in SUBSET Dir, NEW x \in D
    PROVE  x \in Below(UpdatedDirs(D))
<1>1. PICK b \in AncestorsOf[x] :
        /\ build[b] # None
        /\ \A e \in AncestorsOf[x] : build[e] # None => e \in AncestorsOf[b]
  BY NearestBuild
<1>2. b \in Dir /\ \A e \in AncestorsOf[x] : e \in Dir BY AncestorsType
<1>3. b \in UpdatedDirs(D)
  BY <1>1, <1>2 DEF UpdatedDirs, Below
<1> QED BY <1>1, <1>3 DEF Below

\* A directory has a source or a BUILD file.
Occupied(d) == src[d] # Absent \/ build[d] # None

\* What is above an occupied directory exists.
LEMMA AboveOccupied ==
    ASSUME NEW x \in Dir, Occupied(x), NEW a \in AncestorsOf[x]
    PROVE  Exists(a) /\ a \in Tree
BY AncestorsType DEF Exists, Tree, Below, Occupied

(***************************************************************************)
(* The invariant of what is read.                                          *)
(***************************************************************************)

\* A cached listing tells whether there is a source, unless that has changed.
SrcInv ==
    \A d \in Dir \ changed : walkCache[d] # None => (walkCache[d].src <=> src[d] # Absent)

\* No listing is older than the run, and nothing has changed since it began.
Steady == ~useCache /\ changed = {}

\* Then a listing names the directories in it.
SubdirsInv ==
    Steady => \A d \in Dir : walkCache[d] # None =>
                  walkCache[d].subdirs = {e \in Tree \ {Root} : Parent[e] = d}

\* Without a walk cache the listings lead to what has not changed.
PathInv ==
    useCache \/ \A x \in Dir \ changed : Occupied(x) =>
        \A a \in AncestorsOf[x] :
            a # Root /\ walkCache[Parent[a]] # None => a \in walkCache[Parent[a]].subdirs

\* A visited directory has been listed; what is generated is for those visited
\* of the directories to update, from the source, unless that has changed.
VisitInv ==
    /\ \A d \in visited : walkCache[d] # None
    /\ \A d \in Dir : d \notin visited \/ d \notin update => gen[d] = None
    /\ \A d \in visited \cap update : gen[d] # None /\ (d \notin changed => gen[d] = src[d])

ReadInv == TypeOK /\ SrcInv /\ SubdirsInv /\ PathInv /\ VisitInv

LEMMA ReadInvInit == Init => ReadInv
<1> SUFFICES ASSUME Init PROVE ReadInv OBVIOUS
<1> USE DEF Init
<1>1. TypeOK BY DEF TypeOK, Phase, NoListings, Nothing
<1>2. SrcInv BY DEF SrcInv, NoListings
<1>3. SubdirsInv BY DEF SubdirsInv, NoListings
<1>4. PathInv
  <2>1. \A d \in Dir : walkCache[d] = None BY DEF NoListings
  <2> QED BY <2>1, AncestorsType, TreeShape DEF PathInv
<1>5. VisitInv BY TreeAssumption DEF VisitInv, Nothing
<1> QED BY <1>1, <1>2, <1>3, <1>4, <1>5 DEF ReadInv

\* The parts that only read the variables of the tree and of the cache.
Cached == SrcInv /\ SubdirsInv /\ PathInv

\* A step that leaves the tree and the cache alone keeps those parts.
LEMMA CachedKept ==
    ASSUME Cached, UNCHANGED <<src, build, changed, useCache, walkCache>>
    PROVE  Cached'
BY DEF Cached, SrcInv, SubdirsInv, PathInv, Steady, Occupied, Tree, Exists, Below

\* A change of one directory, by a user or the host, keeps ReadInv.
LEMMA ChangeKeepsReadInv ==
    ASSUME ReadInv, NEW d \in Dir, Changed(d),
           src' \in [Dir -> Version \cup {Absent}],
           build' \in [Dir -> Version \cup {Absent, None}],
           \A x \in Dir \ {d} : src'[x] = src[x] /\ build'[x] = build[x]
    PROVE  ReadInv'
<1> USE DEF ReadInv
<1>0. /\ changed' = changed \cup {d}
      /\ UNCHANGED <<phase, update, useCache, walkCache, visited, gen>>
  BY DEF Changed
<1>1. TypeOK' BY <1>0 DEF TypeOK
<1>2. SrcInv' BY <1>0 DEF SrcInv
<1>4. SubdirsInv' BY <1>0 DEF SubdirsInv, Steady
<1>5. PathInv' BY <1>0 DEF PathInv, Occupied
<1>6. VisitInv'
  <2>1. d \in changed' BY <1>0
  <2>2. \A x \in visited' \cap update' :
            gen'[x] # None /\ (x \notin changed' => gen'[x] = src'[x])
    BY <1>0, <2>1 DEF VisitInv, TypeOK
  <2> QED BY <1>0, <2>2 DEF VisitInv
<1> QED BY <1>1, <1>2, <1>4, <1>5, <1>6

\* The start of a run leaves nothing visited and nothing generated.
LEMMA RunResets ==
    ASSUME NEW args \in SUBSET Dir, Run(args)
    PROVE  /\ phase' = "walk" /\ update' \in SUBSET Dir
           /\ visited' = {} /\ \A d \in Dir : gen'[d] = None
           /\ gen' \in [Dir -> Version \cup {Absent, None}]
           /\ VisitInv'
<1>1. /\ phase' = "walk" /\ update' \in SUBSET Dir
      /\ visited' = {} /\ gen' = [d \in Dir |-> None]
  BY DEF Run, Below, Nothing
<1>2. VisitInv' BY <1>1, TreeAssumption DEF VisitInv
<1> QED BY <1>1, <1>2

\* A new reading of a directory, the cache kept otherwise, keeps what is known of
\* the cache.
LEMMA ReadKeepsCached ==
    ASSUME TypeOK, Cached, NEW d \in Dir, UNCHANGED <<src, build, changed, useCache>>,
           walkCache' = [walkCache EXCEPT ![d] = ReadDir(d)]
    PROVE  Cached' /\ walkCache' \in [Dir -> Listing \cup {None}] /\ walkCache'[d] # None
<1>1. ReadDir(d) \in Listing BY DEF ReadDir, Listing, Tree
<1>2. walkCache' \in [Dir -> Listing \cup {None}] BY <1>1 DEF TypeOK
<1>3. SrcInv' BY DEF SrcInv, ReadDir, TypeOK, Cached
<1>4. SubdirsInv'
  <2>1. Tree' = Tree /\ (Steady' <=> Steady) BY DEF Tree, Exists, Below, Steady
  <2> QED BY <2>1 DEF SubdirsInv, ReadDir, TypeOK, Cached
<1>5. PathInv'
  <2> SUFFICES ASSUME ~useCache, NEW x \in Dir \ changed, Occupied(x),
                      NEW a \in AncestorsOf[x], a # Root, walkCache'[Parent[a]] # None
               PROVE  a \in walkCache'[Parent[a]].subdirs
    BY DEF PathInv, Occupied
  <2>1. a \in Dir /\ Parent[a] \in Dir BY AncestorsType, TreeShape
  <2>2. CASE Parent[a] = d
    <3>1. a \in Tree \ {Root} BY AboveOccupied
    <3> QED BY <2>1, <2>2, <3>1 DEF ReadDir, TypeOK
  <2>3. CASE Parent[a] # d
    <3>1. walkCache'[Parent[a]] = walkCache[Parent[a]] BY <2>1, <2>3 DEF TypeOK
    <3> QED BY <3>1 DEF PathInv, Cached
  <2> QED BY <2>2, <2>3
<1>6. walkCache'[d] # None BY <1>1, NoneAssumption DEF TypeOK
<1> QED BY <1>2, <1>3, <1>4, <1>5, <1>6 DEF Cached

\* A visit reads what is not cached and generates, in a directory to update, from
\* what the listing says of the source.
LEMMA VisitKeepsReadInv ==
    ASSUME ReadInv, NEW d \in Dir, Visit(d)
    PROVE  ReadInv'
<1> USE DEF ReadInv
<1> DEFINE g == IF d \notin update THEN None ELSE IF walkCache'[d].src THEN src[d] ELSE Absent
<1>0. /\ UNCHANGED <<src, build, changed, phase, update, useCache>>
      /\ visited' = visited \cup {d} /\ gen' = [gen EXCEPT ![d] = g]
      /\ d \in update /\ walkCache'[d].src => src[d] # Absent
      /\ walkCache' = IF walkCache[d] = None THEN [walkCache EXCEPT ![d] = ReadDir(d)]
                      ELSE walkCache
  BY DEF Visit, tree
<1>1. Cached' /\ walkCache' \in [Dir -> Listing \cup {None}] /\ walkCache'[d] # None
  <2>1. CASE walkCache[d] = None BY <1>0, <2>1, ReadKeepsCached DEF Cached
  <2>2. CASE walkCache[d] # None BY <1>0, <2>2, CachedKept DEF Cached, TypeOK
  <2> QED BY <2>1, <2>2
<1>2. /\ g \in Version \cup {Absent, None}
      /\ d \notin update => g = None
      /\ d \in update => g # None /\ (d \notin changed => g = src[d])
      /\ g \in Version => g = src[d]
  <2>1. src[d] \in Version \cup {Absent} BY DEF TypeOK
  <2>2. d \notin changed => (walkCache'[d].src <=> src[d] # Absent)
    BY <1>0, <1>1 DEF Cached, SrcInv
  <2> QED BY <2>1, <2>2, TreeAssumption
<1> HIDE DEF g
<1>3. /\ gen' \in [Dir -> Version \cup {Absent, None}] /\ gen'[d] = g
      /\ \A x \in Dir \ {d} : gen'[x] = gen[x]
  BY <1>0, <1>2 DEF TypeOK
<1>4. TypeOK' BY <1>0, <1>1, <1>3 DEF TypeOK
<1>5. VisitInv'
  <2>1. \A x \in visited' : walkCache'[x] # None
    BY <1>0, <1>1 DEF VisitInv, TypeOK
  <2>2. \A x \in Dir : x \notin visited' \/ x \notin update' => gen'[x] = None
    BY <1>0, <1>2, <1>3 DEF VisitInv
  <2>3. \A x \in visited' \cap update' :
            gen'[x] # None /\ (x \notin changed' => gen'[x] = src'[x])
    BY <1>0, <1>2, <1>3 DEF VisitInv, TypeOK
  <2> QED BY <2>1, <2>2, <2>3 DEF VisitInv
<1> QED BY <1>1, <1>4, <1>5 DEF Cached

\* The end of a run: a BUILD file is written only where there was one or where a
\* source has been read.
LEMMA EmitWrites ==
    ASSUME ReadInv, Emit
    PROVE  /\ build' \in [Dir -> Version \cup {Absent, None}]
           /\ \A d \in Dir : /\ build[d] # None => build'[d] # None
                             /\ build'[d] # None => build[d] # None \/ gen[d] \in Version
<1>1. build' = [d \in Dir |-> Written(d)] BY DEF Emit
<1>2. \A d \in Dir : /\ Written(d) \in Version \cup {Absent, None}
                     /\ build[d] # None => Written(d) # None
                     /\ Written(d) # None => build[d] # None \/ gen[d] \in Version
  BY TreeAssumption DEF Written, ReadInv, TypeOK
<1> QED BY <1>1, <1>2

\* So that it occupies no directory that was not occupied, unless that has changed.
LEMMA EmitOccupies ==
    ASSUME ReadInv, Emit, NEW x \in Dir \ changed, Occupied(x)'
    PROVE  Occupied(x)
<1>0. src' = src BY DEF Emit
<1>1. CASE gen[x] \in Version
  <2>1. x \in visited \cap update BY <1>1, TreeAssumption DEF ReadInv, VisitInv
  <2>2. src[x] \in Version BY <1>1, <2>1 DEF ReadInv, VisitInv
  <2> QED BY <2>2, TreeAssumption DEF Occupied
<1>2. CASE gen[x] \notin Version BY <1>0, <1>2, EmitWrites DEF Occupied
<1> QED BY <1>1, <1>2

\* And that no directory comes or goes with it, when nothing has changed.
LEMMA EmitKeepsTree ==
    ASSUME ReadInv, Emit, Steady
    PROVE  Tree' = Tree
<1>0. src' = src BY DEF Emit
<1>1. \A e \in Dir : Occupied(e) <=> Occupied(e)'
  BY <1>0, EmitWrites, EmitOccupies DEF Occupied, Steady
<1>2. \A d \in Dir : Exists(d)' <=> Exists(d)
  <2>1. \A d \in Dir : Exists(d) <=> d = Root \/ \E e \in Below({d}) : Occupied(e)
    BY DEF Exists, Occupied
  <2>2. \A d \in Dir : Exists(d)' <=> d = Root \/ \E e \in Below({d}) : Occupied(e)'
    BY DEF Exists, Occupied
  <2>3. \A d \in Dir : Below({d}) \subseteq Dir BY DEF Below
  <2> QED BY <1>1, <2>1, <2>2, <2>3
<1> QED BY <1>2 DEF Tree

LEMMA EmitKeepsReadInv ==
    ASSUME ReadInv, Emit
    PROVE  ReadInv'
<1>0. /\ UNCHANGED <<src, changed, useCache, walkCache>>
      /\ phase' = "await" /\ update' = {} /\ visited' = {} /\ gen' = [d \in Dir |-> None]
  BY DEF Emit, Nothing
<1>1. TypeOK' BY <1>0, EmitWrites DEF ReadInv, TypeOK, Phase
<1>2. SrcInv' BY <1>0 DEF ReadInv, SrcInv
<1>3. SubdirsInv'
  <2>1. Steady' => Steady /\ Tree' = Tree BY <1>0, EmitKeepsTree DEF Steady
  <2> QED BY <1>0, <2>1 DEF ReadInv, SubdirsInv
<1>4. PathInv'
  <2>1. \A x \in Dir \ changed : Occupied(x)' => Occupied(x) BY EmitOccupies
  <2>2. PathInv BY DEF ReadInv
  <2> QED BY <1>0, <2>1, <2>2 DEF PathInv
<1>5. VisitInv' BY <1>0, TreeAssumption DEF VisitInv
<1> QED BY <1>1, <1>2, <1>3, <1>4, <1>5 DEF ReadInv

\* A cycle with the cache kept takes the listings of what has changed out of it.
LEMMA PruneKeepsCached ==
    ASSUME ReadInv, useCache, changed' = {}, UNCHANGED <<src, build, useCache>>,
           walkCache' = Prune(changed)
    PROVE  Cached' /\ walkCache' \in [Dir -> Listing \cup {None}]
<1> USE DEF ReadInv
<1>1. \A d \in Dir : walkCache'[d] # None => walkCache'[d] = walkCache[d] /\ d \notin changed
  BY AncestorsType DEF Prune, Below
<1>2. walkCache' \in [Dir -> Listing \cup {None}] BY DEF Prune, TypeOK
<1>3. SrcInv' BY <1>1 DEF SrcInv
<1>4. SubdirsInv' /\ PathInv' BY DEF SubdirsInv, PathInv, Steady
<1> QED BY <1>2, <1>3, <1>4 DEF Cached

LEMMA EmptyCached ==
    ASSUME walkCache' = NoListings
    PROVE  Cached' /\ walkCache' \in [Dir -> Listing \cup {None}]
<1>1. \A d \in Dir : walkCache'[d] = None BY DEF NoListings
<1>2. PathInv' BY <1>1, AncestorsType, TreeShape DEF PathInv
<1> QED BY <1>1, <1>2 DEF Cached, SrcInv, SubdirsInv, NoListings

\* The step that begins a run, by what it makes of the cache.
LEMMA RunKeepsReadInv ==
    ASSUME ReadInv, NEW args \in SUBSET Dir, Run(args), UNCHANGED <<src, build, useCache>>,
           changed' \in SUBSET Dir, Cached', walkCache' \in [Dir -> Listing \cup {None}]
    PROVE  ReadInv'
<1>1. TypeOK' BY RunResets DEF ReadInv, TypeOK, Phase
<1>2. VisitInv' BY RunResets
<1> QED BY <1>1, <1>2 DEF ReadInv, Cached

LEMMA ReadInvStep ==
    ASSUME ReadInv, [Next]_vars
    PROVE  ReadInv'
<1>0. TypeOK /\ Cached /\ VisitInv BY DEF ReadInv, Cached
<1>1. ASSUME NEW d \in Dir, NEW v \in Version \cup {Absent}, Edit(d, v)
      PROVE  ReadInv'
  <2>1. /\ Changed(d) /\ build' = build /\ src' = [src EXCEPT ![d] = v] BY <1>1 DEF Edit
  <2>2. src' \in [Dir -> Version \cup {Absent}] BY <1>0, <2>1 DEF TypeOK
  <2>3. \A x \in Dir \ {d} : src'[x] = src[x] /\ build'[x] = build[x]
    BY <1>0, <2>1 DEF TypeOK
  <2>4. build' \in [Dir -> Version \cup {Absent, None}] BY <1>0, <2>1 DEF TypeOK
  <2> QED BY <2>1, <2>2, <2>3, <2>4, ChangeKeepsReadInv
<1>2. ASSUME NEW d \in Dir, EditBuild(d)
      PROVE  ReadInv'
  <2>1. /\ Changed(d) /\ src' = src
        /\ build' \in {[build EXCEPT ![d] = Absent], [build EXCEPT ![d] = None]}
    BY <1>2 DEF EditBuild
  <2>2. src' \in [Dir -> Version \cup {Absent}] BY <1>0, <2>1 DEF TypeOK
  <2>3. \A x \in Dir \ {d} : src'[x] = src[x] /\ build'[x] = build[x]
    BY <1>0, <2>1 DEF TypeOK
  <2>4. build' \in [Dir -> Version \cup {Absent, None}] BY <1>0, <2>1 DEF TypeOK
  <2> QED BY <2>1, <2>2, <2>3, <2>4, ChangeKeepsReadInv
<1>3. CASE FirstRun
  <2>1. Run({}) /\ UNCHANGED <<src, build, changed, useCache, walkCache>>
    BY <1>3 DEF FirstRun, tree
  <2>2. Cached' BY <1>0, <2>1, CachedKept
  <2>3. changed' \in SUBSET Dir /\ walkCache' \in [Dir -> Listing \cup {None}]
    BY <1>0, <2>1 DEF TypeOK
  <2> QED BY <2>1, <2>2, <2>3, RunKeepsReadInv
<1>4. CASE Cycle
  <2>1. /\ Run(UpdatedDirs(changed)) /\ UNCHANGED <<src, build, useCache>> /\ changed' = {}
        /\ walkCache' = IF useCache THEN Prune(changed) ELSE NoListings
    BY <1>4 DEF Cycle
  <2>2. Cached' /\ walkCache' \in [Dir -> Listing \cup {None}]
    BY <2>1, PruneKeepsCached, EmptyCached
  <2>3. UpdatedDirs(changed) \in SUBSET Dir BY DEF UpdatedDirs
  <2> QED BY <2>1, <2>2, <2>3, RunKeepsReadInv
<1>5. CASE CycleReset
  <2>1. /\ Run({}) /\ UNCHANGED <<src, build, useCache>> /\ changed' = {}
        /\ walkCache' = NoListings
    BY <1>5 DEF CycleReset
  <2> QED BY <2>1, EmptyCached, RunKeepsReadInv
<1>6. CASE Emit BY <1>6, EmitKeepsReadInv
<1>7. ASSUME NEW d \in Dir, Populate(d)
      PROVE  ReadInv'
  <2>1. /\ UNCHANGED <<src, build, changed, phase, update, useCache, visited, gen>>
        /\ walkCache' = [walkCache EXCEPT ![d] = ReadDir(d)]
    BY <1>7 DEF Populate, tree
  <2>2. Cached' /\ walkCache' \in [Dir -> Listing \cup {None}] /\ walkCache'[d] # None
    BY <1>0, <2>1, ReadKeepsCached
  <2>3. TypeOK' BY <1>0, <2>1, <2>2 DEF TypeOK
  <2>4. \A x \in visited' : walkCache'[x] # None
    BY <1>0, <2>1, <2>2 DEF VisitInv, TypeOK
  <2>5. VisitInv' BY <1>0, <2>1, <2>4 DEF VisitInv
  <2> QED BY <2>2, <2>3, <2>5 DEF ReadInv, Cached
<1>8. ASSUME NEW d \in Dir, Visit(d)
      PROVE  ReadInv'
  BY <1>8, VisitKeepsReadInv
<1>9. ASSUME NEW d \in Dir, VisitFails(d)
      PROVE  ReadInv'
  <2>1. /\ UNCHANGED <<src, build, changed, update, useCache, walkCache, visited, gen>>
        /\ phase' = "ended"
    BY <1>9 DEF VisitFails, tree
  <2>2. TypeOK' BY <1>0, <2>1 DEF TypeOK, Phase
  <2>3. Cached' BY <1>0, <2>1, CachedKept
  <2>4. VisitInv' BY <1>0, <2>1 DEF VisitInv
  <2> QED BY <2>2, <2>3, <2>4 DEF ReadInv, Cached
<1>10. CASE UNCHANGED vars
  <2>1. UNCHANGED <<src, build, changed, phase, update, useCache, walkCache, visited, gen>>
    BY <1>10 DEF vars
  <2>2. TypeOK' BY <1>0, <2>1 DEF TypeOK
  <2>3. Cached' BY <1>0, <2>1, CachedKept
  <2>4. VisitInv' BY <1>0, <2>1 DEF VisitInv
  <2> QED BY <2>2, <2>3, <2>4 DEF ReadInv, Cached
<1> QED
  BY <1>1, <1>2, <1>3, <1>4, <1>5, <1>6, <1>7, <1>8, <1>9, <1>10 DEF Next, Loop

(***************************************************************************)
(* The invariant of what is up to date.                                    *)
(***************************************************************************)

\* During a run what is not to update is up to date or hidden, unless it has changed.
WalkInv ==
    phase = "walk" => \A x \in Dir \ (changed \cup update) : UpToDate(x) \/ Hidden(x)

\* Between runs all of it is.
AwaitInv == phase = "await" => \A x \in Dir \ changed : UpToDate(x) \/ Hidden(x)

PhaseInv == build[Root] # None /\ WalkInv /\ AwaitInv

LEMMA PhaseInvInit == RootBuild /\ Init => PhaseInv
BY DEF Init, PhaseInv, WalkInv, AwaitInv

\* A change disturbs what is up to date in its directory only, and no listing.
LEMMA ChangeKeepsPhaseInv ==
    ASSUME PhaseInv, NEW d \in Dir, Changed(d), build'[Root] # None,
           \A x \in Dir \ {d} : src'[x] = src[x] /\ build'[x] = build[x]
    PROVE  PhaseInv'
<1>0. changed' = changed \cup {d} /\ UNCHANGED <<phase, update, useCache, walkCache>>
  BY DEF Changed
<1>1. \A x \in Dir \ {d} : UpToDate(x)' <=> UpToDate(x) BY DEF UpToDate
<1>2. \A x \in Dir : Hidden(x)' <=> Hidden(x) BY <1>0 DEF Hidden
<1>3. WalkInv' BY <1>0, <1>1, <1>2 DEF PhaseInv, WalkInv
<1>4. AwaitInv' BY <1>0, <1>1, <1>2 DEF PhaseInv, AwaitInv
<1> QED BY <1>3, <1>4 DEF PhaseInv

\* A run begins with what is not up to date among the directories to update.
LEMMA RunKeepsPhaseInv ==
    ASSUME PhaseInv, NEW args \in SUBSET Dir, Run(args), UNCHANGED <<src, build>>,
           \A x \in Dir : args # {} => x \in Below(args) \/ UpToDate(x) \/ Hidden(x)'
    PROVE  PhaseInv'
<1>1. phase' = "walk" /\ update' = IF args = {} THEN Dir ELSE Below(args) BY DEF Run
<1>2. \A x \in Dir : UpToDate(x)' <=> UpToDate(x) BY DEF UpToDate
<1> QED BY <1>1, <1>2 DEF PhaseInv, WalkInv, AwaitInv

\* What was hidden stays so when a cycle has pruned the cache, or is updated: the
\* listing that hides it goes only for a change above it.
LEMMA PruneHides ==
    ASSUME ReadInv, PhaseInv, NEW x \in Dir, Hidden(x), useCache' = useCache,
           walkCache' = Prune(changed)
    PROVE  x \in Below(UpdatedDirs(changed)) \/ Hidden(x)'
<1>1. PICK a \in AncestorsOf[x] \ {Root} :
          walkCache[Parent[a]] # None /\ a \notin walkCache[Parent[a]].subdirs
  BY DEF Hidden
<1>2. a \in Dir /\ Parent[a] \in Dir BY AncestorsType, TreeShape
<1>3. CASE Parent[a] \notin Below(changed)
  <2>1. walkCache'[Parent[a]] = walkCache[Parent[a]] BY <1>2, <1>3 DEF Prune
  <2> QED BY <1>1, <2>1 DEF Hidden
<1>4. CASE Parent[a] \in Below(changed)
  <2>1. PICK c \in changed : c \in AncestorsOf[Parent[a]] BY <1>4 DEF Below
  <2>2. c \in Dir /\ changed \in SUBSET Dir BY DEF ReadInv, TypeOK
  <2>3. c \in AncestorsOf[x]
    BY <1>1, <1>2, <2>1, AncestorsStep, AncestorsUp
  <2>4. PICK b \in UpdatedDirs(changed) : b \in AncestorsOf[c]
    BY <2>2, ChangesUpdated DEF PhaseInv, Below
  <2>5. b \in AncestorsOf[x] BY <2>2, <2>3, <2>4, AncestorsUp
  <2> QED BY <2>4, <2>5 DEF Below
<1> QED BY <1>3, <1>4

\* A listing is read where there is none: what is hidden stays so.
LEMMA ReadHides ==
    ASSUME TypeOK, NEW d \in Dir, walkCache[d] = None, useCache' = useCache,
           walkCache' = [walkCache EXCEPT ![d] = ReadDir(d)], NEW x \in Dir, Hidden(x)
    PROVE  Hidden(x)'
<1>1. PICK a \in AncestorsOf[x] \ {Root} :
          walkCache[Parent[a]] # None /\ a \notin walkCache[Parent[a]].subdirs
  BY DEF Hidden
<1>2. a \in Dir /\ Parent[a] \in Dir BY AncestorsType, TreeShape
<1>3. walkCache'[Parent[a]] = walkCache[Parent[a]] BY <1>1, <1>2 DEF TypeOK
<1> QED BY <1>1, <1>3 DEF Hidden

\* A run ends with every occupied directory visited, unless it has changed or is
\* hidden: the listings lead to it.
LEMMA OccupiedVisited ==
    ASSUME ReadInv, Emit, NEW x \in Dir \ changed, Occupied(x), ~Hidden(x)
    PROVE  x \in visited
<1>1. \A d \in Dir : Known(d) => d \in visited BY DEF Emit
<1>2. Root \in visited BY <1>1, TreeShape DEF Known
<1>3. ASSUME NEW a \in AncestorsOf[x], a # Root, Parent[a] \in visited
      PROVE  a \in visited
  <2>1. a \in Dir /\ Parent[a] \in Dir BY AncestorsType, TreeShape
  <2>2. walkCache[Parent[a]] # None BY <1>3 DEF ReadInv, VisitInv
  <2>3. a \in walkCache[Parent[a]].subdirs BY <1>3, <2>2 DEF ReadInv, PathInv, Hidden
  <2> QED BY <1>1, <1>3, <2>1, <2>3 DEF Known
<1>4. visited \in SUBSET Dir BY DEF ReadInv, TypeOK
<1>5. AncestorsOf[x] \subseteq visited BY <1>2, <1>3, <1>4, PathInduction
<1> QED BY <1>5, AncestorsType

\* So the run ends with all up to date, or hidden, that has not changed since it was
\* reported.
LEMMA EmitKeepsPhaseInv ==
    ASSUME ReadInv, PhaseInv, Emit
    PROVE  PhaseInv'
<1>0. /\ src' = src /\ changed' = changed /\ phase = "walk" /\ phase' = "await"
      /\ build' = [d \in Dir |-> Written(d)] /\ UNCHANGED <<useCache, walkCache>>
  BY DEF Emit
<1>1. build'[Root] # None BY EmitWrites, TreeShape DEF PhaseInv
<1>2. ASSUME NEW x \in Dir \ changed
      PROVE  UpToDate(x)' \/ Hidden(x)'
  <2>1. build'[x] = Written(x) BY <1>0
  <2>2. Hidden(x)' <=> Hidden(x) BY <1>0 DEF Hidden
  <2>3. CASE x \notin update
    <3>1. gen[x] = None BY <2>3 DEF ReadInv, VisitInv
    <3>2. UpToDate(x) \/ Hidden(x) BY <1>0, <2>3 DEF PhaseInv, WalkInv
    <3> QED BY <1>0, <2>1, <2>2, <3>1, <3>2 DEF UpToDate, Written
  <2>4. CASE x \in update /\ x \in visited
    <3>1. gen[x] # None /\ gen[x] = src[x] BY <2>4 DEF ReadInv, VisitInv
    <3> QED BY <1>0, <2>1, <3>1 DEF UpToDate, Written
  <2>5. CASE x \notin visited /\ ~Hidden(x)
    <3>1. gen[x] = None BY <2>5 DEF ReadInv, VisitInv
    <3>2. src[x] = Absent /\ build[x] = None BY <2>5, OccupiedVisited DEF Occupied
    <3> QED BY <1>0, <2>1, <3>1, <3>2 DEF UpToDate, Written
  <2> QED BY <2>2, <2>3, <2>4, <2>5
<1>3. WalkInv' /\ AwaitInv' BY <1>0, <1>2 DEF WalkInv, AwaitInv
<1> QED BY <1>1, <1>3 DEF PhaseInv

LEMMA PhaseInvStep ==
    ASSUME RootBuild, ReadInv, PhaseInv, [Next]_vars
    PROVE  PhaseInv'
<1>1. ASSUME NEW d \in Dir, NEW v \in Version \cup {Absent}, Edit(d, v)
      PROVE  PhaseInv'
  <2>1. /\ Changed(d) /\ build' = build /\ src' = [src EXCEPT ![d] = v] BY <1>1 DEF Edit
  <2>2. \A x \in Dir \ {d} : src'[x] = src[x] /\ build'[x] = build[x]
    BY <2>1 DEF ReadInv, TypeOK
  <2> QED BY <2>1, <2>2, ChangeKeepsPhaseInv DEF PhaseInv
<1>2. ASSUME NEW d \in Dir, EditBuild(d)
      PROVE  PhaseInv'
  <2>1. /\ Changed(d) /\ src' = src /\ build'[Root] # None
        /\ build' \in {[build EXCEPT ![d] = Absent], [build EXCEPT ![d] = None]}
    BY <1>2 DEF EditBuild
  <2>2. \A x \in Dir \ {d} : src'[x] = src[x] /\ build'[x] = build[x]
    BY <2>1 DEF ReadInv, TypeOK
  <2> QED BY <2>1, <2>2, ChangeKeepsPhaseInv
<1>3. CASE FirstRun
  <2>1. Run({}) /\ UNCHANGED <<src, build>> BY <1>3 DEF FirstRun, tree
  <2> QED BY <2>1, RunKeepsPhaseInv
<1>4. CASE Cycle
  <2>1. Run(UpdatedDirs(changed)) /\ UNCHANGED <<src, build>> /\ phase = "await"
    BY <1>4 DEF Cycle
  <2>2. UpdatedDirs(changed) \in SUBSET Dir BY DEF UpdatedDirs
  <2>3. ASSUME NEW x \in Dir
        PROVE  x \in Below(UpdatedDirs(changed)) \/ UpToDate(x) \/ Hidden(x)'
    <3>1. CASE x \in changed BY <3>1, ChangesUpdated DEF PhaseInv, ReadInv, TypeOK
    <3>2. CASE x \notin changed /\ UpToDate(x) BY <3>2
    <3>3. CASE Hidden(x)
      <4>1. useCache /\ useCache' = useCache /\ walkCache' = Prune(changed)
        BY <1>4, <3>3 DEF Cycle, Hidden
      <4> QED BY <3>3, <4>1, PruneHides
    <3> QED BY <2>1, <3>1, <3>2, <3>3 DEF PhaseInv, AwaitInv
  <2> QED BY <2>1, <2>2, <2>3, RunKeepsPhaseInv
<1>5. CASE CycleReset
  <2>1. Run({}) /\ UNCHANGED <<src, build>> BY <1>5 DEF CycleReset
  <2> QED BY <2>1, RunKeepsPhaseInv
<1>6. CASE Emit BY <1>6, EmitKeepsPhaseInv
<1>7. ASSUME UNCHANGED <<src, build, changed, update>>, phase' \in {phase, "ended"},
             \A x \in Dir : Hidden(x) => Hidden(x)'
      PROVE  PhaseInv'
  BY <1>7 DEF PhaseInv, WalkInv, AwaitInv, UpToDate
<1>8. ASSUME UNCHANGED <<useCache, walkCache>>, NEW x \in Dir, Hidden(x)
      PROVE  Hidden(x)'
  BY <1>8 DEF Hidden
<1>9. ASSUME NEW d \in Dir, Populate(d)
      PROVE  PhaseInv'
  <2>1. \A x \in Dir : Hidden(x) => Hidden(x)' BY <1>9, ReadHides DEF Populate, ReadInv
  <2> QED BY <1>7, <1>9, <2>1 DEF Populate, tree
<1>10. ASSUME NEW d \in Dir, Visit(d)
       PROVE  PhaseInv'
  <2>1. \A x \in Dir : Hidden(x) => Hidden(x)'
    BY <1>8, <1>10, ReadHides DEF Visit, ReadInv
  <2> QED BY <1>7, <1>10, <2>1 DEF Visit, tree
<1>11. ASSUME NEW d \in Dir, VisitFails(d)
       PROVE  PhaseInv'
  BY <1>7, <1>8, <1>11 DEF VisitFails, tree
<1>12. CASE UNCHANGED vars BY <1>7, <1>8, <1>12 DEF vars
<1> QED BY <1>1, <1>2, <1>3, <1>4, <1>5, <1>6, <1>9, <1>10, <1>11, <1>12 DEF Next, Loop

(***************************************************************************)
(* The theorems.                                                           *)
(***************************************************************************)

\* Every variable of the loop keeps its type, through any history of edits,
\* cycles, resets and failures of runner.go:293.
THEOREM CycleTypesHold == Spec => []TypeOK
<1>1. Init => TypeOK BY DEF Init, TypeOK, Phase, NoListings, Nothing
<1>2. ASSUME TypeOK, [Next]_vars
      PROVE  TypeOK'
  <2> USE DEF TypeOK, Phase
  <2>1. ASSUME NEW d \in Dir, NEW v \in Version \cup {Absent}, Edit(d, v)
        PROVE  TypeOK'
    BY <1>2, <2>1 DEF Edit, Changed
  <2>2. ASSUME NEW d \in Dir, EditBuild(d)
        PROVE  TypeOK'
    BY <1>2, <2>2 DEF EditBuild, Changed
  <2>3. CASE FirstRun BY <1>2, <2>3, RunResets DEF FirstRun, tree
  <2>4. CASE Cycle
    <3>1. UpdatedDirs(changed) \in SUBSET Dir BY DEF UpdatedDirs
    <3>2. Prune(changed) \in [Dir -> Listing \cup {None}] BY <1>2 DEF Prune
    <3>3. NoListings \in [Dir -> Listing \cup {None}] BY DEF NoListings
    <3> QED BY <1>2, <2>4, <3>1, <3>2, <3>3, RunResets DEF Cycle
  <2>5. CASE CycleReset BY <1>2, <2>5, RunResets DEF CycleReset, NoListings
  <2>6. CASE Emit
    <3>1. \A d \in Dir : Written(d) \in Version \cup {Absent, None} BY <1>2 DEF Written
    <3> QED BY <1>2, <2>6, <3>1 DEF Emit, Nothing
  <2>7. \A d \in Dir : ReadDir(d) \in Listing BY DEF ReadDir, Listing, Tree
  <2>8. ASSUME NEW d \in Dir, Populate(d) \/ Visit(d) \/ VisitFails(d)
        PROVE  TypeOK'
    <3>1. CASE Populate(d) BY <1>2, <2>7, <3>1 DEF Populate, tree
    <3>2. CASE Visit(d) BY <1>2, <2>7, <3>2 DEF Visit, tree
    <3>3. CASE VisitFails(d) BY <1>2, <3>3 DEF VisitFails, tree
    <3> QED BY <2>8, <3>1, <3>2, <3>3
  <2>9. CASE UNCHANGED vars BY <1>2, <2>9 DEF vars
  <2> QED BY <1>2, <2>1, <2>2, <2>3, <2>4, <2>5, <2>6, <2>8, <2>9 DEF Next, Loop
<1> QED BY <1>1, <1>2, PTL DEF Spec

\* Every state of the loop keeps what is read in order: the listings and what is
\* generated from them (runner.go:293, cache.go:59).
THEOREM ReadInvariantHolds == Spec => []ReadInv
<1>1. ReadInv /\ [Next]_vars => ReadInv' BY ReadInvStep
<1> QED BY <1>1, ReadInvInit, PTL DEF Spec

\* Once every change is reported, no cached listing is wrong about the source of its
\* directory, and without a walk cache none about its directories either, for every
\* tree and every history of edits, cycles and resets (runner.go:430-470).
THEOREM CacheTrueHolds == Spec => []CacheTrue
<1>1. ASSUME ReadInv, phase = "await", changed = {}, NEW d \in Dir, walkCache[d] # None
      PROVE  /\ walkCache[d].src <=> src[d] # Absent
             /\ useCache \/ walkCache[d] = ReadDir(d)
  <2>1. walkCache[d] \in Listing BY <1>1 DEF ReadInv, TypeOK
  <2>2. walkCache[d].src = (src[d] # Absent) BY <1>1, <2>1 DEF ReadInv, SrcInv, Listing
  <2>3. ~useCache => walkCache[d].subdirs = {e \in Tree \ {Root} : Parent[e] = d}
    BY <1>1 DEF ReadInv, SubdirsInv, Steady
  <2> QED BY <2>1, <2>2, <2>3 DEF Listing, ReadDir, ReadInv, TypeOK
<1>2. ReadInv => CacheTrue BY <1>1 DEF CacheTrue
<1> QED BY <1>2, ReadInvariantHolds, PTL

\* Between cycles, with no change left to report, the incremental runs have led
\* to the BUILD files of a run over the whole tree, but for the directories the walk
\* cache hides, for every tree whose workspace keeps a BUILD file
\* (runner.go:318-407).
THEOREM ConvergedHolds == RootBuild /\ Spec => []Converged
<1> SUFFICES ASSUME RootBuild PROVE Spec => []Converged OBVIOUS
<1>1. Init => PhaseInv BY PhaseInvInit
<1>2. ReadInv /\ PhaseInv /\ [Next]_vars => PhaseInv' BY PhaseInvStep
<1>3. PhaseInv => Converged BY DEF PhaseInv, AwaitInv, Converged
<1>4. Spec => []ReadInv BY ReadInvariantHolds
<1> QED BY <1>1, <1>2, <1>3, <1>4, PTL DEF Spec
==============================================================================
