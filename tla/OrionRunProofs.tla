--------------------------- MODULE OrionRunProofs ---------------------------
(***************************************************************************)
(* Proofs about OrionRun: its types, that each plugin analyses the results *)
(* of its own queries when no two plugins have the same hash (OwnResults), *)
(* that a run which has met an error succeeds only without targets         *)
(* (ErrorsFail), and that a run that succeeds has resolved the imports of  *)
(* its targets as a run over the whole workspace would (SameDeps), if no   *)
(* import depends on the order of symbols (Unambiguous).                   *)
(*                                                                         *)
(* The order of the argument: induction on numbers in terms of sets, the   *)
(* sequence of targets that Convert makes, the invariant of a run (RunInv),*)
(* the invariant of query results (ResultsInv), their theorems; then the   *)
(* nearest symbol and what an import resolves to, which do not depend on   *)
(* the order of the database, the invariant of what has been collected     *)
(* (CollectedInv), its theorems.                                           *)
(***************************************************************************)
EXTENDS OrionRun, SequenceTheorems, WellFoundedInduction, FiniteSetTheorems, TLAPS

(***************************************************************************)
(* Induction and the sequence of targets.                                  *)
(***************************************************************************)

\* A set of numbers with 0 and the successor of each of them has all of them: a
\* set of numbers that is not empty has a least one.
LEMMA NatSetInduction ==
    ASSUME NEW S \in SUBSET Nat, 0 \in S, \A n \in S : n + 1 \in S
    PROVE  S = Nat
<1>1. SUFFICES ASSUME Nat \ S # {} PROVE FALSE OBVIOUS
<1> DEFINE T == Nat \ S
<1>2. T \subseteq Nat /\ T # {} BY <1>1
<1> HIDE DEF T
<1>3. IsWellFoundedOn(OpToRel(<, Nat), Nat) BY NatLessThanWellFounded
<1>4. PICK x \in T : \A y \in T : ~ (<<y, x>> \in OpToRel(<, Nat)) BY <1>2, <1>3, WFMin
<1>5. x \in Nat /\ x \notin S BY DEF T
<1>6. \A y \in Nat \ S : ~ (y < x) BY <1>4, <1>5 DEF OpToRel, T
<1> HIDE <1>3
<1>7. x # 0 BY <1>5
<1>8. x - 1 \in Nat /\ x - 1 < x /\ x = (x - 1) + 1 BY <1>5, <1>7
<1>9. x - 1 \in S BY <1>6, <1>8
<1> QED BY <1>5, <1>8, <1>9

\* Convert makes a sequence of targets in the package, of every plugin one.
LEMMA TargetsInType ==
    ASSUME NEW pkg, NEW S \in SUBSET Plugin
    PROVE  /\ TargetsIn(pkg, S) \in Seq({pkg} \X S)
           /\ IsInjective(TargetsIn(pkg, S))
           /\ \A p \in S : <<pkg, p>> \in ToSet(TargetsIn(pkg, S))
<1> DEFINE N == Len(PluginIds)
           one(i) == <<<<pkg, PluginIds[i]>>>>
           none == <<>>
           add(i) == IF PluginIds[i] \in S THEN one(i) ELSE none
           Eq(f, n) == f = [i \in 0..n |-> IF i = 0 THEN <<>> ELSE f[i - 1] \o add(i)]
           upTo == CHOOSE f : Eq(f, N)
<1>1. N \in Nat BY OrionAssumption
<1>2. TargetsIn(pkg, S) = upTo[N] BY DEF TargetsIn
<1> HIDE DEF N, add
<1> DEFINE next(f, i) == IF i = 0 THEN <<>> ELSE f[i - 1] \o add(i)
<1>3. \E f : Eq(f, N)
  <2> DEFINE T == {n \in Nat : \E f : Eq(f, n)}
  <2>1. 0 \in T
    <3> DEFINE f == [i \in 0..0 |-> <<>>]
    <3>1. \A i \in 0..0 : i = 0 OBVIOUS
    <3>2. Eq(f, 0) BY <3>1, Zenon
    <3> QED BY <3>2, Zenon
  <2>2. ASSUME NEW n \in T
        PROVE  n + 1 \in T
    <3>0. n \in Nat /\ n + 1 \in Nat OBVIOUS
    <3>1. PICK f : Eq(f, n) BY Zenon
    <3> DEFINE g == [i \in 0..n + 1 |-> IF i = n + 1 THEN next(f, n + 1) ELSE f[i]]
    <3> HIDE DEF T, next
    <3>2. \A i \in 0..n : g[i] = f[i] BY <3>0
    <3>3. g[n + 1] = next(f, n + 1) BY <3>0
    <3>4. g = [i \in 0..n + 1 |-> g[i]] BY Zenon
    <3> HIDE DEF g
    <3>5. \A i \in 0..n + 1 : next(g, i) = next(f, i)
      <4>1. \A i \in 0..n + 1 : i # 0 => i - 1 \in 0..n BY <3>0
      <4> QED BY <3>2, <4>1, Zenon DEF next
    <3>6. \A i \in 0..n : f[i] = next(f, i) BY <3>1, Zenon DEF next
    <3>7. \A i \in 0..n + 1 : i \in 0..n \/ i = n + 1 BY <3>0
    <3>8. \A i \in 0..n + 1 : g[i] = next(g, i)
      BY <3>2, <3>3, <3>5, <3>6, <3>7, Zenon
    <3>9. g = [i \in 0..n + 1 |-> next(g, i)] BY <3>4, <3>8, Zenon
    <3>10. Eq(g, n + 1) BY <3>9, Zenon DEF next
    <3> QED BY <3>0, <3>10, Zenon DEF T
  <2>3. T \in SUBSET Nat OBVIOUS
  <2> HIDE DEF T
  <2>4. T = Nat BY <2>1, <2>2, <2>3, NatSetInduction
  <2> QED BY <1>1, <2>4 DEF T
<1>4. Eq(upTo, N) BY <1>3
<1> HIDE DEF upTo
<1>5. /\ upTo[0] = <<>>
      /\ \A i \in 1..N : upTo[i] = upTo[i - 1] \o add(i)
  <2>1. \A i \in 0..N : upTo[i] = next(upTo, i) BY <1>4, Zenon
  <2>2. 0 \in 0..N /\ \A i \in 1..N : i \in 0..N /\ i # 0 BY <1>1
  <2> QED BY <2>1, <2>2, Zenon
<1> HIDE DEF next
<1> DEFINE Before(i) == {PluginIds[j] : j \in 1..i}
           Good(i) == /\ upTo[i] \in Seq({pkg} \X S)
                      /\ IsInjective(upTo[i])
                      /\ \A k \in DOMAIN upTo[i] : upTo[i][k][2] \in Before(i)
                      /\ \A q \in Before(i) \cap S :
                             \E k \in DOMAIN upTo[i] : upTo[i][k] = <<pkg, q>>
           T == {n \in Nat : n <= N => Good(n)}
<1>6. 0 \in T
  <2>1. /\ upTo[0] \in Seq({pkg} \X S) /\ DOMAIN upTo[0] = {} BY <1>5
  <2>2. Before(0) = {} OBVIOUS
  <2> HIDE DEF Before
  <2>3. Good(0) BY <2>1, <2>2, Zenon DEF IsInjective
  <2> QED BY <2>3
<1>7. ASSUME NEW n \in T
      PROVE  n + 1 \in T
  <2>0. n \in Nat /\ (n <= N => Good(n)) OBVIOUS
  <2> HIDE DEF Good
  <2> SUFFICES n + 1 <= N => Good(n + 1) BY <2>0
  <2> HAVE n + 1 <= N
  <2> USE DEF Good
  <2> DEFINE p == PluginIds[n + 1]
  <2>1. Good(n) /\ n + 1 \in 1..N /\ (n + 1) - 1 = n BY <1>1
  <2>2. upTo[n + 1] = upTo[n] \o add(n + 1) BY <1>5, <2>1
  <2>3. \A x : x \in Before(n) => x \in Before(n + 1) OBVIOUS
  <2>4. p \in Before(n + 1) /\ \A q \in Before(n + 1) : q \in Before(n) \/ q = p
    <3>1. \A j \in 1..n + 1 : j \in 1..n \/ j = n + 1 BY <2>1
    <3> QED BY <2>1, <3>1
  <2>5. p \notin Before(n)
    <3>1. PluginIds \in Seq(Plugin) /\ IsInjective(PluginIds) BY OrionAssumption
    <3>2. \A j \in 1..n : j \in DOMAIN PluginIds /\ n + 1 \in DOMAIN PluginIds /\ j # n + 1
      BY <2>1, <3>1 DEF N
    <3> QED BY <3>1, <3>2 DEF IsInjective
  <2> HIDE DEF Before, p
  <2>6. CASE p \notin S
    <3>0. ~(PluginIds[n + 1] \in S) BY <2>6 DEF p
    <3> HIDE DEF none, one
    <3>1. add(n + 1) = none BY <3>0, Zenon DEF add
    <3> USE DEF none
    <3>2. upTo[n] \o <<>> = upTo[n]
      <4> DEFINE U == {pkg} \X S
                 q == upTo[n]
      <4>1. q \in Seq(U) BY <2>1
      <4> HIDE DEF U, q
      <4>2. q \o <<>> = q BY <4>1, ConcatEmptySeq
      <4> QED BY <4>2 DEF q
    <3>3. upTo[n + 1] = upTo[n] BY <2>2, <3>1, <3>2, Zenon
    <3>4. \A q \in Before(n + 1) \cap S : q \in Before(n) \cap S BY <2>4, <2>6
    <3> QED BY <2>1, <2>3, <3>3, <3>4
  <2>7. CASE p \in S
    <3> DEFINE s == upTo[n]
               t == upTo[n + 1]
               e == <<pkg, p>>
    <3>1. add(n + 1) = <<e>> BY <2>7 DEF add, p
    <3>2. t = s \o <<e>> /\ s \in Seq({pkg} \X S) /\ e \in {pkg} \X S
      BY <2>1, <2>2, <2>7, <3>1
    <3>3. IsInjective(s) /\ \A k \in DOMAIN s : s[k][2] \in Before(n) BY <2>1
    <3>4. e[2] = p OBVIOUS
    <3> HIDE DEF s, t, e
    <3>5. /\ t \in Seq({pkg} \X S) /\ DOMAIN s = 1..Len(s) /\ Len(s) \in Nat
          /\ DOMAIN t = 1..Len(s) + 1 /\ t[Len(s) + 1] = e
          /\ \A k \in 1..Len(s) : t[k] = s[k]
      BY <3>2
    <3>6. \A k \in DOMAIN s : s[k] # e BY <2>5, <3>3, <3>4
    <3>7. IsInjective(t) BY <3>3, <3>5, <3>6 DEF IsInjective
    <3>8. \A k \in DOMAIN t : t[k][2] \in Before(n + 1) BY <2>3, <2>4, <3>3, <3>4, <3>5
    <3>9. \A q \in Before(n + 1) \cap S : \E k \in DOMAIN t : t[k] = <<pkg, q>>
      <4> SUFFICES ASSUME NEW q \in Before(n + 1) \cap S
                   PROVE  \E k \in DOMAIN t : t[k] = <<pkg, q>>
        OBVIOUS
      <4>1. CASE q = p BY <3>5, <4>1 DEF e
      <4>2. CASE q \in Before(n) \cap S
        <5>1. PICK k \in DOMAIN s : s[k] = <<pkg, q>> BY <2>1, <4>2 DEF s
        <5> QED BY <3>5, <5>1
      <4> QED BY <2>4, <4>1, <4>2
    <3> QED BY <3>5, <3>7, <3>8, <3>9 DEF t
  <2> QED BY <2>6, <2>7
<1>8. T \in SUBSET Nat OBVIOUS
<1> HIDE DEF T
<1>9. T = Nat BY <1>6, <1>7, <1>8, NatSetInduction
<1>10. Good(N)
  <2>1. N \in T /\ N <= N BY <1>1, <1>9
  <2> HIDE DEF Good
  <2> QED BY <2>1 DEF T
<1>11. \A q \in S : q \in Before(N) BY OrionAssumption DEF Plugin, ToSet, N
<1>12. \A q \in S : <<pkg, q>> \in ToSet(upTo[N])
  <2> SUFFICES ASSUME NEW q \in S PROVE <<pkg, q>> \in ToSet(upTo[N]) OBVIOUS
  <2>1. PICK k \in DOMAIN upTo[N] : upTo[N][k] = <<pkg, q>> BY <1>10, <1>11
  <2> QED BY <2>1 DEF ToSet
<1> QED BY <1>2, <1>10, <1>12

(***************************************************************************)
(* The invariant of a run.                                                 *)
(***************************************************************************)

\* The stages of generateRules.
Stage == {"query", "analyze", "declare"}

\* The run and the host are records, the generated targets a sequence.
ShapeOK ==
    /\ DOMAIN walk = {"phase", "update", "pos", "pending", "failed", "qres"}
    /\ DOMAIN host = {"db", "index", "gen", "removed", "deps"}
    /\ host.gen \in Seq(Target)

\* The walk is at a package while its rules are generated.
PosInv == walk.phase \in Stage => walk.pos <= Len(Visits)

\* Targets have been generated in packages the walk has passed.
PassedInv ==
    walk.phase \in Stage \cup {"walk"} =>
        \A i \in DOMAIN host.gen : \E k \in 1..Len(Visits) :
            k < walk.pos /\ host.gen[i][1] = Visits[k]

\* A run has no outcome before it ends, and has resolved a target only with no
\* error reported.
EndInv ==
    /\ walk.phase # "idle" => outcome = None
    /\ walk.phase = "resolve" /\ walk.pos > 1 => ~errs.acc

RunInv == TypeOK /\ ShapeOK /\ PosInv /\ PassedInv /\ EndInv /\ ErrorsFail

\* The constants, as sequences and functions.
LEMMA OrionShape ==
    /\ Len(Visits) \in Nat /\ DOMAIN Visits = 1..Len(Visits)
    /\ \A k \in 1..Len(Visits) : Visits[k] \in Pkg
    /\ \A j, k \in 1..Len(Visits) : Visits[j] = Visits[k] => j = k
    /\ Declaring \subseteq Plugin
    /\ \A f \in File : PluginsOf(f) \subseteq Plugin
    /\ \A pkg : EnabledIn(pkg) \subseteq Plugin
<1>1. Visits \in Seq(Pkg) /\ IsInjective(Visits) /\ Declaring \subseteq Plugin
  BY OrionAssumption
<1>2. \A f \in File : PluginsOf(f) \subseteq Plugin BY DEF PluginsOf, EnabledIn
<1>3. \A pkg : EnabledIn(pkg) \subseteq Plugin BY DEF EnabledIn
<1> HIDE DEF Pkg
<1>4. /\ Len(Visits) \in Nat /\ DOMAIN Visits = 1..Len(Visits)
      /\ \A k \in 1..Len(Visits) : Visits[k] \in Pkg
  BY <1>1
<1>5. \A j, k \in 1..Len(Visits) : Visits[j] = Visits[k] => j = k
  BY <1>1, <1>4 DEF IsInjective
<1> QED BY <1>1, <1>2, <1>3, <1>4, <1>5

LEMMA RunInvInit == Init => RunInv
<1> SUFFICES ASSUME Init PROVE RunInv OBVIOUS
<1>1. /\ walk = [phase |-> "idle", update |-> {}, pos |-> 1, pending |-> {},
                 failed |-> FALSE, qres |-> <<>>]
      /\ host = [db |-> <<>>, index |-> {}, gen |-> <<>>, removed |-> {}, deps |-> <<>>]
      /\ errs = [acc |-> FALSE, surfaced |-> FALSE, walk |-> FALSE]
      /\ outcome = "none" /\ cache = {} /\ directives \in Configuration
      /\ rules \in [Pkg -> SUBSET Declaring] /\ foreign \subseteq Target
  BY DEF Init, NewWalk, NewHost, NoErrors, None
<1>2. TypeOK
  BY <1>1 DEF TypeOK, Phase, ToSet, IsInjective, None
<1>3. ShapeOK /\ PosInv /\ PassedInv BY <1>1 DEF ShapeOK, PosInv, PassedInv, Stage
<1>4. EndInv /\ ErrorsFail BY <1>1 DEF EndInv, ErrorsFail, None
<1> QED BY <1>2, <1>3, <1>4 DEF RunInv

\* Between runs nothing but the outcome and the directives changes.
LEMMA EditKeepsRunInv ==
    ASSUME RunInv, NEW D \in Configuration, EditDirectives(D)
    PROVE  RunInv'
<1> USE DEF RunInv
<1>1. /\ directives' \in Configuration /\ outcome' = "none"
      /\ UNCHANGED <<foreign, rules, cache, walk, host, errs>>
  BY DEF EditDirectives, None
<1>2. TypeOK' BY <1>1 DEF TypeOK, None
<1>3. ShapeOK' /\ PosInv' /\ PassedInv' BY <1>1 DEF ShapeOK, PosInv, PassedInv
<1>4. EndInv' /\ ErrorsFail' BY <1>1 DEF EndInv, ErrorsFail, None
<1> QED BY <1>2, <1>3, <1>4

LEMMA StartKeepsRunInv ==
    ASSUME RunInv, NEW U \in SUBSET Pkg, Start(U)
    PROVE  RunInv'
<1> USE DEF RunInv
<1>1. /\ walk' = [phase |-> "walk", update |-> U, pos |-> 1, pending |-> {},
                  failed |-> FALSE, qres |-> <<>>]
      /\ host' = [db |-> <<>>, index |-> {}, gen |-> <<>>, removed |-> {}, deps |-> <<>>]
      /\ errs' = [acc |-> FALSE, surfaced |-> FALSE, walk |-> FALSE]
      /\ outcome' = "none" /\ UNCHANGED <<directives, foreign, rules, cache>>
  BY DEF Start, NewWalk, FreshHost, NewHost, NoErrors, None, user
<1>2. TypeOK' BY <1>1 DEF TypeOK, Phase, ToSet, IsInjective, None
<1>3. ShapeOK' /\ PosInv' /\ PassedInv' BY <1>1 DEF ShapeOK, PosInv, PassedInv, Stage
<1>4. EndInv' /\ ErrorsFail' BY <1>1 DEF EndInv, ErrorsFail, None
<1> QED BY <1>2, <1>3, <1>4

\* A step within the walk that reports no error and generates no target.
LEMMA WalkKeepsRunInv ==
    ASSUME RunInv, UNCHANGED <<directives, foreign, rules, errs, outcome>>,
           walk.phase \in Stage \cup {"walk"},
           \A row \in cache' : row.file \in File /\ row.results \subseteq Plugin,
           DOMAIN walk' = DOMAIN walk, walk'.update = walk.update,
           walk'.phase \in Stage \cup {"walk"},
           walk'.phase \in Stage => walk'.pos <= Len(Visits),
           walk'.pos \in Nat, walk'.pos >= walk.pos,
           walk'.failed \in BOOLEAN, DOMAIN walk'.qres \subseteq File,
           walk'.pending \subseteq CASE walk'.phase = "query" -> File
                                     [] walk'.phase = "analyze" -> Addition
                                     [] OTHER -> Plugin,
           DOMAIN host' = DOMAIN host, host'.gen = host.gen,
           host'.removed = host.removed, host'.deps = host.deps
    PROVE  RunInv'
<1> USE DEF RunInv
<1>1. TypeOK' BY DEF TypeOK, Phase, Stage
<1>2. ShapeOK' /\ PosInv' BY DEF ShapeOK, PosInv
<1>3. PassedInv' BY DEF PassedInv, TypeOK, ShapeOK
<1>4. EndInv' /\ ErrorsFail' BY DEF EndInv, ErrorsFail, Stage, None
<1> QED BY <1>1, <1>2, <1>3, <1>4

\* The steps of the walk that only move on.
LEMMA PassKeepsRunInv ==
    ASSUME RunInv, Skip \/ Collect \/ EndAnalyze
    PROVE  RunInv'
<1>0. TypeOK /\ ShapeOK /\ PosInv BY DEF RunInv
<1>1. UNCHANGED <<directives, foreign, rules, cache, errs, outcome, host>>
  BY DEF Skip, Collect, EndAnalyze, user
<1>2. CASE Skip
  <2>1. walk.phase = "walk" /\ walk' = [walk EXCEPT !.pos = @ + 1]
    BY <1>2 DEF Skip, AtPackage
  <2>2. walk.pending \subseteq Plugin BY <1>0, <2>1 DEF TypeOK
  <2> QED BY <1>0, <1>1, <2>1, <2>2, WalkKeepsRunInv DEF TypeOK, ShapeOK, Stage
<1>3. CASE Collect
  <2>1. /\ walk.phase = "walk" /\ walk.pos <= Len(Visits)
        /\ walk' = [walk EXCEPT !.phase = "query", !.failed = FALSE, !.qres = <<>>,
                                !.pending = {f \in File : PkgOf[f] = cur /\ PluginsOf(f) # {}}]
    BY <1>3 DEF Collect, AtPackage
  <2> QED BY <1>0, <1>1, <2>1, WalkKeepsRunInv DEF TypeOK, ShapeOK, Stage
<1>4. CASE EndAnalyze
  <2>1. /\ walk.phase = "analyze"
        /\ walk' = [walk EXCEPT !.phase = "declare", !.pending = EnabledIn(cur)]
    BY <1>4 DEF EndAnalyze, Waited
  <2>2. EnabledIn(cur) \subseteq Plugin BY OrionShape
  <2> QED BY <1>0, <1>1, <2>1, <2>2, WalkKeepsRunInv DEF TypeOK, ShapeOK, Stage, PosInv
<1> QED BY <1>2, <1>3, <1>4

\* The results a query returns, from the cache or from the plugins.
Hits(f) == {row \in cache : row.file = f /\ row.key = QueriesKey(f)}
Results(f) == IF Hits(f) = {} THEN PluginsOf(f) ELSE (CHOOSE row \in Hits(f) : TRUE).results

LEMMA QueryDoes ==
    ASSUME NEW f \in File, Query(f)
    PROVE  /\ walk.phase = "query" /\ f \in walk.pending
           /\ cache' = cache \cup {[file |-> f, key |-> QueriesKey(f), results |-> Results(f)]}
           /\ walk' = [walk EXCEPT !.pending = @ \ {f}, !.qres = With(@, f, Results(f))]
           /\ UNCHANGED <<directives, foreign, rules, host, errs, outcome>>
BY DEF Query, Hits, Results, user

\* A hit is a row of the file under the key.
LEMMA HitIsRow ==
    ASSUME NEW f, Hits(f) # {}
    PROVE  \E row \in cache : row.file = f /\ row.key = QueriesKey(f) /\ Results(f) = row.results
<1>1. PICK row : row = (CHOOSE r \in Hits(f) : TRUE) OBVIOUS
<1>2. row \in Hits(f) /\ Results(f) = row.results BY <1>1 DEF Results
<1> QED BY <1>2 DEF Hits

LEMMA QueryKeepsRunInv ==
    ASSUME RunInv, NEW f \in File, Query(f) \/ QueryFails(f)
    PROVE  RunInv'
<1>0. TypeOK /\ ShapeOK /\ PosInv BY DEF RunInv
<1>1. CASE Query(f)
  <2> DEFINE r == Results(f)
             k == QueriesKey(f)
  <2>1. r \subseteq Plugin
    <3>1. CASE Hits(f) = {} BY <3>1, OrionShape DEF Results
    <3>2. CASE Hits(f) # {} BY <1>0, <3>2, HitIsRow DEF TypeOK
    <3> QED BY <3>1, <3>2
  <2>2. /\ walk.phase = "query"
        /\ cache' = cache \cup {[file |-> f, key |-> k, results |-> r]}
        /\ walk' = [walk EXCEPT !.pending = @ \ {f}, !.qres = With(@, f, r)]
        /\ UNCHANGED <<directives, foreign, rules, host, errs, outcome>>
    BY <1>1, QueryDoes
  <2> HIDE DEF r, k
  <2>3. DOMAIN With(walk.qres, f, r) = DOMAIN walk.qres \cup {f} BY DEF With
  <2>4. \A row \in cache' : row.file \in File /\ row.results \subseteq Plugin
    BY <1>0, <2>1, <2>2 DEF TypeOK
  <2>5. walk.pending \ {f} \subseteq File BY <1>0, <2>2 DEF TypeOK
  <2>6. DOMAIN walk'.qres \subseteq File BY <1>0, <2>2, <2>3 DEF TypeOK, ShapeOK
  <2> QED
    BY <1>0, <2>2, <2>4, <2>5, <2>6, WalkKeepsRunInv DEF TypeOK, ShapeOK, Stage, PosInv
<1>2. CASE QueryFails(f)
  <2>1. /\ walk.phase = "query"
        /\ walk' = [walk EXCEPT !.pending = @ \ {f}, !.failed = TRUE]
        /\ UNCHANGED <<directives, foreign, rules, cache, host, errs, outcome>>
    BY <1>2 DEF QueryFails, user
  <2>2. walk.pending \ {f} \subseteq File BY <1>0, <2>1 DEF TypeOK
  <2> QED BY <1>0, <2>1, <2>2, WalkKeepsRunInv DEF TypeOK, ShapeOK, Stage, PosInv
<1> QED BY <1>1, <1>2

LEMMA AnalyzeKeepsRunInv ==
    ASSUME RunInv, NEW job \in walk.pending, Analyze(job)
    PROVE  RunInv'
<1>0. TypeOK /\ ShapeOK /\ PosInv BY DEF RunInv
<1>1. PICK db :
        /\ walk.phase = "analyze" /\ host' = [host EXCEPT !.db = db]
        /\ walk' = [walk EXCEPT !.pending = @ \ {job}]
        /\ UNCHANGED <<directives, foreign, rules, cache, errs, outcome>>
  BY DEF Analyze, user
<1>2. walk.pending \ {job} \subseteq Addition BY <1>0, <1>1 DEF TypeOK
<1> QED BY <1>0, <1>1, <1>2, WalkKeepsRunInv DEF TypeOK, ShapeOK, Stage, PosInv

LEMMA DeclareKeepsRunInv ==
    ASSUME RunInv, NEW p \in Plugin, Declare(p)
    PROVE  RunInv'
<1>0. TypeOK /\ ShapeOK /\ PosInv BY DEF RunInv
<1>1. PICK db :
        /\ walk.phase = "declare" /\ host' = [host EXCEPT !.db = db]
        /\ walk' = [walk EXCEPT !.pending = @ \ {p}]
        /\ UNCHANGED <<directives, foreign, rules, cache, errs, outcome>>
  BY DEF Declare, user
<1>2. walk.pending \ {p} \subseteq Plugin BY <1>0, <1>1 DEF TypeOK
<1> QED BY <1>0, <1>1, <1>2, WalkKeepsRunInv DEF TypeOK, ShapeOK, Stage, PosInv

\* Results that cannot be placed end the process, others are analyzed.
LEMMA AssignKeepsRunInv ==
    ASSUME RunInv, AssignResults
    PROVE  RunInv'
<1>0. TypeOK /\ ShapeOK /\ PosInv /\ EndInv BY DEF RunInv
<1>1. /\ walk.phase = "query" /\ walk.pending = {}
      /\ UNCHANGED <<directives, foreign, rules, cache, host, errs>>
  BY DEF AssignResults, Waited, user
<1>2. CASE Misplaced
  <2>1. outcome' = "panic" /\ walk' = [walk EXCEPT !.phase = "idle"]
    BY <1>2 DEF AssignResults
  <2>2. TypeOK' BY <1>0, <1>1, <2>1 DEF TypeOK, ShapeOK, Phase
  <2>3. ShapeOK' /\ PosInv' /\ PassedInv'
    BY <1>0, <1>1, <2>1 DEF ShapeOK, PosInv, PassedInv, Stage
  <2>4. EndInv' /\ ErrorsFail' BY <1>0, <1>1, <2>1 DEF ShapeOK, EndInv, ErrorsFail
  <2> QED BY <2>2, <2>3, <2>4 DEF RunInv
<1>3. CASE ~Misplaced
  <2>1. /\ walk' = [walk EXCEPT !.phase = "analyze", !.pending = Analyses]
        /\ outcome' = outcome
    BY <1>3 DEF AssignResults
  <2>2. Analyses \subseteq Addition BY DEF Analyses
  <2> QED BY <1>0, <1>1, <2>1, <2>2, WalkKeepsRunInv DEF TypeOK, ShapeOK, Stage, PosInv
<1> QED BY <1>2, <1>3

\* What generateRules leaves of a package, if the targets are of the package and
\* none is named twice.
LEMMA GeneratedKeepsRunInv ==
    ASSUME RunInv, walk.phase \in Stage, walk.pending = {},
           NEW targets \in Seq({cur} \X Declaring), IsInjective(targets),
           NEW gone \in SUBSET Target, NEW error \in BOOLEAN,
           Generated(targets, gone, error)
    PROVE  RunInv'
<1>0. TypeOK /\ ShapeOK /\ PosInv /\ PassedInv /\ EndInv BY DEF RunInv
<1>1. UNCHANGED <<directives, foreign, rules, cache, outcome>> BY DEF Generated, user
<1>2. walk.pos \in 1..Len(Visits) /\ cur = Visits[walk.pos] /\ cur \in Pkg
  BY <1>0, OrionShape DEF PosInv, TypeOK, cur
<1>3. outcome = None BY <1>0 DEF EndInv, Stage
<1>4. ASSUME host'.gen = host.gen, host'.removed = host.removed, host'.deps = host.deps,
             DOMAIN host' = DOMAIN host, errs' \in [acc : BOOLEAN, surfaced : BOOLEAN, walk : BOOLEAN],
             NEW next \in {walk.pos + 1, Len(Visits) + 1},
             walk' = [walk EXCEPT !.phase = "walk", !.pos = next]
      PROVE  RunInv'
  <2>1. TypeOK' BY <1>0, <1>1, <1>2, <1>4, OrionShape DEF TypeOK, ShapeOK, Phase
  <2>2. ShapeOK' /\ PosInv' BY <1>0, <1>4 DEF ShapeOK, PosInv, Stage
  <2>3. PassedInv' BY <1>0, <1>2, <1>4, OrionShape DEF PassedInv, ShapeOK
  <2>4. EndInv' /\ ErrorsFail'
    BY <1>0, <1>1, <1>3, <1>4 DEF ShapeOK, EndInv, ErrorsFail, None
  <2> QED BY <2>1, <2>2, <2>3, <2>4 DEF RunInv
<1>5. ASSUME NEW index, NEW failing \in BOOLEAN,
             host' = [host EXCEPT !.gen = @ \o targets, !.removed = @ \cup gone, !.index = index],
             errs' = [errs EXCEPT !.acc = failing],
             walk' = [walk EXCEPT !.phase = "walk", !.pos = @ + 1]
      PROVE  RunInv'
  <2>1. /\ host'.gen = host.gen \o targets /\ host'.removed = host.removed \cup gone
        /\ host'.deps = host.deps /\ DOMAIN host' = DOMAIN host
    BY <1>0, <1>5 DEF ShapeOK
  <2>2. targets \in Seq(Target) /\ \A i \in DOMAIN targets : targets[i][1] = cur
    <3>1. {cur} \X Declaring \subseteq Target BY <1>2 DEF Target
    <3>2. \A i \in DOMAIN targets : targets[i] \in {cur} \X Declaring OBVIOUS
    <3> QED BY <3>1, <3>2
  <2> DEFINE n == Len(host.gen)
             m == Len(targets)
             gen == host.gen \o targets
  <2>3. /\ host.gen \in Seq(Target) /\ n \in Nat /\ DOMAIN host.gen = 1..n
        /\ m \in Nat /\ DOMAIN targets = 1..m
        /\ gen \in Seq(Target) /\ DOMAIN gen = 1..n + m
        /\ \A i \in 1..n : gen[i] = host.gen[i]
        /\ \A i \in n + 1..n + m : i - n \in 1..m /\ gen[i] = targets[i - n]
    <3> DEFINE T == Target
    <3>1. host.gen \in Seq(T) /\ targets \in Seq(T) BY <1>0, <2>2 DEF ShapeOK
    <3> HIDE DEF T
    <3>2. /\ n \in Nat /\ DOMAIN host.gen = 1..n /\ m \in Nat /\ DOMAIN targets = 1..m
          /\ gen \in Seq(T) /\ Len(gen) = n + m /\ DOMAIN gen = 1..n + m
      BY <3>1
    <3>3. \A i \in 1..n : gen[i] = host.gen[i] BY <3>1, <3>2
    <3>4. \A i \in n + 1..n + m : i - n \in 1..m /\ gen[i] = targets[i - n] BY <3>1, <3>2
    <3> QED BY <3>1, <3>2, <3>3, <3>4 DEF T
  <2> HIDE DEF n, m, gen
  <2>4. host'.gen = gen BY <2>1 DEF gen
  <2>5. \A i \in 1..n : \E k \in 1..Len(Visits) : k < walk.pos /\ gen[i][1] = Visits[k]
    <3> TAKE i \in 1..n
    <3>1. gen[i] = host.gen[i] /\ i \in DOMAIN host.gen BY <2>3
    <3> QED BY <1>0, <3>1 DEF PassedInv
  <2>6. \A i \in 1..n : gen[i][1] # cur
    <3> SUFFICES ASSUME NEW i \in 1..n, gen[i][1] = cur PROVE FALSE OBVIOUS
    <3>1. PICK k \in 1..Len(Visits) : k < walk.pos /\ cur = Visits[k] BY <2>5
    <3>2. k = walk.pos BY <1>2, <3>1, OrionShape
    <3>3. k \in Int BY OrionShape
    <3> QED BY <3>1, <3>2, <3>3
  <2>7. \A i \in n + 1..n + m : gen[i][1] = cur BY <2>2, <2>3
  <2>8. IsInjective(gen)
    <3>1. IsInjective(host.gen) BY <1>0 DEF TypeOK
    <3>2. \A i, j \in 1..n : gen[i] = gen[j] => i = j BY <2>3, <3>1 DEF IsInjective
    <3>3. \A i, j \in n + 1..n + m : gen[i] = gen[j] => i = j
      <4> SUFFICES ASSUME NEW i \in n + 1..n + m, NEW j \in n + 1..n + m, gen[i] = gen[j]
                   PROVE  i = j
        OBVIOUS
      <4>1. i - n \in DOMAIN targets /\ j - n \in DOMAIN targets BY <2>3
      <4>2. targets[i - n] = targets[j - n] BY <2>3
      <4>3. i - n = j - n BY <4>1, <4>2, Zenon DEF IsInjective
      <4> QED BY <2>3, <4>3
    <3>4. \A i \in 1..n : \A j \in n + 1..n + m : gen[i] # gen[j] BY <2>6, <2>7
    <3>5. \A i \in 1..n + m : i \in 1..n \/ i \in n + 1..n + m BY <2>3
    <3> QED BY <2>3, <3>2, <3>3, <3>4, <3>5 DEF IsInjective
  <2>9. ToSet(host.gen) \subseteq ToSet(gen) /\ ToSet(gen) \subseteq Target
    <3>1. \A i \in 1..n : i \in 1..n + m BY <2>3
    <3>2. \A i \in 1..n + m : gen[i] \in Target BY <2>3
    <3> QED BY <2>3, <3>1, <3>2 DEF ToSet
  <2>10. TypeOK'
    BY <1>0, <1>1, <1>5, <2>1, <2>4, <2>8, <2>9 DEF TypeOK, ShapeOK, Phase
  <2>11. ShapeOK' /\ PosInv' BY <1>0, <1>5, <2>1, <2>3, <2>4 DEF ShapeOK, PosInv, Stage
  <2>12. PassedInv'
    <3>1. walk'.pos = walk.pos + 1 BY <1>0, <1>5 DEF ShapeOK
    <3>2. \A i \in 1..n : \E k \in 1..Len(Visits) : k < walk'.pos /\ gen[i][1] = Visits[k]
      BY <1>2, <2>5, <3>1, OrionShape
    <3>3. \A i \in n + 1..n + m : \E k \in 1..Len(Visits) : k < walk'.pos /\ gen[i][1] = Visits[k]
      BY <1>2, <2>7, <3>1, OrionShape
    <3>4. \A i \in 1..n + m : i \in 1..n \/ i \in n + 1..n + m BY <2>3
    <3> QED BY <2>3, <2>4, <3>2, <3>3, <3>4 DEF PassedInv
  <2>13. EndInv' /\ ErrorsFail'
    BY <1>0, <1>1, <1>3, <1>5 DEF ShapeOK, EndInv, ErrorsFail, None
  <2> QED BY <2>10, <2>11, <2>12, <2>13 DEF RunInv
<1> DEFINE failing == errs.acc \/ error
<1>6. failing \in BOOLEAN BY <1>0 DEF TypeOK
<1>7. CASE Updating
  <2>1. Updated(targets, gone, failing) BY <1>7 DEF Generated
  <2>2. CASE failing /\ ~errs.surfaced
    <3>1. /\ errs' = [acc |-> TRUE, surfaced |-> TRUE, walk |-> TRUE] /\ host' = host
          /\ \E next \in {walk.pos + 1, Len(Visits) + 1} :
                 walk' = [walk EXCEPT !.phase = "walk", !.pos = next]
      BY <2>1, <2>2 DEF Updated
    <3> QED BY <1>4, <3>1
  <2>3. CASE ~(failing /\ ~errs.surfaced)
    <3>1. \E index :
            /\ host' = [host EXCEPT !.gen = @ \o targets, !.removed = @ \cup gone, !.index = index]
            /\ errs' = [errs EXCEPT !.acc = failing]
            /\ walk' = [walk EXCEPT !.phase = "walk", !.pos = @ + 1]
      BY <2>1, <2>3 DEF Updated
    <3> QED BY <1>5, <1>6, <3>1
  <2> QED BY <2>2, <2>3
<1>8. CASE ~Updating
  <2>1. Imported(targets, failing) BY <1>8 DEF Generated
  <2>2. PICK index :
          /\ host' = [host EXCEPT !.index = index]
          /\ errs' = [errs EXCEPT !.acc = failing]
          /\ walk' = [walk EXCEPT !.phase = "walk", !.pos = @ + 1]
    BY <2>1 DEF Imported
  <2> HIDE DEF failing
  <2>3. /\ host'.gen = host.gen /\ host'.removed = host.removed /\ host'.deps = host.deps
        /\ DOMAIN host' = DOMAIN host
    BY <1>0, <2>2 DEF ShapeOK
  <2>4. errs' \in [acc : BOOLEAN, surfaced : BOOLEAN, walk : BOOLEAN]
    BY <1>0, <1>6, <2>2 DEF TypeOK
  <2>5. \E next \in {walk.pos + 1, Len(Visits) + 1} :
            walk' = [walk EXCEPT !.phase = "walk", !.pos = next]
    BY <2>2
  <2> QED BY <1>4, <2>3, <2>4, <2>5
<1> QED BY <1>7, <1>8

LEMMA ConvertKeepsRunInv ==
    ASSUME RunInv, AbortGenerate \/ Convert
    PROVE  RunInv'
<1>0. TypeOK /\ ShapeOK /\ PosInv BY DEF RunInv
<1>1. CASE AbortGenerate
  <2>1. /\ walk.phase \in Stage /\ walk.pending = {} /\ Generated(<<>>, {}, TRUE)
    BY <1>1 DEF AbortGenerate, Waited, Stage
  <2>2. <<>> \in Seq({cur} \X Declaring) /\ IsInjective(<<>>) BY DEF IsInjective
  <2> QED BY <2>1, <2>2, GeneratedKeepsRunInv
<1>2. CASE Convert
  <2> DEFINE declared == {p \in Plugin : Declares(p, cur)}
             collides == {p \in declared : <<cur, p>> \in foreign}
             gone == {t \in Target : t[1] = cur /\ t[2] \in EnabledIn(cur) \ declared}
             S == declared \ collides
             s == TargetsIn(cur, S)
             error == collides # {}
  <2>1. walk.phase \in Stage /\ walk.pending = {} /\ Generated(s, gone, error)
    BY <1>2 DEF Convert, Waited, Stage
  <2>2. S \subseteq Plugin /\ S \subseteq Declaring BY DEF Declares
  <2>3. gone \in SUBSET Target /\ error \in BOOLEAN OBVIOUS
  <2> HIDE DEF declared, collides, gone, error, S
  <2>4. s \in Seq({cur} \X S) /\ IsInjective(s) BY <2>2, TargetsInType
  <2>5. s \in Seq({cur} \X Declaring)
    <3> DEFINE U == {cur} \X S
               V == {cur} \X Declaring
    <3>1. U \subseteq V BY <2>2
    <3>2. s \in Seq(U) BY <2>4
    <3> HIDE DEF U, V, s
    <3>3. s \in Seq(V) BY <3>1, <3>2
    <3> QED BY <3>3 DEF V
  <2> HIDE DEF s
  <2> QED BY <2>1, <2>3, <2>4, <2>5, GeneratedKeepsRunInv
<1> QED BY <1>1, <1>2

\* After the walk: an error of the walk ends the run, else the targets are resolved.
LEMMA EndWalkKeepsRunInv ==
    ASSUME RunInv, EndWalk
    PROVE  RunInv'
<1>0. TypeOK /\ ShapeOK /\ EndInv BY DEF RunInv
<1>1. /\ walk.phase = "walk" /\ UNCHANGED <<directives, foreign, rules, cache, host, errs>>
      /\ \/ walk' = [walk EXCEPT !.phase = "idle"] /\ outcome' = "error"
         \/ walk' = [walk EXCEPT !.phase = "resolve", !.pos = 1] /\ outcome' = outcome
  BY DEF EndWalk, End, user
<1>2. /\ DOMAIN walk' = DOMAIN walk /\ walk'.update = walk.update
      /\ walk'.pending = walk.pending /\ walk'.failed = walk.failed /\ walk'.qres = walk.qres
      /\ \/ walk'.phase = "idle" /\ walk'.pos = walk.pos /\ outcome' = "error"
         \/ walk'.phase = "resolve" /\ walk'.pos = 1 /\ outcome' = outcome
  BY <1>0, <1>1 DEF ShapeOK
<1>3. TypeOK' BY <1>0, <1>1, <1>2 DEF TypeOK, Phase
<1>4. ShapeOK' /\ PosInv' /\ PassedInv'
  BY <1>0, <1>1, <1>2 DEF ShapeOK, PosInv, PassedInv, Stage
<1>5. EndInv' /\ ErrorsFail' BY <1>0, <1>1, <1>2 DEF EndInv, ErrorsFail, None
<1> QED BY <1>3, <1>4, <1>5 DEF RunInv

\* A target is resolved, or its import or an error reported before ends the run.
LEMMA ResolveKeepsRunInv ==
    ASSUME RunInv, Resolve
    PROVE  RunInv'
<1>0. TypeOK /\ ShapeOK /\ PosInv /\ EndInv BY DEF RunInv
<1>1. /\ walk.phase = "resolve" /\ walk.pos <= Len(host.gen)
      /\ UNCHANGED <<directives, foreign, rules, cache>>
  BY DEF Resolve, user
<1>2. CASE ResolveFails
  <2>1. /\ errs' = [errs EXCEPT !.acc = TRUE, !.surfaced = TRUE]
        /\ outcome' = "error" /\ walk' = [walk EXCEPT !.phase = "idle"] /\ host' = host
    BY <1>2 DEF Resolve, End
  <2>2. TypeOK' BY <1>0, <1>1, <2>1 DEF TypeOK, ShapeOK, Phase
  <2>3. ShapeOK' /\ PosInv' /\ PassedInv'
    BY <1>0, <2>1 DEF ShapeOK, PosInv, PassedInv, Stage
  <2>4. EndInv' /\ ErrorsFail' BY <1>0, <2>1 DEF ShapeOK, EndInv, ErrorsFail
  <2> QED BY <2>2, <2>3, <2>4 DEF RunInv
<1>3. CASE ~ResolveFails
  <2> DEFINE t == host.gen[walk.pos]
  <2>1. PICK deps :
          /\ host' = [host EXCEPT !.deps = With(@, t, deps)]
          /\ walk' = [walk EXCEPT !.pos = @ + 1]
          /\ UNCHANGED <<errs, outcome>>
    BY <1>3 DEF Resolve
  <2>2. ~errs.acc BY <1>3 DEF ResolveFails
  <2>3. t \in ToSet(host.gen)
    <3> DEFINE T == Target
    <3>1. host.gen \in Seq(T) /\ walk.pos \in Nat \ {0} BY <1>0 DEF ShapeOK, TypeOK
    <3> HIDE DEF T
    <3>2. walk.pos \in DOMAIN host.gen BY <1>1, <3>1
    <3> QED BY <3>2 DEF ToSet
  <2>4. /\ host'.gen = host.gen /\ host'.removed = host.removed /\ DOMAIN host' = DOMAIN host
        /\ host'.deps = With(host.deps, t, deps)
    BY <1>0, <2>1 DEF ShapeOK
  <2>5. DOMAIN host'.deps = DOMAIN host.deps \cup {t} BY <2>4 DEF With
  <2> HIDE DEF t
  <2>6. /\ DOMAIN walk' = DOMAIN walk /\ walk'.phase = walk.phase /\ walk'.pos = walk.pos + 1
        /\ walk'.update = walk.update /\ walk'.pending = walk.pending
        /\ walk'.failed = walk.failed /\ walk'.qres = walk.qres
    BY <1>0, <2>1 DEF ShapeOK
  <2>7. TypeOK' BY <1>0, <1>1, <2>1, <2>3, <2>4, <2>5, <2>6 DEF TypeOK
  <2>8. ShapeOK' /\ PosInv' /\ PassedInv'
    BY <1>0, <1>1, <2>4, <2>6 DEF ShapeOK, PosInv, PassedInv, Stage
  <2>9. EndInv' /\ ErrorsFail'
    BY <1>0, <1>1, <2>1, <2>2, <2>6 DEF EndInv, ErrorsFail, None
  <2> QED BY <2>7, <2>8, <2>9 DEF RunInv
<1> QED BY <1>2, <1>3

\* A run succeeds after resolving all targets: with an error reported there were
\* none.
LEMMA EmitKeepsRunInv ==
    ASSUME RunInv, Emit
    PROVE  RunInv'
<1>0. TypeOK /\ ShapeOK /\ PosInv /\ EndInv BY DEF RunInv
<1>1. /\ walk.phase = "resolve" /\ walk.pos > Len(host.gen)
      /\ walk' = [walk EXCEPT !.phase = "idle"] /\ outcome' = "ok"
      /\ UNCHANGED <<directives, foreign, cache, host, errs>>
  BY DEF Emit, End, user
<1>2. rules' \in [Pkg -> SUBSET Declaring] BY <1>0 DEF Emit, TypeOK
<1>3. TypeOK' BY <1>0, <1>1, <1>2 DEF TypeOK, ShapeOK, Phase
<1>4. ShapeOK' /\ PosInv' /\ PassedInv'
  BY <1>0, <1>1 DEF ShapeOK, PosInv, PassedInv, Stage
<1>5. EndInv' BY <1>0, <1>1 DEF ShapeOK, EndInv
<1>6. errs.acc => host.gen = <<>>
  <2> DEFINE T == Target
  <2>1. host.gen \in Seq(T) /\ walk.pos \in Nat \ {0} BY <1>0 DEF ShapeOK, TypeOK
  <2> HIDE DEF T
  <2>2. Len(host.gen) \in Nat BY <2>1
  <2>3. errs.acc => Len(host.gen) = 0 BY <1>0, <1>1, <2>1, <2>2 DEF EndInv
  <2> QED BY <2>1, <2>3, EmptySeq
<1>7. ErrorsFail' BY <1>1, <1>6 DEF ErrorsFail
<1> QED BY <1>3, <1>4, <1>5, <1>7 DEF RunInv

LEMMA RunInvStep ==
    ASSUME RunInv, [Next]_vars
    PROVE  RunInv'
<1>1. CASE UNCHANGED vars
  <2>1. UNCHANGED <<directives, foreign, rules, cache, walk, host, errs, outcome>>
    BY <1>1 DEF vars, user
  <2>2. TypeOK' BY <2>1 DEF RunInv, TypeOK
  <2> QED BY <2>1, <2>2
          DEF RunInv, ShapeOK, PosInv, PassedInv, EndInv, ErrorsFail
<1> QED
  BY <1>1, EditKeepsRunInv, StartKeepsRunInv, PassKeepsRunInv, QueryKeepsRunInv,
     AnalyzeKeepsRunInv, DeclareKeepsRunInv, AssignKeepsRunInv, ConvertKeepsRunInv,
     EndWalkKeepsRunInv, ResolveKeepsRunInv, EmitKeepsRunInv
  DEF Next

(***************************************************************************)
(* The invariant of query results.                                         *)
(***************************************************************************)

\* The plugins' queries are distinct.
DistinctHashes == \A p, q \in Plugin : Hash[p] = Hash[q] => p = q

\* A row of the cache has the results of the plugins in its key.
CacheInv ==
    \A row \in cache : row.results = {p \in Plugin : Hash[p] \in DOMAIN row.key}

ResultsInv == CacheInv /\ OwnResults /\ outcome # "panic"

\* The plugins in a key are those it was made of.
LEMMA KeyPlugins ==
    ASSUME DistinctHashes, NEW f \in File
    PROVE  PluginsOf(f) = {p \in Plugin : Hash[p] \in DOMAIN QueriesKey(f)}
<1>1. DOMAIN QueriesKey(f) = {Hash[p] : p \in PluginsOf(f)} BY DEF QueriesKey
<1> QED BY <1>1, OrionShape DEF DistinctHashes

LEMMA ResultsInvStep ==
    ASSUME DistinctHashes, RunInv, ResultsInv, [Next]_vars
    PROVE  ResultsInv'
<1>0. ShapeOK /\ TypeOK BY DEF RunInv
<1>1. ASSUME cache' = cache, walk'.phase # "query", outcome' # "panic"
      PROVE  ResultsInv'
  BY <1>1 DEF ResultsInv, CacheInv, OwnResults
<1>2. ASSUME NEW f \in File, Query(f)
      PROVE  ResultsInv'
  <2> DEFINE r == Results(f)
             k == QueriesKey(f)
  <2>1. /\ walk.phase = "query"
        /\ cache' = cache \cup {[file |-> f, key |-> k, results |-> r]}
        /\ walk' = [walk EXCEPT !.pending = @ \ {f}, !.qres = With(@, f, r)]
        /\ UNCHANGED <<directives, outcome>>
    BY <1>2, QueryDoes
  <2>2. r = PluginsOf(f) /\ r = {p \in Plugin : Hash[p] \in DOMAIN k}
    <3>1. CASE Hits(f) = {} BY <3>1, KeyPlugins DEF Results
    <3>2. CASE Hits(f) # {}
      <4>1. PICK row \in cache : row.key = k /\ r = row.results BY <3>2, HitIsRow
      <4>2. r = {p \in Plugin : Hash[p] \in DOMAIN k} BY <4>1 DEF ResultsInv, CacheInv
      <4> QED BY <4>2, KeyPlugins
    <3> QED BY <3>1, <3>2
  <2> HIDE DEF r, k
  <2>3. CacheInv' BY <2>1, <2>2 DEF CacheInv, ResultsInv
  <2>4. \A x \in DOMAIN walk'.qres :
            x \in DOMAIN walk.qres \cup {f}
            /\ walk'.qres[x] = IF x = f THEN r ELSE walk.qres[x]
    <3>1. walk'.qres = With(walk.qres, f, r) BY <1>0, <2>1 DEF ShapeOK
    <3> QED BY <3>1 DEF With
  <2>5. \A x : PluginsOf(x)' = PluginsOf(x)
    BY <2>1 DEF PluginsOf, EnabledIn, Enabled
  <2>6. OwnResults' BY <2>1, <2>2, <2>4, <2>5 DEF OwnResults, ResultsInv
  <2> QED BY <2>1, <2>3, <2>6 DEF ResultsInv
<1>3. ASSUME UNCHANGED <<cache, directives>>, walk'.phase = walk.phase, walk'.qres = walk.qres,
             outcome' # "panic"
      PROVE  ResultsInv'
  <2>1. \A x : PluginsOf(x)' = PluginsOf(x)
    BY <1>3 DEF PluginsOf, EnabledIn, Enabled
  <2> QED BY <1>3, <2>1 DEF ResultsInv, CacheInv, OwnResults
<1>4. ASSUME NEW f \in File, QueryFails(f)
      PROVE  ResultsInv'
  <2>1. /\ walk' = [walk EXCEPT !.pending = @ \ {f}, !.failed = TRUE]
        /\ UNCHANGED <<cache, directives, outcome>>
    BY <1>4 DEF QueryFails, user
  <2> QED BY <1>0, <1>3, <2>1 DEF ShapeOK, ResultsInv
<1>5. CASE Collect
  <2>1. /\ walk'.qres = <<>> /\ UNCHANGED <<cache, outcome>>
    BY <1>0, <1>5 DEF Collect, ShapeOK
  <2> QED BY <2>1 DEF ResultsInv, CacheInv, OwnResults
<1>6. CASE AssignResults
  <2>1. walk.phase = "query" /\ cache' = cache BY <1>6 DEF AssignResults, Waited
  <2>2. ~Misplaced BY <2>1 DEF Misplaced, ResultsInv, OwnResults
  <2>3. walk'.phase = "analyze" /\ outcome' = outcome
    BY <1>0, <1>6, <2>2 DEF AssignResults, ShapeOK
  <2> QED BY <1>1, <2>1, <2>3 DEF ResultsInv
<1>7. ASSUME NEW D \in Configuration, EditDirectives(D)
      PROVE  ResultsInv'
  BY <1>1, <1>7 DEF EditDirectives, None
<1>8. ASSUME NEW U \in SUBSET Pkg, Start(U)
      PROVE  ResultsInv'
  BY <1>1, <1>8 DEF Start, NewWalk, None
<1>9. CASE Skip \/ EndAnalyze
  BY <1>0, <1>1, <1>9 DEF Skip, AtPackage, EndAnalyze, ShapeOK, ResultsInv
<1>10. ASSUME NEW job \in walk.pending, Analyze(job)
       PROVE  ResultsInv'
  BY <1>0, <1>1, <1>10 DEF Analyze, ShapeOK, ResultsInv
<1>11. ASSUME NEW p \in Plugin, Declare(p)
       PROVE  ResultsInv'
  BY <1>0, <1>1, <1>11 DEF Declare, ShapeOK, ResultsInv
<1>12. ASSUME NEW targets, NEW gone, NEW error, Generated(targets, gone, error)
       PROVE  ResultsInv'
  <2>1. UNCHANGED <<cache, outcome>> BY <1>12 DEF Generated
  <2>2. Updated(targets, gone, errs.acc \/ error) \/ Imported(targets, errs.acc \/ error)
    BY <1>12 DEF Generated
  <2>3. \E next : walk' = [walk EXCEPT !.phase = "walk", !.pos = next]
    BY <2>2 DEF Updated, Imported
  <2>4. walk'.phase = "walk" BY <1>0, <2>3 DEF ShapeOK
  <2> QED BY <1>1, <2>1, <2>4 DEF ResultsInv
<1>13. CASE AbortGenerate \/ Convert BY <1>12, <1>13 DEF AbortGenerate, Convert
<1>14. CASE EndWalk
  <2>1. /\ cache' = cache /\ outcome' \in {outcome, "error"}
        /\ walk'.phase \in {"idle", "resolve"}
    BY <1>0, <1>14 DEF EndWalk, End, ShapeOK
  <2> QED BY <1>1, <2>1 DEF ResultsInv
<1>15. CASE Resolve
  <2>1. /\ cache' = cache /\ outcome' \in {outcome, "error"} /\ walk.phase = "resolve"
        /\ \/ walk' = [walk EXCEPT !.phase = "idle"]
           \/ walk' = [walk EXCEPT !.pos = @ + 1]
    BY <1>15 DEF Resolve, End
  <2> QED BY <1>0, <1>1, <2>1 DEF ShapeOK, ResultsInv
<1>16. CASE Emit
  BY <1>0, <1>1, <1>16 DEF Emit, End, ShapeOK
<1>17. CASE UNCHANGED vars BY <1>3, <1>17 DEF vars, user, ResultsInv
<1> QED
  BY <1>2, <1>4, <1>5, <1>6, <1>7, <1>8, <1>9, <1>10, <1>11, <1>13, <1>14, <1>15, <1>16, <1>17
  DEF Next

(***************************************************************************)
(* The theorems.                                                           *)
(***************************************************************************)

\* Every state of a run keeps the walk, the collected targets and the errors in
\* order (fix-update.go:335-590, generate.go:51).
THEOREM RunInvariantHolds == Spec => []RunInv
BY RunInvInit, RunInvStep, PTL DEF Spec

\* Every variable keeps its type, no target is generated twice and none is
\* resolved that was not generated (fix-update.go:379-561).
THEOREM OrionTypesHold == Spec => []TypeOK
<1>1. RunInv => TypeOK BY DEF RunInv
<1> QED BY <1>1, RunInvariantHolds, PTL

\* A run that has met an error succeeds only if it had nothing to resolve, for
\* every choice of packages, plugins and runs before it (error.go:32-43,
\* fix-update.go:413, fix-update.go:552).
THEOREM ErrorsFailHolds == Spec => []ErrorsFail
<1>1. RunInv => ErrorsFail BY DEF RunInv
<1> QED BY <1>1, RunInvariantHolds, PTL

\* With distinct queries every row of the cache has the results of the plugins in
\* its key, and no run ends in the panic of results nobody has asked for
\* (generate.go:94-141).
THEOREM ResultsInvariantHolds == DistinctHashes /\ Spec => []ResultsInv
<1> SUFFICES ASSUME DistinctHashes PROVE Spec => []ResultsInv OBVIOUS
<1>1. Init => ResultsInv
  BY DEF Init, NewWalk, ResultsInv, CacheInv, OwnResults, None
<1>2. RunInv /\ ResultsInv /\ [Next]_vars => ResultsInv' BY ResultsInvStep
<1> QED BY <1>1, <1>2, RunInvariantHolds, PTL DEF Spec

\* With distinct queries every plugin analyses the results of its own queries, all
\* of them, whatever the cache holds from runs with other plugins enabled
\* (generate.go:79-137).
THEOREM OwnResultsHolds == DistinctHashes /\ Spec => []OwnResults
<1> SUFFICES ASSUME DistinctHashes PROVE Spec => []OwnResults OBVIOUS
<1>1. ResultsInv => OwnResults BY DEF ResultsInv
<1>2. Spec => []ResultsInv BY ResultsInvariantHolds
<1> QED BY <1>1, <1>2, PTL

(***************************************************************************)
(* The nearest symbol.                                                     *)
(***************************************************************************)

\* A set of numbers that is not empty has a first one.
LEMMA FirstIsFirst ==
    ASSUME NEW T \in SUBSET Nat, T # {}
    PROVE  First(T) \in T
<1>1. IsWellFoundedOn(OpToRel(<, Nat), Nat) BY NatLessThanWellFounded
<1>2. PICK x \in T : \A y \in T : ~ (<<y, x>> \in OpToRel(<, Nat)) BY <1>1, WFMin
<1>3. \A y \in T : ~ (y < x) BY <1>2 DEF OpToRel
<1> HIDE <1>1
<1>4. \A y \in T : x <= y BY <1>3
<1> QED BY <1>4 DEF First

\* Of some things with a depth, bounded by n, one is deepest.
LEMMA DeepestExists ==
    ASSUME NEW T, T # {}, NEW depth, \A i \in T : depth[i] \in Nat,
           NEW n \in Nat, \A i \in T : depth[i] <= n
    PROVE  \E i \in T : \A j \in T : depth[j] <= depth[i]
<1> DEFINE above == {n - depth[i] : i \in T}
<1>1. above \in SUBSET Nat /\ above # {} OBVIOUS
<1>2. IsWellFoundedOn(OpToRel(<, Nat), Nat) BY NatLessThanWellFounded
<1> HIDE DEF above
<1>3. PICK x \in above : \A y \in above : ~ (<<y, x>> \in OpToRel(<, Nat)) BY <1>1, <1>2, WFMin
<1>4. \A y \in above : ~ (y < x) BY <1>1, <1>3 DEF OpToRel
<1> HIDE <1>2, <1>3
<1>5. PICK i \in T : x = n - depth[i] BY DEF above
<1>6. \A j \in T : n - depth[j] \in above BY DEF above
<1>7. \A j \in T : ~ (n - depth[j] < n - depth[i]) BY <1>4, <1>5, <1>6
<1> QED BY <1>7

\* The nearest symbol is one of those matched; if some enclose the importer, it is
\* one of these and in no package above another.
LEMMA NearestIsDeepest ==
    ASSUME NEW db, NEW matched \in SUBSET Nat, matched # {}, NEW from,
           from.pkg \in Seq(STRING),
           \A i \in matched : db[i].label.pkg \in Seq(STRING)
    PROVE  \E i \in matched :
               /\ NearestSymbol(db, matched, from) = db[i]
               /\ \A j \in matched : Encloses(db[j].label, from) =>
                      /\ Encloses(db[i].label, from)
                      /\ Len(db[j].label.pkg) <= Len(db[i].label.pkg)
<1> DEFINE near == {i \in matched : Encloses(db[i].label, from)}
           depth == [i \in matched |-> Len(db[i].label.pkg)]
           deepest == {i \in near : \A j \in near : Len(db[j].label.pkg) <= Len(db[i].label.pkg)}
<1>1. CASE near = {}
  <2>1. NearestSymbol(db, matched, from) = db[First(matched)] BY <1>1 DEF NearestSymbol
  <2>2. First(matched) \in matched BY FirstIsFirst
  <2> QED BY <1>1, <2>1, <2>2
<1>2. CASE near # {}
  <2>1. NearestSymbol(db, matched, from) = db[First(deepest)] BY <1>2 DEF NearestSymbol
  <2>2. deepest # {}
    <3>1. \A i \in near : depth[i] \in Nat /\ depth[i] <= Len(from.pkg)
      BY DEF Encloses, IsPkgAncestor, IsPrefix
    <3>2. Len(from.pkg) \in Nat OBVIOUS
    <3> HIDE DEF near, depth
    <3>3. \E i \in near : \A j \in near : depth[j] <= depth[i]
      BY <1>2, <3>1, <3>2, DeepestExists
    <3> QED BY <3>3 DEF near, depth
  <2>3. deepest \in SUBSET Nat OBVIOUS
  <2> HIDE DEF deepest
  <2>4. First(deepest) \in deepest BY <2>2, <2>3, FirstIsFirst
  <2> QED BY <2>1, <2>4 DEF deepest
<1> QED BY <1>1, <1>2

\* Packages of one depth that enclose a package are the same.
LEMMA AncestorsOfOneDepth ==
    ASSUME NEW p \in Seq(STRING), NEW q \in Seq(STRING), NEW pkg \in Seq(STRING),
           IsPkgAncestor(p, pkg), IsPkgAncestor(q, pkg), Len(p) = Len(q)
    PROVE  p = q
<1>1. /\ SubSeq(p, 1, Len(p)) = SubSeq(pkg, 1, Len(p))
      /\ SubSeq(q, 1, Len(q)) = SubSeq(pkg, 1, Len(q))
  BY DEF IsPkgAncestor, IsPrefix
<1>2. SubSeq(p, 1, Len(p)) = p /\ SubSeq(q, 1, Len(q)) = q OBVIOUS
<1> QED BY <1>1, <1>2

(***************************************************************************)
(* What an import resolves to, in a database and in the absolute form of   *)
(* its symbols in another order.                                           *)
(***************************************************************************)

LEMMA AbsoluteSymbol ==
    ASSUME NEW s \in TargetSymbol, NEW from, from.repo = RepoName
    PROVE  /\ Absolute(s) \in TargetSymbol
           /\ Absolute(s).id = s.id /\ Absolute(s).provider = s.provider
           /\ Absolute(s).label = Qualified(s.label, from)
           /\ Qualified(Absolute(s).label, from) = Qualified(s.label, from)
           /\ (s.label.repo = MainRepo => RepoName = MainRepo) => Absolute(s).label = s.label
<1>1. RepoName \in STRING BY OrionAssumption
<1> DEFINE l == s.label
           m == [l EXCEPT !.repo = RepoName]
<1>2. l \in Label /\ DOMAIN l = {"repo", "pkg", "name"} BY DEF TargetSymbol, Label
<1>3. m \in Label /\ m.repo = RepoName BY <1>1, <1>2 DEF Label
<1>4. l.repo = RepoName => m = l BY <1>2 DEF Label
<1>5. Absolute(s) = [s EXCEPT !.label = IF l.repo = MainRepo THEN m ELSE l]
  BY <1>2 DEF Absolute, TargetSymbol, Label
<1>6. Absolute(s).label = IF l.repo = MainRepo THEN m ELSE l
  BY <1>5 DEF TargetSymbol
<1>7. Absolute(s) \in TargetSymbol BY <1>2, <1>3, <1>5 DEF TargetSymbol
<1>8. Absolute(s).id = s.id /\ Absolute(s).provider = s.provider BY <1>5 DEF TargetSymbol
<1>9. Qualified(l, from) = IF l.repo = MainRepo THEN m ELSE l BY DEF Qualified
<1>10. Qualified(m, from) = m BY <1>3 DEF Qualified, Label
<1> QED BY <1>4, <1>6, <1>7, <1>8, <1>9, <1>10 DEF Qualified

\* Some symbols of db and, absolute, of another database.
SameSymbols(db, R, all, A) ==
    /\ \A i \in A : \E k \in R : all[i] = Absolute(db[k])
    /\ \A k \in R : \E i \in A : all[i] = Absolute(db[k])

\* The symbols at some places of a database.
Chosen(db, R) == {db[i] : i \in R}

\* A package of the workspace.
Inside(from) == from.repo = RepoName /\ from.pkg \in Seq(STRING)

LEMMA NearestSame ==
    ASSUME NEW db \in Seq(TargetSymbol), NEW all \in Seq(TargetSymbol),
           NEW R \in SUBSET DOMAIN db, NEW A \in SUBSET DOMAIN all, R # {}, A # {},
           SameSymbols(db, R, all, A), NEW from, Inside(from), Decided(Chosen(db, R), from)
    PROVE  Qualified(NearestSymbol(db, R, from).label, from)
               = Qualified(NearestSymbol(all, A, from).label, from)
<1>0. /\ R \in SUBSET Nat /\ A \in SUBSET Nat
      /\ \A i \in R : db[i] \in TargetSymbol /\ db[i].label \in Label
      /\ \A i \in A : all[i] \in TargetSymbol
  <2> DEFINE T == TargetSymbol
  <2>1. db \in Seq(T) /\ all \in Seq(T) OBVIOUS
  <2> HIDE DEF T
  <2>2. R \in SUBSET Nat /\ A \in SUBSET Nat BY <2>1
  <2>3. (\A i \in R : db[i] \in T) /\ (\A i \in A : all[i] \in T) BY <2>1
  <2> QED BY <2>2, <2>3 DEF T, TargetSymbol
<1>15. from.repo = RepoName /\ from.pkg \in Seq(STRING) BY DEF Inside
<1>3. \A i \in R : db[i].label.pkg \in Seq(STRING) BY <1>0 DEF Label
<1>4. \A i \in A : all[i].label.pkg \in Seq(STRING) BY <1>0 DEF TargetSymbol, Label
<1>5. PICK i \in R :
          /\ NearestSymbol(db, R, from) = db[i]
          /\ \A j \in R : Encloses(db[j].label, from) =>
                 Encloses(db[i].label, from) /\ Len(db[j].label.pkg) <= Len(db[i].label.pkg)
  BY <1>0, <1>3, <1>15, NearestIsDeepest
<1>6. PICK n \in A :
          /\ NearestSymbol(all, A, from) = all[n]
          /\ \A j \in A : Encloses(all[j].label, from) =>
                 Encloses(all[n].label, from) /\ Len(all[j].label.pkg) <= Len(all[n].label.pkg)
  BY <1>0, <1>4, <1>15, NearestIsDeepest
<1>7. PICK k \in R : all[n] = Absolute(db[k]) BY DEF SameSymbols
<1>8. Qualified(all[n].label, from) = Qualified(db[k].label, from)
  BY <1>0, <1>7, <1>15, AbsoluteSymbol
<1> DEFINE near == {j \in R : Encloses(db[j].label, from)}
<1>9. CASE \A j, m \in R : Qualified(db[j].label, from) = Qualified(db[m].label, from)
  BY <1>5, <1>6, <1>8, <1>9
<1>10. CASE /\ near # {} /\ \A j, m \in near : db[j].label.pkg = db[m].label.pkg
                                                 => db[j].label = db[m].label
            /\ \A j \in R : db[j].label.repo = MainRepo => RepoName = MainRepo
  <2>1. \A j \in R : Absolute(db[j]).label = db[j].label BY <1>0, <1>10, <1>15, AbsoluteSymbol
  <2>2. ASSUME NEW j \in R PROVE \E m \in A : all[m].label = db[j].label
    <3>1. PICK m \in A : all[m] = Absolute(db[j]) BY DEF SameSymbols
    <3> QED BY <2>1, <3>1
  <2>3. i \in near BY <1>5, <1>10
  <2>4. k \in near
    <3>1. Encloses(all[n].label, from) BY <1>6, <2>2, <2>3
    <3> QED BY <1>7, <2>1, <3>1
  <2>5. Len(db[k].label.pkg) <= Len(db[i].label.pkg) BY <1>5, <2>4
  <2>6. Len(db[i].label.pkg) <= Len(db[k].label.pkg) BY <1>6, <1>7, <2>1, <2>2, <2>3
  <2>7. Len(db[k].label.pkg) = Len(db[i].label.pkg)
    <3>1. Len(db[k].label.pkg) \in Nat /\ Len(db[i].label.pkg) \in Nat BY <1>3
    <3> DEFINE a == Len(db[k].label.pkg)
               b == Len(db[i].label.pkg)
    <3>2. a \in Nat /\ b \in Nat /\ a <= b /\ b <= a BY <2>5, <2>6, <3>1
    <3> HIDE DEF a, b
    <3>3. a = b BY <3>2
    <3> QED BY <3>3 DEF a, b
  <2>8. db[k].label.pkg = db[i].label.pkg
    BY <1>3, <1>15, <2>3, <2>4, <2>7, AncestorsOfOneDepth DEF Encloses
  <2>9. db[k].label = db[i].label BY <1>10, <2>3, <2>4, <2>8
  <2> QED BY <1>5, <1>6, <1>8, <2>9
<1> DEFINE labels == {s.label : s \in Chosen(db, R)}
           around == {l \in labels : Encloses(l, from)}
<1>11. \/ \A l, m \in labels : Qualified(l, from) = Qualified(m, from)
       \/ /\ around # {} /\ \A l, m \in around : l.pkg = m.pkg => l = m
          /\ \A l \in labels : l.repo = MainRepo => RepoName = MainRepo
  BY DEF Decided
<1>12. \A j \in R : db[j].label \in labels BY DEF Chosen
<1>13. \A j \in near : db[j].label \in around BY <1>12
<1>14. around # {} => near # {} BY DEF Chosen
<1> HIDE DEF labels, around, near
<1> QED BY <1>9, <1>10, <1>11, <1>12, <1>13, <1>14

\* The labels of a result, as dependencies of the importer.
DepsOf(result, from) == {Qualified(l, from) : l \in result.labels}

LEMMA ResolveSymbolSame ==
    ASSUME NEW db \in Seq(TargetSymbol), NEW all \in Seq(TargetSymbol),
           ToSet(all) = {Absolute(s) : s \in ToSet(db)},
           NEW from, from.repo = RepoName, from.pkg \in Seq(STRING), NEW impt,
           impt.multiple \/ Decided(Rivals(ToSet(db), impt), from),
           NEW collected, NEW self
    PROVE  DepsOf(ResolveSymbol(impt, from, db, collected, self), from)
               = DepsOf(ResolveSymbol(impt, from, all, collected, self), from)
<1> DEFINE sym(d) == {i \in DOMAIN d : d[i].id = impt.id}
           mat(d) == {i \in sym(d) : d[i].provider = impt.provider}
           riv(d) == IF mat(d) = {} THEN sym(d) ELSE mat(d)
           lab(d) == collected \cup {d[i].label : i \in mat(d)}
<1>1. \A i \in DOMAIN db : db[i] \in TargetSymbol
  <2> DEFINE T == TargetSymbol
  <2>1. db \in Seq(T) OBVIOUS
  <2> HIDE DEF T
  <2> QED BY <2>1 DEF T
<1>2. \A i \in DOMAIN db :
          /\ Absolute(db[i]).id = db[i].id /\ Absolute(db[i]).provider = db[i].provider
          /\ Qualified(Absolute(db[i]).label, from) = Qualified(db[i].label, from)
  BY <1>1, AbsoluteSymbol
<1>3. \A i \in DOMAIN db : \E k \in DOMAIN all : all[k] = Absolute(db[i])
  <2>1. \A i \in DOMAIN db : Absolute(db[i]) \in ToSet(all) BY DEF ToSet
  <2> QED BY <2>1 DEF ToSet
<1>4. \A k \in DOMAIN all : \E i \in DOMAIN db : all[k] = Absolute(db[i])
  <2> SUFFICES ASSUME NEW k \in DOMAIN all PROVE \E i \in DOMAIN db : all[k] = Absolute(db[i])
    OBVIOUS
  <2>1. all[k] \in ToSet(all) BY DEF ToSet
  <2>2. PICK s \in ToSet(db) : all[k] = Absolute(s) BY <2>1
  <2>3. PICK i \in DOMAIN db : s = db[i] BY DEF ToSet
  <2> QED BY <2>2, <2>3
<1>5. /\ \A i \in sym(db) : \E k \in sym(all) : all[k] = Absolute(db[i])
      /\ \A k \in sym(all) : \E i \in sym(db) : all[k] = Absolute(db[i])
  <2>1. ASSUME NEW i \in sym(db) PROVE \E k \in sym(all) : all[k] = Absolute(db[i])
    <3>1. PICK k \in DOMAIN all : all[k] = Absolute(db[i]) BY <1>3
    <3>2. k \in sym(all) BY <1>2, <3>1
    <3> QED BY <3>1, <3>2
  <2>2. ASSUME NEW k \in sym(all) PROVE \E i \in sym(db) : all[k] = Absolute(db[i])
    <3>1. PICK i \in DOMAIN db : all[k] = Absolute(db[i]) BY <1>4
    <3>2. i \in sym(db) BY <1>2, <3>1
    <3> QED BY <3>1, <3>2
  <2> QED BY <2>1, <2>2
<1>6. /\ \A i \in mat(db) : \E k \in mat(all) : all[k] = Absolute(db[i])
      /\ \A k \in mat(all) : \E i \in mat(db) : all[k] = Absolute(db[i])
  <2>1. ASSUME NEW i \in mat(db) PROVE \E k \in mat(all) : all[k] = Absolute(db[i])
    <3>1. PICK k \in sym(all) : all[k] = Absolute(db[i]) BY <1>5
    <3>2. k \in mat(all) BY <1>2, <3>1
    <3> QED BY <3>1, <3>2
  <2>2. ASSUME NEW k \in mat(all) PROVE \E i \in mat(db) : all[k] = Absolute(db[i])
    <3>1. PICK i \in sym(db) : all[k] = Absolute(db[i]) BY <1>5
    <3>2. i \in mat(db) BY <1>2, <3>1
    <3> QED BY <3>1, <3>2
  <2> QED BY <2>1, <2>2
<1>7. ResolveSymbol(impt, from, db, collected, self)
        = IF impt.multiple
          THEN IF lab(db) # {} THEN Resolved(lab(db))
               ELSE Unresolved(IF self THEN "None" ELSE "NotFound")
          ELSE IF sym(db) = {} THEN Unresolved("NotFound")
               ELSE Resolved({NearestSymbol(db, riv(db), from).label})
  BY DEF ResolveSymbol, LookupSymbols
<1>8. ResolveSymbol(impt, from, all, collected, self)
        = IF impt.multiple
          THEN IF lab(all) # {} THEN Resolved(lab(all))
               ELSE Unresolved(IF self THEN "None" ELSE "NotFound")
          ELSE IF sym(all) = {} THEN Unresolved("NotFound")
               ELSE Resolved({NearestSymbol(all, riv(all), from).label})
  BY DEF ResolveSymbol, LookupSymbols
<1>9. \A L : DepsOf(Resolved(L), from) = {Qualified(l, from) : l \in L}
  BY DEF DepsOf, Resolved
<1>10. \A type : DepsOf(Unresolved(type), from) = {} BY DEF DepsOf, Unresolved
<1>11. CASE impt.multiple
  <2>1. /\ \A l \in lab(db) : \E m \in lab(all) : Qualified(m, from) = Qualified(l, from)
        /\ \A m \in lab(all) : \E l \in lab(db) : Qualified(m, from) = Qualified(l, from)
    <3>1. ASSUME NEW i \in mat(db) PROVE \E k \in mat(all) :
                 Qualified(all[k].label, from) = Qualified(db[i].label, from)
      BY <1>2, <1>6
    <3>2. ASSUME NEW k \in mat(all) PROVE \E i \in mat(db) :
                 Qualified(all[k].label, from) = Qualified(db[i].label, from)
      BY <1>2, <1>6
    <3> HIDE DEF mat
    <3> QED BY <3>1, <3>2
  <2> HIDE DEF lab, sym, mat, riv
  <2>2. {Qualified(l, from) : l \in lab(db)} = {Qualified(l, from) : l \in lab(all)} BY <2>1
  <2>3. lab(db) = {} <=> lab(all) = {} BY <2>1
  <2> QED BY <1>7, <1>8, <1>9, <1>10, <1>11, <2>2, <2>3
<1>12. CASE ~impt.multiple
  <2>1. sym(db) = {} <=> sym(all) = {} BY <1>5
  <2>2. mat(db) = {} <=> mat(all) = {} BY <1>6
  <2>3. /\ \A i \in riv(db) : \E k \in riv(all) : all[k] = Absolute(db[i])
        /\ \A k \in riv(all) : \E i \in riv(db) : all[k] = Absolute(db[i])
    BY <1>5, <1>6, <2>2
  <2>5. {db[i] : i \in riv(db)} = Rivals(ToSet(db), impt)
    <3>1. {db[i] : i \in sym(db)} = {s \in ToSet(db) : s.id = impt.id} BY DEF ToSet
    <3>2. {db[i] : i \in mat(db)}
            = {s \in {r \in ToSet(db) : r.id = impt.id} : s.provider = impt.provider}
      BY DEF ToSet
    <3> QED BY <3>1, <3>2 DEF Rivals
  <2>4. SameSymbols(db, riv(db), all, riv(all)) BY <2>3 DEF SameSymbols
  <2>6. riv(db) \in SUBSET DOMAIN db /\ riv(all) \in SUBSET DOMAIN all OBVIOUS
  <2>7. sym(db) # {} => riv(db) # {} /\ riv(all) # {} BY <2>1, <2>2
  <2>8. Decided(Rivals(ToSet(db), impt), from) BY <1>12
  <2> HIDE DEF lab, sym, mat, riv
  <2>9. CASE sym(db) = {} BY <1>7, <1>8, <1>12, <2>1, <2>9
  <2>10. CASE sym(db) # {}
    <3>1. Qualified(NearestSymbol(db, riv(db), from).label, from)
            = Qualified(NearestSymbol(all, riv(all), from).label, from)
      <4> DEFINE R == riv(db)
                 A == riv(all)
      <4>1. /\ R \in SUBSET DOMAIN db /\ A \in SUBSET DOMAIN all /\ R # {} /\ A # {}
            /\ SameSymbols(db, R, all, A) /\ Decided(Chosen(db, R), from) /\ Inside(from)
        BY <2>4, <2>5, <2>6, <2>7, <2>8, <2>10 DEF Chosen, Inside
      <4> HIDE DEF R, A
      <4>2. Qualified(NearestSymbol(db, R, from).label, from)
              = Qualified(NearestSymbol(all, A, from).label, from)
        BY <4>1, NearestSame
      <4> QED BY <4>2 DEF R, A
    <3>2. \A l : DepsOf(Resolved({l}), from) = {Qualified(l, from)} BY <1>9
    <3> QED BY <1>7, <1>8, <1>12, <2>1, <2>10, <3>1, <3>2
  <2> QED BY <2>9, <2>10
<1> QED BY <1>11, <1>12

\* The index and the overrides are the same, and only what they do not settle is
\* looked up in the database.
LEMMA ResolveImportSame ==
    ASSUME NEW db \in Seq(TargetSymbol), NEW all \in Seq(TargetSymbol),
           ToSet(all) = {Absolute(s) : s \in ToSet(db)},
           NEW from, from.repo = RepoName, from.pkg \in Seq(STRING), NEW impt,
           impt.multiple \/ Decided(Rivals(ToSet(db), impt), from),
           NEW overrides, NEW index
    PROVE  DepsOf(ResolveImport(impt, from, overrides, index, db), from)
               = DepsOf(ResolveImport(impt, from, overrides, index, all), from)
<1> DEFINE specs == ImportSpecsToTry(impt, from.pkg)
           override(i) == Found(overrides, specs[i])
           matches(i) == Found(index, specs[i])
           filtered(i) == matches(i) \ {from}
           settles(i) == \/ override(i) # {} \/ filtered(i) # {}
                         \/ matches(i) # {} /\ (impt.multiple \/ ~impt.ancestor)
           i == CHOOSE n \in DOMAIN specs : settles(n) /\ \A k \in 1..n - 1 : ~settles(k)
           sym(d, collected, self) == ResolveSymbol(impt, from, d, collected, self)
           result(d) ==
             CASE \A n \in DOMAIN specs : ~settles(n) -> sym(d, {}, FALSE)
               [] OTHER ->
                  CASE override(i) # {} -> Resolved(override(i))
                    [] override(i) = {} /\ impt.multiple ->
                           sym(d, filtered(i), filtered(i) = {})
                    [] override(i) = {} /\ ~impt.multiple /\ filtered(i) = {} -> Unresolved("None")
                    [] OTHER -> IF Cardinality(filtered(i)) > 1 THEN Unresolved("Error")
                                ELSE Resolved(filtered(i))
<1>1. /\ ResolveImport(impt, from, overrides, index, db) = result(db)
      /\ ResolveImport(impt, from, overrides, index, all) = result(all)
  BY DEF ResolveImport
<1>2. ASSUME NEW collected, NEW self
      PROVE  DepsOf(sym(db, collected, self), from) = DepsOf(sym(all, collected, self), from)
  BY ResolveSymbolSame
<1> HIDE DEF i, settles, filtered, override, specs, sym
<1>3. DepsOf(result(db), from) = DepsOf(result(all), from)
  <2>1. CASE \A n \in DOMAIN specs : ~settles(n) BY <1>2, <2>1
  <2>2. CASE ~(\A n \in DOMAIN specs : ~settles(n))
    <3>1. CASE override(i) # {} BY <2>2, <3>1
    <3>2. CASE override(i) = {} /\ impt.multiple BY <1>2, <2>2, <3>2
    <3>3. CASE override(i) = {} /\ ~impt.multiple BY <2>2, <3>3
    <3> QED BY <3>1, <3>2, <3>3
  <2> QED BY <2>1, <2>2
<1> HIDE DEF result
<1> QED BY <1>1, <1>3

LEMMA ResolveImportsSame ==
    ASSUME NEW db \in Seq(TargetSymbol), NEW all \in Seq(TargetSymbol),
           ToSet(all) = {Absolute(s) : s \in ToSet(db)},
           NEW from, from.repo = RepoName, from.pkg \in Seq(STRING), NEW imports,
           \A impt \in imports :
               impt.multiple \/ Decided(Rivals(ToSet(db), impt), from),
           NEW overrides, NEW index
    PROVE  ResolveImports(imports, from, overrides, index, db).deps
               = ResolveImports(imports, from, overrides, index, all).deps
<1> DEFINE result(d, impt) == ResolveImport(impt, from, overrides, index, d)
           labels(d) == UNION {result(d, impt).labels : impt \in imports}
           deps(d) == {Qualified(l, from) : l \in labels(d)} \ {from}
<1>1. /\ ResolveImports(imports, from, overrides, index, db).deps = deps(db)
      /\ ResolveImports(imports, from, overrides, index, all).deps = deps(all)
  BY DEF ResolveImports
<1>2. ASSUME NEW impt \in imports
      PROVE  DepsOf(result(db, impt), from) = DepsOf(result(all, impt), from)
  BY ResolveImportSame
<1> HIDE DEF result
<1>3. /\ {Qualified(l, from) : l \in labels(db)}
            = UNION {DepsOf(result(db, impt), from) : impt \in imports}
      /\ {Qualified(l, from) : l \in labels(all)}
            = UNION {DepsOf(result(all, impt), from) : impt \in imports}
  BY DEF DepsOf
<1>4. {Qualified(l, from) : l \in labels(db)} = {Qualified(l, from) : l \in labels(all)}
  BY <1>2, <1>3
<1> HIDE DEF labels
<1> QED BY <1>1, <1>4

(***************************************************************************)
(* The invariant of what has been collected.                               *)
(***************************************************************************)

\* What a package adds to the database, from its files and when its targets are
\* declared, and to the index.
FileSymbols(pkg) ==
    UNION {UNION {Added(p, f) : p \in PluginsOf(f)} : f \in {g \in File : PkgOf[g] = pkg}}
OwnSymbols(pkg) == UNION {ToSet(AddedIn(p, pkg)) : p \in EnabledIn(pkg)}
Entries(pkg) == UNION {SymbolsOf(<<pkg, p>>) : p \in {q \in Plugin : Declares(q, pkg)}}

\* The packages the walk has passed, and what they have added.
Passed == {Visits[k] : k \in {j \in 1..Len(Visits) : j < walk.pos}}
Before == UNION {FileSymbols(pkg) \cup OwnSymbols(pkg) : pkg \in Passed}
IndexBefore == UNION {Entries(pkg) : pkg \in Passed}

\* The packages a run does not update stay as a full run has left them.
KeptInv ==
    walk.phase \in Stage \cup {"walk"} =>
        \A pkg \in Pkg \ walk.update : UpToDate(pkg) /\ (IndexedByRules => Indexed(pkg))

\* The index has the entries of the packages passed, and the database their symbols;
\* those of the current package are there, or to come from what is pending.
IndexInv == host.index = IndexBefore
DbInv ==
    /\ walk.phase \in {"walk", "query"} => ToSet(host.db) = Before
    /\ walk.phase = "query" /\ ~walk.failed =>
           DOMAIN walk.qres \cup walk.pending = {f \in File : PkgOf[f] = cur /\ PluginsOf(f) # {}}
    /\ walk.phase = "analyze" =>
           ToSet(host.db) \cup {job[3] : job \in walk.pending} = Before \cup FileSymbols(cur)
    /\ walk.phase = "declare" =>
           ToSet(host.db) \cup UNION {ToSet(AddedIn(p, cur)) : p \in walk.pending}
               = Before \cup FileSymbols(cur) \cup OwnSymbols(cur)
WalkedInv == walk.phase \in Stage \cup {"walk"} /\ ~errs.acc => IndexInv /\ DbInv

\* After the walk they are those of all packages.
FullInv ==
    (walk.phase = "resolve" \/ outcome = "ok") /\ ~errs.acc =>
        host.index = FullIndex /\ ToSet(host.db) = FullSymbols

\* What has been resolved, has been with what is collected.
Deps(t) == ResolveImports(ImportsOf(t[2], t[1]), LabelOf(t), {}, host.index, host.db).deps
DepsInv ==
    /\ walk.phase = "resolve" =>
           \A k \in DOMAIN host.gen : k < walk.pos =>
               host.gen[k] \in DOMAIN host.deps /\ host.deps[host.gen[k]] = Deps(host.gen[k])
    /\ outcome = "ok" => \A k \in DOMAIN host.gen : host.deps[host.gen[k]] = Deps(host.gen[k])

CollectedInv ==
    /\ host.db \in Seq(TargetSymbol)
    /\ KeptInv /\ WalkedInv /\ FullInv /\ DepsInv

\* A plugin that adds symbols while it declares the targets of a package has sources
\* there.
AddedWithSources ==
    \A p \in Plugin, pkg \in Pkg : AddedIn(p, pkg) # <<>> => SourcesIn(p, pkg) # {}

LEMMA CollectedInit == Init => CollectedInv
<1> SUFFICES ASSUME Init PROVE CollectedInv OBVIOUS
<1>1. walk.phase = "idle" /\ outcome = "none" /\ host.db = <<>>
  BY DEF Init, NewWalk, NewHost, None
<1> QED
  BY <1>1 DEF CollectedInv, KeptInv, WalkedInv, FullInv, DepsInv, Stage

\* What a package adds depends on the directives.
LEMMA StaticSymbols ==
    ASSUME UNCHANGED directives
    PROVE  /\ \A pkg : EnabledIn(pkg)' = EnabledIn(pkg)
           /\ \A pkg : FileSymbols(pkg)' = FileSymbols(pkg)
           /\ \A pkg : OwnSymbols(pkg)' = OwnSymbols(pkg)
           /\ \A pkg : Entries(pkg)' = Entries(pkg)
           /\ \A f : PluginsOf(f)' = PluginsOf(f)
           /\ FullIndex' = FullIndex /\ FullSymbols' = FullSymbols
<1>1. \A p, pkg : Enabled(p, pkg)' = Enabled(p, pkg) BY DEF Enabled
<1>2. \A pkg : EnabledIn(pkg)' = EnabledIn(pkg) BY <1>1 DEF EnabledIn
<1>3. \A f : PluginsOf(f)' = PluginsOf(f) BY <1>2 DEF PluginsOf
<1>4. \A p, pkg : Declares(p, pkg)' <=> Declares(p, pkg) BY <1>1 DEF Declares
<1>5. \A pkg : FileSymbols(pkg)' = FileSymbols(pkg) BY <1>3 DEF FileSymbols
<1>6. \A pkg : OwnSymbols(pkg)' = OwnSymbols(pkg) BY <1>2 DEF OwnSymbols
<1>7. \A pkg : Entries(pkg)' = Entries(pkg) BY <1>4 DEF Entries
<1>8. FullIndex' = FullIndex BY <1>4 DEF FullIndex
<1>9. FullSymbols' = FullSymbols BY <1>2, <1>3 DEF FullSymbols
<1> QED BY <1>2, <1>3, <1>5, <1>6, <1>7, <1>8, <1>9

\* The set of a sequence that has been added to.
LEMMA ToSetAdd ==
    ASSUME NEW S, NEW s \in Seq(S)
    PROVE  /\ \A x \in S : Append(s, x) \in Seq(S) /\ ToSet(Append(s, x)) = ToSet(s) \cup {x}
           /\ \A t \in Seq(S) : s \o t \in Seq(S) /\ ToSet(s \o t) = ToSet(s) \cup ToSet(t)
<1>1. ASSUME NEW x \in S
      PROVE  Append(s, x) \in Seq(S) /\ ToSet(Append(s, x)) = ToSet(s) \cup {x}
  <2> DEFINE a == Append(s, x)
             n == Len(s)
  <2>1. /\ n \in Nat /\ DOMAIN s = 1..n /\ a \in Seq(S) /\ DOMAIN a = 1..n + 1
        /\ a[n + 1] = x /\ \A i \in 1..n : a[i] = s[i]
    OBVIOUS
  <2> HIDE DEF a, n
  <2>2. \A i \in 1..n + 1 : i \in 1..n \/ i = n + 1 BY <2>1
  <2>3. \A i \in 1..n : i \in 1..n + 1 BY <2>1
  <2>4. n + 1 \in 1..n + 1 BY <2>1
  <2>5. ToSet(a) = ToSet(s) \cup {x} BY <2>1, <2>2, <2>3, <2>4 DEF ToSet
  <2> QED BY <2>1, <2>5 DEF a
<1>2. ASSUME NEW t \in Seq(S)
      PROVE  s \o t \in Seq(S) /\ ToSet(s \o t) = ToSet(s) \cup ToSet(t)
  <2> DEFINE a == s \o t
             n == Len(s)
             m == Len(t)
  <2>1. /\ n \in Nat /\ DOMAIN s = 1..n /\ m \in Nat /\ DOMAIN t = 1..m
        /\ a \in Seq(S) /\ DOMAIN a = 1..n + m
        /\ \A i \in 1..n : a[i] = s[i]
        /\ \A i \in n + 1..n + m : i - n \in 1..m /\ a[i] = t[i - n]
    OBVIOUS
  <2> HIDE DEF a, n, m
  <2>2. \A i \in 1..n + m : i \in 1..n \/ i \in n + 1..n + m BY <2>1
  <2>3. \A i \in 1..n : i \in 1..n + m BY <2>1
  <2>4. \A i \in 1..m : n + i \in n + 1..n + m /\ n + i \in 1..n + m /\ (n + i) - n = i BY <2>1
  <2>5. \A i \in 1..m : a[n + i] = t[i] BY <2>1, <2>4
  <2>6. ToSet(a) \subseteq ToSet(s) \cup ToSet(t) BY <2>1, <2>2 DEF ToSet
  <2>7. ToSet(s) \subseteq ToSet(a) BY <2>1, <2>3 DEF ToSet
  <2>8. ToSet(t) \subseteq ToSet(a)
    <3> SUFFICES ASSUME NEW i \in 1..m PROVE t[i] \in ToSet(a) BY <2>1 DEF ToSet
    <3>1. n + i \in DOMAIN a BY <2>1, <2>4
    <3>2. a[n + i] \in ToSet(a) BY <3>1 DEF ToSet
    <3> QED BY <2>5, <3>2
  <2> QED BY <2>1, <2>6, <2>7, <2>8 DEF a
<1> QED BY <1>1, <1>2

LEMMA SymbolTypes ==
    /\ \A p \in Plugin, f \in File : Added(p, f) \subseteq TargetSymbol
    /\ \A p \in Plugin, pkg \in Pkg : AddedIn(p, pkg) \in Seq(TargetSymbol)
    /\ \A f \in File : PkgOf[f] \in Pkg
    /\ \A p \in Plugin : Sources[p] \subseteq File
    /\ Pkg \subseteq Seq(STRING) /\ RepoName \in STRING
<1>1. PkgOf \in [File -> Pkg] /\ Sources \in [Plugin -> SUBSET File] BY OrionAssumption
<1>2. \A f \in File : PkgOf[f] \in Pkg
  <2> HIDE DEF Pkg
  <2> QED BY <1>1
<1>3. \A p \in Plugin : Sources[p] \subseteq File
  <2> HIDE DEF Plugin
  <2> QED BY <1>1
<1>4. \A p \in Plugin : /\ \A f \in File : Added(p, f) \subseteq TargetSymbol
                        /\ \A pkg \in Pkg : AddedIn(p, pkg) \in Seq(TargetSymbol)
  BY OrionAssumption
<1>5. Pkg \subseteq Seq(STRING) /\ RepoName \in STRING BY OrionAssumption
<1> QED BY <1>2, <1>3, <1>4, <1>5

\* The walk stays at its package.
LEMMA SamePackage ==
    ASSUME UNCHANGED directives, walk'.pos = walk.pos
    PROVE  cur' = cur /\ Before' = Before /\ IndexBefore' = IndexBefore
<1>1. cur' = cur BY DEF cur
<1>2. Passed' = Passed BY DEF Passed
<1>3. Before' = Before BY <1>2, StaticSymbols DEF Before
<1>4. IndexBefore' = IndexBefore BY <1>2, StaticSymbols DEF IndexBefore
<1> QED BY <1>1, <1>3, <1>4

\* The walk goes on to the next.
LEMMA NextPackage ==
    ASSUME UNCHANGED directives, walk.pos \in 1..Len(Visits), walk'.pos = walk.pos + 1
    PROVE  /\ Before' = Before \cup FileSymbols(cur) \cup OwnSymbols(cur)
           /\ IndexBefore' = IndexBefore \cup Entries(cur)
<1>1. Len(Visits) \in Nat BY OrionShape
<1>2. \A j \in 1..Len(Visits) : j < walk.pos + 1 <=> (j < walk.pos \/ j = walk.pos) BY <1>1
<1>3. Passed' = Passed \cup {cur} BY <1>2 DEF Passed, cur
<1>4. Before' = UNION {FileSymbols(pkg) \cup OwnSymbols(pkg) : pkg \in Passed \cup {cur}}
  BY <1>3, StaticSymbols DEF Before
<1>5. IndexBefore' = UNION {Entries(pkg) : pkg \in Passed \cup {cur}}
  BY <1>3, StaticSymbols DEF IndexBefore
<1>6. Before' = Before \cup FileSymbols(cur) \cup OwnSymbols(cur) BY <1>4 DEF Before
<1>7. IndexBefore' = IndexBefore \cup Entries(cur) BY <1>5 DEF IndexBefore
<1> QED BY <1>6, <1>7

\* A step within the walk.
LEMMA WalkKeepsCollected ==
    ASSUME RunInv, CollectedInv, UNCHANGED <<directives, rules, outcome>>,
           walk.phase \in Stage \cup {"walk"}, walk'.phase \in Stage \cup {"walk"},
           walk'.update = walk.update, host'.db \in Seq(TargetSymbol),
           ~errs'.acc => (IndexInv /\ DbInv)'
    PROVE  CollectedInv'
<1>1. outcome' = "none"
  <2>1. EndInv BY DEF RunInv
  <2> QED BY <2>1 DEF EndInv, Stage, None
<1>2. KeptInv'
  <2>1. \A pkg \in Pkg \ walk.update : UpToDate(pkg) /\ (IndexedByRules => Indexed(pkg))
    BY DEF CollectedInv, KeptInv
  <2>2. \A pkg : (UpToDate(pkg)' <=> UpToDate(pkg)) /\ (Indexed(pkg)' <=> Indexed(pkg))
    BY DEF UpToDate, Indexed, Declares, EnabledIn, Enabled
  <2> QED BY <2>1, <2>2 DEF KeptInv
<1>3. WalkedInv' BY DEF WalkedInv
<1>4. FullInv' /\ DepsInv' BY <1>1 DEF FullInv, DepsInv, Stage
<1> QED BY <1>2, <1>3, <1>4 DEF CollectedInv

\* A package that is passed by has nothing to add.
LEMMA SkipKeepsCollected ==
    ASSUME AddedWithSources, IndexedByRules, RunInv, CollectedInv, Skip
    PROVE  CollectedInv'
<1>0. TypeOK /\ ShapeOK BY DEF RunInv
<1>1. /\ walk.phase = "walk" /\ walk.pos <= Len(Visits) /\ cur \notin walk.update
      /\ rules[cur] = {} /\ walk' = [walk EXCEPT !.pos = @ + 1]
      /\ UNCHANGED <<directives, rules, host, errs, outcome>>
  BY DEF Skip, AtPackage, Updating, user
<1>2. walk.pos \in 1..Len(Visits) /\ cur \in Pkg BY <1>0, <1>1, OrionShape DEF TypeOK, cur
<1>3. UpToDate(cur) /\ Indexed(cur) BY <1>1, <1>2 DEF CollectedInv, KeptInv
<1>4. Entries(cur) = {}
  <2>1. \A p \in Declaring : ~Declares(p, cur) BY <1>1, <1>3 DEF UpToDate
  <2>2. \A p \in Plugin : ~Declares(p, cur) BY <2>1 DEF Declares
  <2> QED BY <2>2 DEF Entries
<1>5. \A p \in EnabledIn(cur) : SourcesIn(p, cur) = {} BY <1>1, <1>3 DEF Indexed
<1>6. FileSymbols(cur) = {}
  <2>1. \A f \in File : PkgOf[f] = cur => PluginsOf(f) = {}
    BY <1>5 DEF PluginsOf, SourcesIn, EnabledIn
  <2> QED BY <2>1 DEF FileSymbols
<1>7. OwnSymbols(cur) = {}
  <2>1. \A p \in EnabledIn(cur) : AddedIn(p, cur) = <<>>
    BY <1>2, <1>5, OrionShape DEF AddedWithSources
  <2> QED BY <2>1 DEF OwnSymbols, ToSet
<1>8. /\ walk'.phase = "walk" /\ walk'.update = walk.update /\ walk'.pos = walk.pos + 1
  BY <1>0, <1>1 DEF ShapeOK
<1>9. ASSUME ~errs'.acc PROVE (IndexInv /\ DbInv)'
  <2>1. IndexInv /\ DbInv BY <1>1, <1>9 DEF CollectedInv, WalkedInv
  <2>2. Before' = Before /\ IndexBefore' = IndexBefore
    BY <1>1, <1>2, <1>4, <1>6, <1>7, <1>8, NextPackage
  <2> QED BY <1>1, <1>8, <2>1, <2>2 DEF IndexInv, DbInv
<1>10. host'.db \in Seq(TargetSymbol) BY <1>1 DEF CollectedInv
<1> QED BY <1>1, <1>8, <1>9, <1>10, WalkKeepsCollected

\* The queries of a package are its files'.
LEMMA QueriesKeepCollected ==
    ASSUME RunInv, CollectedInv,
           Collect \/ \E f \in File : Query(f) \/ QueryFails(f)
    PROVE  CollectedInv'
<1>0. TypeOK /\ ShapeOK BY DEF RunInv
<1> DEFINE files == {f \in File : PkgOf[f] = cur /\ PluginsOf(f) # {}}
<1>1. CASE Collect
  <2>1. /\ walk.phase = "walk"
        /\ walk' = [walk EXCEPT !.phase = "query", !.failed = FALSE, !.qres = <<>>,
                                !.pending = files]
        /\ UNCHANGED <<directives, rules, host, errs, outcome>>
    BY <1>1 DEF Collect, AtPackage, user
  <2> HIDE DEF files
  <2>2. /\ walk'.phase = "query" /\ walk'.update = walk.update /\ walk'.pos = walk.pos
        /\ walk'.pending = files /\ DOMAIN walk'.qres = {}
    BY <1>0, <2>1 DEF ShapeOK
  <2>3. files' = files BY <2>1, <2>2, SamePackage, StaticSymbols DEF files
  <2>4. ASSUME ~errs'.acc PROVE (IndexInv /\ DbInv)'
    <3>1. IndexInv /\ DbInv BY <2>1, <2>4 DEF CollectedInv, WalkedInv
    <3>2. DOMAIN walk'.qres \cup walk'.pending = files' BY <2>2, <2>3
    <3>3. Before' = Before /\ IndexBefore' = IndexBefore BY <2>1, <2>2, SamePackage
    <3> QED BY <2>1, <2>2, <3>1, <3>2, <3>3 DEF IndexInv, DbInv, files
  <2>5. host'.db \in Seq(TargetSymbol) BY <2>1 DEF CollectedInv
  <2> QED BY <2>1, <2>2, <2>4, <2>5, WalkKeepsCollected DEF Stage
<1>2. ASSUME NEW f \in File, Query(f) \/ QueryFails(f)
      PROVE  CollectedInv'
  <2>1. /\ walk.phase = "query" /\ f \in walk.pending
        /\ UNCHANGED <<directives, rules, host, errs, outcome>>
        /\ walk'.phase = "query" /\ walk'.update = walk.update /\ walk'.pos = walk.pos
        /\ \/ walk'.failed
           \/ /\ DOMAIN walk'.qres = DOMAIN walk.qres \cup {f}
              /\ walk'.pending = walk.pending \ {f} /\ walk'.failed = walk.failed
    <3>1. CASE Query(f)
      <4>1. /\ walk.phase = "query" /\ f \in walk.pending
            /\ walk' = [walk EXCEPT !.pending = @ \ {f}, !.qres = With(@, f, Results(f))]
            /\ UNCHANGED <<directives, rules, host, errs, outcome>>
        BY <3>1, QueryDoes
      <4> DEFINE r == Results(f)
      <4> HIDE DEF r
      <4>2. DOMAIN With(walk.qres, f, r) = DOMAIN walk.qres \cup {f} BY DEF With
      <4>3. walk' = [walk EXCEPT !.pending = @ \ {f}, !.qres = With(@, f, r)] BY <4>1 DEF r
      <4> QED BY <1>0, <4>1, <4>2, <4>3 DEF ShapeOK
    <3>2. CASE QueryFails(f)
      <4>1. /\ walk.phase = "query" /\ f \in walk.pending
            /\ walk' = [walk EXCEPT !.pending = @ \ {f}, !.failed = TRUE]
            /\ UNCHANGED <<directives, rules, host, errs, outcome>>
        BY <3>2 DEF QueryFails, user
      <4> QED BY <1>0, <4>1 DEF ShapeOK
    <3> QED BY <1>2, <3>1, <3>2
  <2> HIDE DEF files
  <2>3. files' = files BY <2>1, SamePackage, StaticSymbols DEF files
  <2>4. ASSUME ~errs'.acc PROVE (IndexInv /\ DbInv)'
    <3>1. IndexInv /\ DbInv BY <2>1, <2>4 DEF CollectedInv, WalkedInv, Stage
    <3>2. ~walk.failed => DOMAIN walk.qres \cup walk.pending = files
      BY <2>1, <3>1 DEF DbInv, files
    <3>3. ~walk'.failed => DOMAIN walk'.qres \cup walk'.pending = files' BY <2>1, <2>3, <3>2
    <3>4. Before' = Before /\ IndexBefore' = IndexBefore BY <2>1, SamePackage
    <3> QED BY <2>1, <3>1, <3>3, <3>4 DEF IndexInv, DbInv, files
  <2>5. host'.db \in Seq(TargetSymbol) BY <2>1 DEF CollectedInv
  <2> QED BY <2>1, <2>4, <2>5, WalkKeepsCollected DEF Stage
<1> QED BY <1>1, <1>2

\* The analyses of a package add what its files add: the results are those of the
\* plugins of each file.
LEMMA AssignKeepsCollected ==
    ASSUME RunInv, CollectedInv, OwnResults, AssignResults
    PROVE  CollectedInv'
<1>0. TypeOK /\ ShapeOK BY DEF RunInv
<1>1. /\ walk.phase = "query" /\ walk.pending = {} /\ ~walk.failed
      /\ UNCHANGED <<directives, rules, host, errs>>
  BY DEF AssignResults, Waited, user
<1>2. CASE Misplaced
  <2>1. outcome' = "panic" /\ walk' = [walk EXCEPT !.phase = "idle"]
    BY <1>2 DEF AssignResults
  <2>2. walk'.phase = "idle" BY <1>0, <2>1 DEF ShapeOK
  <2> QED
    BY <1>1, <2>1, <2>2 DEF CollectedInv, KeptInv, WalkedInv, FullInv, DepsInv, Stage
<1>3. CASE ~Misplaced
  <2>1. walk' = [walk EXCEPT !.phase = "analyze", !.pending = Analyses] /\ outcome' = outcome
    BY <1>3 DEF AssignResults
  <2> DEFINE jobs == Analyses
  <2> HIDE DEF jobs
  <2>2. /\ walk'.phase = "analyze" /\ walk'.update = walk.update /\ walk'.pos = walk.pos
        /\ walk'.pending = jobs
    BY <1>0, <2>1 DEF ShapeOK, jobs
  <2>3. ASSUME ~errs'.acc PROVE (IndexInv /\ DbInv)'
    <3>1. IndexInv /\ DbInv BY <1>1, <2>3 DEF CollectedInv, WalkedInv, Stage
    <3>2. DOMAIN walk.qres = {f \in File : PkgOf[f] = cur /\ PluginsOf(f) # {}}
      BY <1>1, <3>1 DEF DbInv
    <3>3. \A f \in DOMAIN walk.qres : walk.qres[f] = PluginsOf(f) BY <1>1 DEF OwnResults
    <3>4. {job[3] : job \in jobs} \subseteq FileSymbols(cur)
      <4> SUFFICES ASSUME NEW job \in Analyses PROVE job[3] \in FileSymbols(cur) BY DEF jobs
      <4>1. /\ job \in Addition /\ job[2] \in DOMAIN walk.qres
            /\ job[1] \in PluginsOf(job[2])
        BY DEF Analyses
      <4>2. PICK p \in Plugin, f \in File : \E s \in Added(p, f) : job = <<p, f, s>>
        BY <4>1 DEF Addition
      <4>3. PICK s \in Added(p, f) : job = <<p, f, s>> BY <4>2
      <4>4. job[1] = p /\ job[2] = f /\ job[3] = s BY <4>3
      <4>5. p \in PluginsOf(f) /\ PkgOf[f] = cur BY <3>2, <4>1, <4>4
      <4> QED BY <4>3, <4>4, <4>5 DEF FileSymbols
    <3>5. FileSymbols(cur) \subseteq {job[3] : job \in jobs}
      <4> SUFFICES ASSUME NEW s \in FileSymbols(cur) PROVE \E job \in Analyses : s = job[3]
        BY DEF jobs
      <4>1. PICK f \in File : PkgOf[f] = cur /\ \E p \in PluginsOf(f) : s \in Added(p, f)
        BY DEF FileSymbols
      <4>2. PICK p \in PluginsOf(f) : s \in Added(p, f) BY <4>1
      <4>3. f \in DOMAIN walk.qres /\ p \in PluginsOf(f) \cap walk.qres[f] BY <3>2, <3>3, <4>1
      <4>4. <<p, f, s>> \in Addition
        <5>1. p \in Plugin BY OrionShape
        <5> DEFINE jobsOf(q, g) == {<<q, g, t>> : t \in Added(q, g)}
        <5>2. <<p, f, s>> \in jobsOf(p, f) BY <4>2
        <5>3. Addition = UNION {jobsOf(q, g) : q \in Plugin, g \in File} BY DEF Addition
        <5> HIDE DEF jobsOf
        <5> QED BY <5>1, <5>2, <5>3
      <4>5. <<p, f, s>> \in Analyses BY <4>3, <4>4 DEF Analyses
      <4> QED BY <4>5
    <3>6. ToSet(host.db) = Before BY <1>1, <3>1 DEF DbInv
    <3>7. /\ Before' = Before /\ IndexBefore' = IndexBefore /\ cur' = cur
          /\ FileSymbols(cur)' = FileSymbols(cur)
      BY <1>1, <2>2, SamePackage, StaticSymbols
    <3>8. ToSet(host'.db) \cup {job[3] : job \in walk'.pending} = Before' \cup FileSymbols(cur)'
      BY <1>1, <2>2, <3>4, <3>5, <3>6, <3>7
    <3>9. IndexInv' BY <1>1, <3>1, <3>7 DEF IndexInv
    <3>10. DbInv' BY <2>2, <3>8 DEF DbInv
    <3> QED BY <3>9, <3>10
  <2>4. host'.db \in Seq(TargetSymbol) BY <1>1 DEF CollectedInv
  <2> QED BY <1>1, <2>1, <2>2, <2>3, <2>4, WalkKeepsCollected DEF Stage
<1> QED BY <1>2, <1>3

\* A symbol that was to come is there.
LEMMA AnalyzeKeepsCollected ==
    ASSUME RunInv, CollectedInv, NEW job \in walk.pending, Analyze(job)
    PROVE  CollectedInv'
<1>0. TypeOK /\ ShapeOK BY DEF RunInv
<1>1. /\ walk.phase = "analyze"
      /\ host' = [host EXCEPT !.db = Append(@, job[3])]
      /\ walk' = [walk EXCEPT !.pending = @ \ {job}]
      /\ UNCHANGED <<directives, rules, errs, outcome>>
  BY DEF Analyze, user
<1> DEFINE db == Append(host.db, job[3])
<1>2. job[3] \in TargetSymbol
  <2>1. job \in Addition BY <1>0, <1>1 DEF TypeOK
  <2>2. PICK p \in Plugin, f \in File : \E s \in Added(p, f) : job = <<p, f, s>>
    BY <2>1 DEF Addition
  <2> QED BY <2>2, SymbolTypes
<1>3. db \in Seq(TargetSymbol) /\ ToSet(db) = ToSet(host.db) \cup {job[3]}
  <2>1. host.db \in Seq(TargetSymbol) BY DEF CollectedInv
  <2> QED BY <1>2, <2>1, ToSetAdd
<1> HIDE DEF db
<1>4. /\ walk'.phase = "analyze" /\ walk'.update = walk.update /\ walk'.pos = walk.pos
      /\ walk'.pending = walk.pending \ {job} /\ host'.db = db /\ host'.index = host.index
  BY <1>0, <1>1 DEF ShapeOK, db
<1>5. ASSUME ~errs'.acc PROVE (IndexInv /\ DbInv)'
  <2>1. IndexInv /\ DbInv BY <1>1, <1>5 DEF CollectedInv, WalkedInv, Stage
  <2>2. ToSet(host.db) \cup {j[3] : j \in walk.pending} = Before \cup FileSymbols(cur)
    BY <1>1, <2>1 DEF DbInv
  <2>3. {j[3] : j \in walk.pending} = {j[3] : j \in walk.pending \ {job}} \cup {job[3]}
    OBVIOUS
  <2>4. /\ Before' = Before /\ IndexBefore' = IndexBefore /\ cur' = cur
        /\ FileSymbols(cur)' = FileSymbols(cur)
    BY <1>1, <1>4, SamePackage, StaticSymbols
  <2>5. ToSet(host'.db) \cup {j[3] : j \in walk'.pending} = Before' \cup FileSymbols(cur)'
    BY <1>3, <1>4, <2>2, <2>3, <2>4
  <2>6. IndexInv' BY <1>4, <2>1, <2>4 DEF IndexInv
  <2>7. DbInv' BY <1>4, <2>5 DEF DbInv
  <2> QED BY <2>6, <2>7
<1> QED BY <1>1, <1>3, <1>4, <1>5, WalkKeepsCollected DEF Stage

\* With all analyses done, what is to come is what the plugins add themselves.
LEMMA EndAnalyzeKeepsCollected ==
    ASSUME RunInv, CollectedInv, EndAnalyze
    PROVE  CollectedInv'
<1>0. TypeOK /\ ShapeOK BY DEF RunInv
<1>1. /\ walk.phase = "analyze" /\ walk.pending = {}
      /\ walk' = [walk EXCEPT !.phase = "declare", !.pending = EnabledIn(cur)]
      /\ UNCHANGED <<directives, rules, host, errs, outcome>>
  BY DEF EndAnalyze, Waited, user
<1> DEFINE plugins == EnabledIn(cur)
<1> HIDE DEF plugins
<1>2. /\ walk'.phase = "declare" /\ walk'.update = walk.update /\ walk'.pos = walk.pos
      /\ walk'.pending = plugins
  BY <1>0, <1>1 DEF ShapeOK, plugins
<1>3. ASSUME ~errs'.acc PROVE (IndexInv /\ DbInv)'
  <2>1. IndexInv /\ DbInv BY <1>1, <1>3 DEF CollectedInv, WalkedInv, Stage
  <2>2. ToSet(host.db) = Before \cup FileSymbols(cur)
    <3>1. ToSet(host.db) \cup {job[3] : job \in walk.pending} = Before \cup FileSymbols(cur)
      BY <1>1, <2>1 DEF DbInv
    <3> QED BY <1>1, <3>1
  <2>3. /\ Before' = Before /\ IndexBefore' = IndexBefore /\ cur' = cur
        /\ FileSymbols(cur)' = FileSymbols(cur) /\ OwnSymbols(cur)' = OwnSymbols(cur)
    BY <1>1, <1>2, SamePackage, StaticSymbols
  <2>4. ToSet(host'.db) \cup UNION {ToSet(AddedIn(p, cur')) : p \in walk'.pending}
          = Before' \cup FileSymbols(cur)' \cup OwnSymbols(cur)'
    BY <1>1, <1>2, <2>2, <2>3 DEF OwnSymbols, plugins
  <2>5. IndexInv' BY <1>1, <2>1, <2>3 DEF IndexInv
  <2>6. DbInv' BY <1>2, <2>4 DEF DbInv
  <2> QED BY <2>5, <2>6
<1>4. host'.db \in Seq(TargetSymbol) BY <1>1 DEF CollectedInv
<1> QED BY <1>1, <1>2, <1>3, <1>4, WalkKeepsCollected DEF Stage

LEMMA DeclareKeepsCollected ==
    ASSUME RunInv, CollectedInv, NEW p \in Plugin, Declare(p)
    PROVE  CollectedInv'
<1>0. TypeOK /\ ShapeOK /\ PosInv BY DEF RunInv
<1>1. /\ walk.phase = "declare" /\ p \in walk.pending
      /\ host' = [host EXCEPT !.db = @ \o AddedIn(p, cur)]
      /\ walk' = [walk EXCEPT !.pending = @ \ {p}]
      /\ UNCHANGED <<directives, rules, errs, outcome>>
  BY DEF Declare, user
<1>2. cur \in Pkg BY <1>0, <1>1, OrionShape DEF TypeOK, PosInv, Stage, cur
<1> DEFINE db == host.db \o AddedIn(p, cur)
<1>3. db \in Seq(TargetSymbol) /\ ToSet(db) = ToSet(host.db) \cup ToSet(AddedIn(p, cur))
  <2>1. host.db \in Seq(TargetSymbol) BY DEF CollectedInv
  <2>2. AddedIn(p, cur) \in Seq(TargetSymbol) BY <1>2, SymbolTypes
  <2> QED BY <2>1, <2>2, ToSetAdd
<1> HIDE DEF db
<1>4. /\ walk'.phase = "declare" /\ walk'.update = walk.update /\ walk'.pos = walk.pos
      /\ walk'.pending = walk.pending \ {p} /\ host'.db = db /\ host'.index = host.index
  BY <1>0, <1>1 DEF ShapeOK, db
<1>5. ASSUME ~errs'.acc PROVE (IndexInv /\ DbInv)'
  <2>1. IndexInv /\ DbInv BY <1>1, <1>5 DEF CollectedInv, WalkedInv, Stage
  <2>2. ToSet(host.db) \cup UNION {ToSet(AddedIn(q, cur)) : q \in walk.pending}
          = Before \cup FileSymbols(cur) \cup OwnSymbols(cur)
    BY <1>1, <2>1 DEF DbInv
  <2>3. UNION {ToSet(AddedIn(q, cur)) : q \in walk.pending}
          = (UNION {ToSet(AddedIn(q, cur)) : q \in walk.pending \ {p}}) \cup ToSet(AddedIn(p, cur))
    BY <1>1
  <2>4. /\ Before' = Before /\ IndexBefore' = IndexBefore /\ cur' = cur
        /\ FileSymbols(cur)' = FileSymbols(cur) /\ OwnSymbols(cur)' = OwnSymbols(cur)
    BY <1>1, <1>4, SamePackage, StaticSymbols
  <2>5. ToSet(host'.db) \cup UNION {ToSet(AddedIn(q, cur')) : q \in walk'.pending}
          = Before' \cup FileSymbols(cur)' \cup OwnSymbols(cur)'
    BY <1>3, <1>4, <2>2, <2>3, <2>4
  <2>6. IndexInv' BY <1>4, <2>1, <2>4 DEF IndexInv
  <2>7. DbInv' BY <1>4, <2>5 DEF DbInv
  <2> QED BY <2>6, <2>7
<1> QED BY <1>1, <1>3, <1>4, <1>5, WalkKeepsCollected DEF Stage
\* A package that has been generated without an error leaves the entries of its
\* targets in the index, updated or not.
LEMMA GeneratedKeepsCollected ==
    ASSUME RunInv, CollectedInv, walk.phase \in Stage, walk.pending = {},
           NEW targets, NEW gone, NEW error \in BOOLEAN, Generated(targets, gone, error),
           ~error => /\ walk.phase = "declare"
                     /\ ToSet(targets) = {<<cur, p>> : p \in {q \in Plugin : Declares(q, cur)}}
    PROVE  CollectedInv'
<1>0. TypeOK /\ ShapeOK /\ PosInv BY DEF RunInv
<1>1. UNCHANGED <<directives, rules, outcome>> BY DEF Generated, user
<1>2. walk.pos \in 1..Len(Visits) /\ cur \in Pkg
  BY <1>0, OrionShape DEF PosInv, TypeOK, cur
<1> DEFINE failing == errs.acc \/ error
           all == UNION {SymbolsOf(t) : t \in ToSet(targets)}
           kept == UNION {SymbolsOf(t) : t \in {u \in ToSet(targets) : u[2] \in rules[u[1]]}}
<1>3. ~error => all = Entries(cur) BY DEF Entries
<1>4. ~error /\ ~Updating => kept = Entries(cur)
  <2> SUFFICES ASSUME ~error, ~Updating PROVE kept = Entries(cur) OBVIOUS
  <2>1. UpToDate(cur) BY <1>2 DEF CollectedInv, KeptInv, Updating
  <2>2. \A p \in Plugin : Declares(p, cur) => p \in rules[cur]
    BY <2>1 DEF UpToDate, Declares
  <2>3. {u \in ToSet(targets) : u[2] \in rules[u[1]]} = ToSet(targets) BY <2>2
  <2> QED BY <1>3, <2>3
<1> HIDE DEF all, kept
<1>5. /\ host'.db = host.db /\ walk'.phase = "walk" /\ walk'.update = walk.update
      /\ errs'.acc = failing
      /\ ~failing => /\ walk'.pos = walk.pos + 1
                     /\ host'.index = host.index \cup (IF Updating THEN all ELSE kept)
  <2>1. CASE Updating
    <3>1. Updated(targets, gone, failing) BY <2>1 DEF Generated
    <3>2. CASE failing /\ ~errs.surfaced
      <4>1. /\ errs' = [acc |-> TRUE, surfaced |-> TRUE, walk |-> TRUE] /\ host' = host
            /\ \E next : walk' = [walk EXCEPT !.phase = "walk", !.pos = next]
        BY <3>1, <3>2 DEF Updated
      <4> QED BY <1>0, <3>2, <4>1 DEF ShapeOK
    <3>3. CASE ~(failing /\ ~errs.surfaced)
      <4>1. /\ host' = [host EXCEPT !.gen = @ \o targets, !.removed = @ \cup gone,
                                    !.index = @ \cup all]
            /\ errs' = [errs EXCEPT !.acc = failing]
            /\ walk' = [walk EXCEPT !.phase = "walk", !.pos = @ + 1]
        BY <3>1, <3>3 DEF Updated, all
      <4> HIDE DEF failing
      <4>2. host'.db = host.db /\ host'.index = host.index \cup all BY <1>0, <4>1 DEF ShapeOK
      <4>3. errs'.acc = failing BY <1>0, <4>1 DEF TypeOK
      <4> QED BY <1>0, <2>1, <4>1, <4>2, <4>3 DEF ShapeOK
    <3> QED BY <3>2, <3>3
  <2>2. CASE ~Updating
    <3>1. Imported(targets, failing) BY <2>2 DEF Generated
    <3>2. /\ host' = [host EXCEPT !.index = @ \cup kept]
          /\ errs' = [errs EXCEPT !.acc = failing]
          /\ walk' = [walk EXCEPT !.phase = "walk", !.pos = @ + 1]
      BY <3>1 DEF Imported, kept
    <3> HIDE DEF failing
    <3>3. host'.db = host.db /\ host'.index = host.index \cup kept BY <1>0, <3>2 DEF ShapeOK
    <3>4. errs'.acc = failing BY <1>0, <3>2 DEF TypeOK
    <3> QED BY <1>0, <2>2, <3>2, <3>3, <3>4 DEF ShapeOK
  <2> QED BY <2>1, <2>2
<1>6. ASSUME ~errs'.acc PROVE (IndexInv /\ DbInv)'
  <2>1. ~errs.acc /\ ~error BY <1>0, <1>5, <1>6 DEF TypeOK
  <2>2. IndexInv /\ DbInv BY <2>1 DEF CollectedInv, WalkedInv
  <2>3. walk'.pos = walk.pos + 1 /\ host'.index = host.index \cup Entries(cur)
    BY <1>3, <1>4, <1>5, <2>1
  <2>4. /\ Before' = Before \cup FileSymbols(cur) \cup OwnSymbols(cur)
        /\ IndexBefore' = IndexBefore \cup Entries(cur)
    BY <1>1, <1>2, <2>3, NextPackage
  <2>5. IndexInv' BY <2>2, <2>3, <2>4 DEF IndexInv
  <2>6. ToSet(host.db) = Before \cup FileSymbols(cur) \cup OwnSymbols(cur)
    <3>1. ToSet(host.db) \cup UNION {ToSet(AddedIn(p, cur)) : p \in walk.pending}
            = Before \cup FileSymbols(cur) \cup OwnSymbols(cur)
      BY <2>1, <2>2 DEF DbInv
    <3> QED BY <3>1
  <2>7. ToSet(host'.db) = Before' BY <1>5, <2>4, <2>6
  <2>8. DbInv' BY <1>5, <2>7 DEF DbInv
  <2> QED BY <2>5, <2>8
<1>7. host'.db \in Seq(TargetSymbol) BY <1>5 DEF CollectedInv
<1> QED BY <1>1, <1>5, <1>6, <1>7, WalkKeepsCollected DEF Stage

LEMMA ConvertKeepsCollected ==
    ASSUME RunInv, CollectedInv, AbortGenerate \/ Convert
    PROVE  CollectedInv'
<1>1. CASE AbortGenerate
  BY <1>1, GeneratedKeepsCollected DEF AbortGenerate, Waited, Stage
<1>2. CASE Convert
  <2> DEFINE declared == {p \in Plugin : Declares(p, cur)}
             collides == {p \in declared : <<cur, p>> \in foreign}
             gone == {t \in Target : t[1] = cur /\ t[2] \in EnabledIn(cur) \ declared}
             S == declared \ collides
             s == TargetsIn(cur, S)
             error == collides # {}
  <2>1. walk.phase = "declare" /\ walk.pending = {} /\ Generated(s, gone, error)
    BY <1>2 DEF Convert, Waited
  <2>2. ~error => S = declared OBVIOUS
  <2>3. S \subseteq Plugin /\ error \in BOOLEAN OBVIOUS
  <2> HIDE DEF S, gone, error
  <2>4. s \in Seq({cur} \X S) /\ \A p \in S : <<cur, p>> \in ToSet(s) BY <2>3, TargetsInType
  <2>5. ToSet(s) = {<<cur, p>> : p \in S}
    <3> DEFINE T == {cur} \X S
    <3>1. s \in Seq(T) BY <2>4
    <3> HIDE DEF T, s
    <3>2. ToSet(s) \subseteq T BY <3>1 DEF ToSet
    <3>3. ToSet(s) \subseteq {<<cur, p>> : p \in S} BY <3>2 DEF T
    <3> QED BY <2>4, <3>3 DEF s
  <2>6. ~error => ToSet(s) = {<<cur, p>> : p \in declared} BY <2>2, <2>5
  <2> HIDE DEF s
  <2> QED BY <2>1, <2>3, <2>6, GeneratedKeepsCollected DEF Stage
<1> QED BY <1>1, <1>2
\* After the walk every package is passed.
LEMMA AllPassed ==
    ASSUME walk.pos > Len(Visits), walk.pos \in Nat
    PROVE  Before = FullSymbols /\ IndexBefore = FullIndex
<1>1. Passed = Pkg
  <2>1. \A j \in 1..Len(Visits) : j < walk.pos BY OrionShape
  <2> QED BY <2>1, OrionShape DEF Passed, Pkg, ToSet
<1>2. Before = FullSymbols
  <2> DEFINE files(pkg) == {f \in File : PkgOf[f] = pkg}
             adds(f) == UNION {Added(p, f) : p \in PluginsOf(f)}
             own(pkg) == UNION {ToSet(AddedIn(p, pkg)) : p \in EnabledIn(pkg)}
  <2>1. Before = UNION {(UNION {adds(f) : f \in files(pkg)}) \cup own(pkg) : pkg \in Pkg}
    BY <1>1 DEF Before, FileSymbols, OwnSymbols
  <2>2. FullSymbols = (UNION {adds(f) : f \in File}) \cup UNION {own(pkg) : pkg \in Pkg}
    BY DEF FullSymbols
  <2>3. \A f \in File : f \in files(PkgOf[f]) /\ PkgOf[f] \in Pkg BY SymbolTypes
  <2>4. \A pkg : files(pkg) \subseteq File OBVIOUS
  <2> HIDE DEF files, adds, own
  <2> QED BY <2>1, <2>2, <2>3, <2>4
<1>3. IndexBefore = FullIndex
  <2> DEFINE declaring(pkg) == {q \in Plugin : Declares(q, pkg)}
             full == {u \in Target : Declares(u[2], u[1])}
  <2>1. IndexBefore = UNION {UNION {SymbolsOf(<<pkg, p>>) : p \in declaring(pkg)} : pkg \in Pkg}
    BY <1>1 DEF IndexBefore, Entries
  <2>2. FullIndex = UNION {SymbolsOf(t) : t \in full} BY DEF FullIndex
  <2>3. \A pkg \in Pkg : \A p \in declaring(pkg) : <<pkg, p>> \in full BY DEF Declares, Target
  <2>4. \A t \in full : \E pkg \in Pkg : \E p \in declaring(pkg) : t = <<pkg, p>>
    BY OrionShape DEF Target
  <2> HIDE DEF declaring, full
  <2>5. IndexBefore \subseteq FullIndex
    <3> SUFFICES ASSUME NEW e \in IndexBefore PROVE e \in FullIndex OBVIOUS
    <3>1. PICK pkg \in Pkg : e \in UNION {SymbolsOf(<<pkg, p>>) : p \in declaring(pkg)}
      BY <2>1
    <3>2. PICK p \in declaring(pkg) : e \in SymbolsOf(<<pkg, p>>) BY <3>1
    <3>3. <<pkg, p>> \in full BY <2>3, <3>1, <3>2
    <3> QED BY <2>2, <3>2, <3>3
  <2>6. FullIndex \subseteq IndexBefore
    <3> SUFFICES ASSUME NEW e \in FullIndex PROVE e \in IndexBefore OBVIOUS
    <3>1. PICK t \in full : e \in SymbolsOf(t) BY <2>2
    <3>2. PICK pkg \in Pkg : \E p \in declaring(pkg) : t = <<pkg, p>> BY <2>4
    <3>3. PICK p \in declaring(pkg) : t = <<pkg, p>> BY <3>2
    <3> QED BY <2>1, <3>1, <3>2, <3>3
  <2> QED BY <2>5, <2>6
<1> QED BY <1>2, <1>3

LEMMA EndWalkKeepsCollected ==
    ASSUME RunInv, CollectedInv, EndWalk
    PROVE  CollectedInv'
<1>0. TypeOK /\ ShapeOK /\ EndInv BY DEF RunInv
<1>1. /\ walk.phase = "walk" /\ walk.pos > Len(Visits)
      /\ UNCHANGED <<directives, rules, host, errs>>
      /\ \/ walk' = [walk EXCEPT !.phase = "idle"] /\ outcome' = "error"
         \/ walk' = [walk EXCEPT !.phase = "resolve", !.pos = 1] /\ outcome' = outcome
  BY DEF EndWalk, End, user
<1>2. /\ \/ walk'.phase = "idle"
         \/ walk'.phase = "resolve" /\ walk'.pos = 1
      /\ outcome' # "ok"
  BY <1>0, <1>1 DEF ShapeOK, EndInv, None
<1>3. KeptInv' /\ WalkedInv' BY <1>2 DEF KeptInv, WalkedInv, Stage
<1>4. FullInv'
  <2> SUFFICES ASSUME ~errs.acc PROVE host.index = FullIndex /\ ToSet(host.db) = FullSymbols
    BY <1>1, StaticSymbols DEF FullInv
  <2>1. host.index = IndexBefore /\ ToSet(host.db) = Before
    BY <1>1 DEF CollectedInv, WalkedInv, IndexInv, DbInv
  <2> QED BY <1>0, <1>1, <2>1, AllPassed DEF TypeOK
<1>5. DepsInv'
  <2> DEFINE T == Target
  <2>1. host'.gen \in Seq(T) BY <1>0, <1>1 DEF ShapeOK
  <2> HIDE DEF T
  <2>2. \A k \in DOMAIN host'.gen : ~ (k < 1) BY <2>1
  <2> QED BY <1>2, <2>2 DEF DepsInv
<1> QED BY <1>1, <1>3, <1>4, <1>5 DEF CollectedInv

\* A target has been resolved against what is collected.
LEMMA ResolveKeepsCollected ==
    ASSUME RunInv, CollectedInv, Resolve
    PROVE  CollectedInv'
<1>0. TypeOK /\ ShapeOK /\ EndInv BY DEF RunInv
<1>1. /\ walk.phase = "resolve" /\ walk.pos <= Len(host.gen) /\ UNCHANGED <<directives, rules>>
  BY DEF Resolve, user
<1>2. CASE ResolveFails
  <2>1. outcome' = "error" /\ walk' = [walk EXCEPT !.phase = "idle"] /\ host' = host
    BY <1>2 DEF Resolve, End
  <2>2. walk'.phase = "idle" BY <1>0, <2>1 DEF ShapeOK
  <2> QED
    BY <2>1, <2>2 DEF CollectedInv, KeptInv, WalkedInv, FullInv, DepsInv, Stage
<1>3. CASE ~ResolveFails
  <2> DEFINE t == host.gen[walk.pos]
  <2>1. /\ host' = [host EXCEPT !.deps = With(@, t, Deps(t))]
        /\ walk' = [walk EXCEPT !.pos = @ + 1] /\ UNCHANGED <<errs, outcome>>
    BY <1>3 DEF Resolve, Resolution, Deps
  <2> DEFINE deps == With(host.deps, t, Deps(t))
  <2> HIDE DEF deps
  <2>2. host' = [host EXCEPT !.deps = deps] BY <2>1 DEF deps
  <2>3. /\ host'.db = host.db /\ host'.index = host.index /\ host'.gen = host.gen
        /\ host'.deps = deps /\ walk'.phase = "resolve" /\ walk'.pos = walk.pos + 1
    BY <1>0, <1>1, <2>1, <2>2 DEF ShapeOK
  <2>4. outcome' = "none" BY <1>0, <1>1, <2>1 DEF EndInv, None
  <2>5. KeptInv' /\ WalkedInv' BY <2>3 DEF KeptInv, WalkedInv, Stage
  <2>6. FullInv' BY <1>1, <2>1, <2>3, StaticSymbols DEF CollectedInv, FullInv
  <2>7. \A u : Deps(u)' = Deps(u) BY <2>3 DEF Deps
  <2>8. DOMAIN deps = DOMAIN host.deps \cup {t} /\ deps[t] = Deps(t)
        /\ \A u \in DOMAIN host.deps : u # t => deps[u] = host.deps[u]
    BY DEF deps, With
  <2> HIDE DEF t
  <2>9. DepsInv'
    <3> SUFFICES ASSUME NEW k \in DOMAIN host.gen, k < walk.pos + 1
                 PROVE  host.gen[k] \in DOMAIN deps /\ deps[host.gen[k]] = Deps(host.gen[k])
      BY <2>3, <2>4, <2>7 DEF DepsInv
    <3>1. k < walk.pos \/ k = walk.pos
      <4> DEFINE T == Target
      <4>1. host.gen \in Seq(T) BY <1>0 DEF ShapeOK
      <4> HIDE DEF T
      <4>2. k \in Nat BY <4>1
      <4>3. walk.pos \in Nat BY <1>0 DEF TypeOK
      <4> QED BY <4>2, <4>3
    <3>2. CASE k < walk.pos
      BY <1>1, <2>8, <3>2 DEF CollectedInv, DepsInv
    <3>3. CASE k = walk.pos BY <2>8, <3>3 DEF t
    <3> QED BY <3>1, <3>2, <3>3
  <2> QED BY <2>3, <2>5, <2>6, <2>9 DEF CollectedInv
<1> QED BY <1>2, <1>3

\* The run succeeds with all targets resolved.
LEMMA EmitKeepsCollected ==
    ASSUME RunInv, CollectedInv, Emit
    PROVE  CollectedInv'
<1>0. TypeOK /\ ShapeOK BY DEF RunInv
<1>1. /\ walk.phase = "resolve" /\ walk.pos > Len(host.gen)
      /\ walk' = [walk EXCEPT !.phase = "idle"] /\ UNCHANGED <<directives, host, errs>>
  BY DEF Emit, End, user
<1>2. walk'.phase = "idle" BY <1>0, <1>1 DEF ShapeOK
<1>3. KeptInv' /\ WalkedInv' BY <1>2 DEF KeptInv, WalkedInv, Stage
<1>4. FullInv' BY <1>1, StaticSymbols DEF CollectedInv, FullInv
<1>5. \A u : Deps(u)' = Deps(u) BY <1>1 DEF Deps
<1>6. \A k \in DOMAIN host.gen : k < walk.pos
  <2> DEFINE T == Target
  <2>1. host.gen \in Seq(T) /\ walk.pos \in Nat BY <1>0 DEF ShapeOK, TypeOK
  <2> HIDE DEF T
  <2> QED BY <1>1, <2>1
<1>7. DepsInv' BY <1>1, <1>2, <1>5, <1>6 DEF CollectedInv, DepsInv
<1> QED BY <1>1, <1>3, <1>4, <1>7 DEF CollectedInv

\* A run starts with nothing collected, and packages as a full run has left them.
LEMMA StartKeepsCollected ==
    ASSUME CollectedInv, NEW U \in SUBSET Pkg, Start(U)
    PROVE  CollectedInv'
<1>1. /\ \A pkg \in Pkg \ U : UpToDate(pkg) /\ (IndexedByRules => Indexed(pkg))
      /\ walk' = [phase |-> "walk", update |-> U, pos |-> 1, pending |-> {},
                  failed |-> FALSE, qres |-> <<>>]
      /\ host' = [db |-> <<>>, index |-> {}, gen |-> <<>>, removed |-> {}, deps |-> <<>>]
      /\ outcome' = "none" /\ UNCHANGED <<directives, rules>>
  BY DEF Start, NewWalk, FreshHost, NewHost, None, user
<1>2. /\ walk'.phase = "walk" /\ walk'.update = U /\ walk'.pos = 1
      /\ host'.db = <<>> /\ host'.index = {}
  BY <1>1
<1>3. KeptInv'
  <2>1. \A pkg : (UpToDate(pkg)' <=> UpToDate(pkg)) /\ (Indexed(pkg)' <=> Indexed(pkg))
    BY <1>1 DEF UpToDate, Indexed, Declares, EnabledIn, Enabled
  <2> QED BY <1>1, <1>2, <2>1 DEF KeptInv
<1>4. Before' = {} /\ IndexBefore' = {}
  <2>1. Passed' = {} BY <1>2, OrionShape DEF Passed
  <2> QED BY <2>1 DEF Before, IndexBefore
<1>5. WalkedInv' BY <1>2, <1>4 DEF WalkedInv, IndexInv, DbInv, ToSet
<1>6. FullInv' /\ DepsInv' BY <1>1, <1>2 DEF FullInv, DepsInv
<1>7. host'.db \in Seq(TargetSymbol) BY <1>2
<1> QED BY <1>3, <1>5, <1>6, <1>7 DEF CollectedInv

LEMMA EditKeepsCollected ==
    ASSUME CollectedInv, NEW D, EditDirectives(D)
    PROVE  CollectedInv'
<1>1. walk.phase = "idle" /\ outcome' = "none" /\ UNCHANGED <<walk, host>>
  BY DEF EditDirectives, None
<1> QED BY <1>1 DEF CollectedInv, KeptInv, WalkedInv, FullInv, DepsInv, Stage

LEMMA CollectedStep ==
    ASSUME AddedWithSources, IndexedByRules, RunInv, OwnResults, CollectedInv, [Next]_vars
    PROVE  CollectedInv'
<1>1. CASE UNCHANGED vars
  <2>1. UNCHANGED <<directives, rules, walk, host, errs, outcome>> BY <1>1 DEF vars, user
  <2>2. \A pkg : (UpToDate(pkg)' <=> UpToDate(pkg)) /\ (Indexed(pkg)' <=> Indexed(pkg))
    BY <2>1 DEF UpToDate, Indexed, Declares, EnabledIn, Enabled
  <2>3. cur' = cur /\ Before' = Before /\ IndexBefore' = IndexBefore BY <2>1, SamePackage
  <2>4. \A u : Deps(u)' = Deps(u) BY <2>1 DEF Deps
  <2>5. KeptInv' BY <2>1, <2>2 DEF CollectedInv, KeptInv
  <2>6. IndexInv' <=> IndexInv BY <2>1, <2>3 DEF IndexInv
  <2>7. DbInv' <=> DbInv BY <2>1, <2>3, StaticSymbols DEF DbInv
  <2>8. WalkedInv' BY <2>1, <2>6, <2>7 DEF CollectedInv, WalkedInv
  <2>9. FullInv' /\ DepsInv'
    BY <2>1, <2>4, StaticSymbols DEF CollectedInv, FullInv, DepsInv
  <2> QED BY <2>1, <2>5, <2>8, <2>9 DEF CollectedInv
<1> QED
  BY <1>1, EditKeepsCollected, StartKeepsCollected, SkipKeepsCollected, QueriesKeepCollected,
     AssignKeepsCollected, AnalyzeKeepsCollected, EndAnalyzeKeepsCollected,
     DeclareKeepsCollected, ConvertKeepsCollected, EndWalkKeepsCollected,
     ResolveKeepsCollected, EmitKeepsCollected
  DEF Next
(***************************************************************************)
(* The database of a full run, as a sequence.                              *)
(***************************************************************************)

\* The elements of a sequence are finitely many.
LEMMA ToSetIsFinite ==
    ASSUME NEW S, NEW s \in Seq(S)
    PROVE  IsFiniteSet(ToSet(s))
<1> DEFINE n == Len(s)
<1>1. n \in Nat /\ DOMAIN s = 1..n /\ s \in [1..n -> S] OBVIOUS
<1> HIDE DEF n
<1>2. s \in Surjection(1..n, ToSet(s)) BY <1>1 DEF Surjection, ToSet
<1>3. IsFiniteSet(1..n) BY <1>1, FS_Interval
<1> QED BY <1>2, <1>3, FS_Surjection

\* A finite set is the set of some sequence.
LEMMA SequenceOfSet ==
    ASSUME NEW S, IsFiniteSet(S)
    PROVE  SetToSeq(S) \in Seq(S) /\ ToSet(SetToSeq(S)) = S
<1> DEFINE n == Cardinality(S)
           s == SetToSeq(S)
<1>1. n \in Nat /\ ExistsBijection(1..n, S) BY FS_CardinalityType
<1>2. IsFiniteSet(1..n) /\ Cardinality(1..n) = n BY <1>1, FS_Interval
<1>3. \E f \in [1..n -> S] : IsInjective(f)
  BY <1>1 DEF ExistsBijection, Bijection, Injection
<1>4. s = CHOOSE f \in [1..n -> S] : IsInjective(f) BY DEF SetToSeq
<1> HIDE DEF s, n
<1>5. s \in [1..n -> S] /\ IsInjective(s) BY <1>3, <1>4
<1>6. s \in Injection(1..n, S) BY <1>5 DEF Injection
<1>7. s \in Surjection(1..n, S) BY <1>2, <1>6, FS_Injection DEF n
<1>8. ToSet(s) = S BY <1>5, <1>7 DEF ToSet, Surjection
<1>9. s \in Seq(S) BY <1>1, <1>5
<1> QED BY <1>8, <1>9 DEF s

\* If the host has the symbols of a full run, they are in its database.
LEMMA FullDatabaseType ==
    ASSUME NEW db \in Seq(TargetSymbol), ToSet(db) = FullSymbols
    PROVE  /\ FullDatabase \in Seq(TargetSymbol)
           /\ ToSet(FullDatabase) = {Absolute(s) : s \in ToSet(db)}
<1> DEFINE T == TargetSymbol
           n == Len(db)
           abs == [i \in 1..n |-> Absolute(db[i])]
           S == {Absolute(s) : s \in ToSet(db)}
<1>1. n \in Nat /\ DOMAIN db = 1..n /\ \A i \in 1..n : db[i] \in T
  <2>1. db \in Seq(T) OBVIOUS
  <2> HIDE DEF T
  <2> QED BY <2>1
<1>2. \A i \in 1..n : Absolute(db[i]) \in T
  <2> SUFFICES ASSUME NEW i \in 1..n PROVE Absolute(db[i]) \in T OBVIOUS
  <2>1. LabelOf(<<>>).repo = RepoName BY DEF LabelOf
  <2> QED BY <1>1, <2>1, AbsoluteSymbol
<1> HIDE DEF T, n
<1>3. abs \in Seq(T) /\ DOMAIN abs = 1..n BY <1>1, <1>2
<1>4. ToSet(abs) = S BY <1>1, <1>3 DEF ToSet
<1>5. IsFiniteSet(S) BY <1>3, <1>4, ToSetIsFinite
<1>6. S \subseteq T BY <1>1, <1>2 DEF ToSet
<1>7. FullDatabase = SetToSeq(S) BY DEF FullDatabase
<1> HIDE DEF S
<1>8. FullDatabase \in Seq(S) /\ ToSet(FullDatabase) = S BY <1>5, <1>7, SequenceOfSet
<1>9. FullDatabase \in Seq(T) BY <1>6, <1>8
<1> QED BY <1>8, <1>9 DEF S, T

(***************************************************************************)
(* The theorems.                                                           *)
(***************************************************************************)

\* The host collects the symbols and the index of a full run, and resolves every
\* target with them: in whatever order goroutines add symbols, and though it passes
\* by packages the run does not update (generate.go:126-168, resolver.go:83-96).
THEOREM CollectedInvariantHolds ==
    DistinctHashes /\ IndexedByRules /\ AddedWithSources /\ Spec => []CollectedInv
<1> SUFFICES ASSUME DistinctHashes, IndexedByRules, AddedWithSources
             PROVE  Spec => []CollectedInv
  OBVIOUS
<1>1. RunInv /\ OwnResults /\ CollectedInv /\ [Next]_vars => CollectedInv' BY CollectedStep
<1>2. Spec => []OwnResults BY OwnResultsHolds
<1> QED BY <1>1, <1>2, CollectedInit, RunInvariantHolds, PTL DEF Spec

\* A run that succeeds has resolved the imports of its targets as a run over the
\* whole workspace would, if no import depends on the order of symbols with one id
\* (resolver.go:83-96, resolver.go:338-359).
THEOREM SameDepsHolds ==
    DistinctHashes /\ IndexedByRules /\ AddedWithSources /\ Spec
        => [](Unambiguous => SameDeps)
<1> SUFFICES ASSUME DistinctHashes, IndexedByRules, AddedWithSources
             PROVE  Spec => [](Unambiguous => SameDeps)
  OBVIOUS
<1>1. RunInv /\ CollectedInv => (Unambiguous => SameDeps)
  <2> SUFFICES ASSUME RunInv, CollectedInv, Unambiguous, outcome = "ok",
                      NEW t \in ToSet(host.gen)
               PROVE  host.deps[t] = ResolveImports(ImportsOf(t[2], t[1]), LabelOf(t), {},
                                                    FullIndex, FullDatabase).deps
    BY DEF SameDeps
  <2> DEFINE from == LabelOf(t)
             imports == ImportsOf(t[2], t[1])
  <2>1. PICK k \in DOMAIN host.gen : t = host.gen[k] BY DEF ToSet
  <2>2. ~errs.acc
    <3>1. errs.acc => host.gen = <<>> BY DEF RunInv, ErrorsFail
    <3> QED BY <2>1, <3>1
  <2>3. host.index = FullIndex /\ ToSet(host.db) = FullSymbols
    BY <2>2 DEF CollectedInv, FullInv
  <2>4. host.deps[t] = ResolveImports(imports, from, {}, FullIndex, host.db).deps
    BY <2>1, <2>3 DEF CollectedInv, DepsInv, Deps
  <2>5. from.repo = RepoName /\ from.pkg \in Seq(STRING)
    <3>1. t \in Target BY DEF RunInv, TypeOK
    <3>2. t[1] \in Pkg BY <3>1 DEF Target
    <3> QED BY <3>2, SymbolTypes DEF LabelOf
  <2>6. \A impt \in imports : impt.multiple \/ Decided(Rivals(ToSet(host.db), impt), from)
    BY <2>3 DEF Unambiguous
  <2>7. host.db \in Seq(TargetSymbol) BY DEF CollectedInv
  <2>8. /\ FullDatabase \in Seq(TargetSymbol)
        /\ ToSet(FullDatabase) = {Absolute(s) : s \in ToSet(host.db)}
    BY <2>3, <2>7, FullDatabaseType
  <2> HIDE DEF from, imports
  <2>9. ResolveImports(imports, from, {}, FullIndex, host.db).deps
          = ResolveImports(imports, from, {}, FullIndex, FullDatabase).deps
    BY <2>5, <2>6, <2>7, <2>8, ResolveImportsSame
  <2> QED BY <2>4, <2>9 DEF from, imports
<1>2. Spec => []CollectedInv BY CollectedInvariantHolds
<1> QED BY <1>1, <1>2, RunInvariantHolds, PTL
=============================================================================
