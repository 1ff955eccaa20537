----------------------------- MODULE JsRunProofs -----------------------------
(***************************************************************************)
(* Proofs about JsRun, for any workspaces, walks and number of edits that  *)
(* satisfy WalkAssumption and WorldAssumption: its types, and that no two  *)
(* of the rules generated for a directory have a file in common (OneOwner),*)
(* from the files of the directory through the two merges to the BUILD     *)
(* file that is written.                                                   *)
(*                                                                         *)
(* The order of the argument: sequences, the settings of a directory (of   *)
(* which generation uses that its groups are a sequence), the merger, the  *)
(* user's part of a file, which merging keeps, the state of a directory    *)
(* from its generation on (DirOK), what is generated for it group by group *)
(* (Grouped), the walk, the invariant of the runs (IInv), the theorems.    *)
(* The loops of the program are instances of Iteration.                    *)
(***************************************************************************)
EXTENDS JsRun, SequenceTheorems, FiniteSetTheorems, TLAPS

(***************************************************************************)
(* Sequences.                                                              *)
(***************************************************************************)

\* A sequence, of whatever.
AnySeq(s) == s \in Seq({s[i] : i \in DOMAIN s})

\* The places of a sequence are the numbers up to its length.
LEMMA AnySeqLen ==
    ASSUME NEW s, AnySeq(s)
    PROVE  Len(s) \in Nat /\ DOMAIN s = 1..Len(s)
<1> DEFINE S == {s[i] : i \in DOMAIN s}
<1>1. s \in Seq(S) BY DEF AnySeq
<1> HIDE DEF S
<1> QED BY <1>1

\* What has a place for each number up to another is a sequence.
LEMMA AnySeqOf ==
    ASSUME NEW n \in Nat, NEW s, s = [i \in 1..n |-> s[i]]
    PROVE  AnySeq(s) /\ Len(s) = n
<1> DEFINE S == {s[i] : i \in DOMAIN s}
<1>0. DOMAIN s = 1..n OBVIOUS
<1>1. \A i \in 1..n : s[i] \in S BY <1>0
<1> HIDE DEF S
<1>2. s \in [1..n -> S] BY <1>1
<1>3. s \in Seq(S) BY <1>2
<1> QED BY <1>2, <1>3 DEF AnySeq, S

\* A part of a sequence.
LEMMA AnySeqIn ==
    ASSUME NEW S, NEW s \in Seq(S)
    PROVE  AnySeq(s)
<1>1. Len(s) \in Nat /\ s \in [1..Len(s) -> S] OBVIOUS
<1>2. s = [i \in 1..Len(s) |-> s[i]] BY <1>1
<1> QED BY <1>1, <1>2, AnySeqOf

\* A sequence with one more at its end.
LEMMA AnySeqAppend ==
    ASSUME NEW s, AnySeq(s), NEW x
    PROVE  /\ AnySeq(Append(s, x))
           /\ DOMAIN Append(s, x) = 1..Len(s) + 1
           /\ \A i \in DOMAIN s : Append(s, x)[i] = s[i]
           /\ Append(s, x)[Len(s) + 1] = x
<1> DEFINE S == {s[i] : i \in DOMAIN s} \cup {x}
<1>1. DOMAIN s = 1..Len(s) /\ Len(s) \in Nat BY AnySeqLen
<1>2. \A i \in 1..Len(s) : s[i] \in S BY <1>1
<1>3. x \in S OBVIOUS
<1>4. s = [i \in 1..Len(s) |-> s[i]]
  <2> DEFINE R == {s[i] : i \in DOMAIN s}
  <2>1. s \in Seq(R) BY DEF AnySeq
  <2> HIDE DEF R
  <2> QED BY <2>1
<1> HIDE DEF S
<1>5. s \in Seq(S) BY <1>1, <1>2, <1>4
<1>6. Append(s, x) \in Seq(S) BY <1>3, <1>5
<1>7. AnySeq(Append(s, x)) BY <1>6, AnySeqIn
<1> QED BY <1>1, <1>3, <1>5, <1>7

(***************************************************************************)
(* The settings of a directory.                                            *)
(***************************************************************************)

\* The groups of a directory are a sequence, and the tsconfig groups are finitely many.
ConfigOK(c) ==
    /\ {"targets", "groups"} \subseteq DOMAIN c
    /\ AnySeq(c.targets)
    /\ IsFiniteSet(DOMAIN c.groups)

\* The settings of the root.
LEMMA RootConfigOK == ConfigOK(RootConfig)
<1>1. {"targets", "groups"} \subseteq DOMAIN RootConfig BY DEF RootConfig
<1>2. AnySeq(RootConfig.targets)
  <2> DEFINE x == TargetGroup(DefaultLibraryName, <<RootedGlob(Stem)>>, FALSE)
             y == TargetGroup(DefaultTestsName, <<RootedGlob(TestStem)>>, TRUE)
  <2>1. RootConfig.targets = <<x, y>> BY DEF RootConfig
  <2> HIDE DEF x, y
  <2>2. <<x, y>> \in Seq({x, y}) OBVIOUS
  <2> QED BY <2>1, <2>2, AnySeqIn
<1>3. IsFiniteSet(DOMAIN RootConfig.groups)
  <2> DEFINE v == [NoTsConfig EXCEPT !.enabled = {TRUE}, !.fileName = "tsconfig"]
  <2>1. RootConfig.groups = Put(<<>>, "", v) BY DEF RootConfig
  <2> HIDE DEF v
  <2>2. DOMAIN Put(<<>>, "", v) = {""} BY DEF Put
  <2>3. IsFiniteSet({""}) BY FS_Singleton
  <2> QED BY <2>1, <2>2, <2>3
<1> QED BY <1>1, <1>2, <1>3 DEF ConfigOK

\* The settings that a directory has from the one it is in.
LEMMA NewChildOK ==
    ASSUME NEW c, NEW rel, ConfigOK(c)
    PROVE  ConfigOK(NewChild(c, rel))
<1> DEFINE d == NewChild(c, rel)
<1>1. /\ DOMAIN d = DOMAIN c
      /\ d.targets = [i \in DOMAIN c.targets |-> NewChildTarget(c.targets[i])]
      /\ d.groups = c.groups
  BY DEF NewChild, ConfigOK
<1>2. Len(c.targets) \in Nat /\ DOMAIN c.targets = 1..Len(c.targets) BY AnySeqLen DEF ConfigOK
<1>3. DOMAIN d.targets = 1..Len(c.targets) BY <1>1, <1>2
<1>4. d.targets = [i \in 1..Len(c.targets) |-> d.targets[i]] BY <1>1, <1>2, <1>3
<1>5. AnySeq(d.targets) BY <1>2, <1>4, AnySeqOf
<1> QED BY <1>1, <1>5 DEF ConfigOK

\* Another setting changes.
LEMMA FieldOK ==
    ASSUME NEW c, NEW x, NEW v, ConfigOK(c), x \notin {"targets", "groups"}
    PROVE  ConfigOK([c EXCEPT ![x] = v])
BY DEF ConfigOK

\* A setting of a tsconfig group.
LEMMA SetGroupOK ==
    ASSUME NEW c, NEW group, NEW f, NEW v, ConfigOK(c)
    PROVE  ConfigOK(SetGroup(c, group, f, v))
<1> DEFINE old == IF group \in DOMAIN c.groups THEN c.groups[group] ELSE NoTsConfig
           groups == Put(c.groups, group, [old EXCEPT ![f] = v])
<1>1. DOMAIN groups = DOMAIN c.groups \cup {group} BY DEF Put
<1> HIDE DEF groups
<1>2. IsFiniteSet(DOMAIN groups) BY <1>1, FS_AddElement DEF ConfigOK
<1>3. SetGroup(c, group, f, v) = [c EXCEPT !.groups = groups] BY DEF SetGroup, groups
<1> QED BY <1>2, <1>3 DEF ConfigOK

\* Another value for a group.
LEMMA TargetOK ==
    ASSUME NEW c, NEW i, NEW t, ConfigOK(c)
    PROVE  ConfigOK([c EXCEPT !.targets = [c.targets EXCEPT ![i] = t]])
<1> DEFINE targets == [c.targets EXCEPT ![i] = t]
<1>1. Len(c.targets) \in Nat /\ DOMAIN c.targets = 1..Len(c.targets) BY AnySeqLen DEF ConfigOK
<1>2. targets = [j \in DOMAIN c.targets |-> IF j = i THEN t ELSE c.targets[j]] OBVIOUS
<1>3. targets = [j \in 1..Len(c.targets) |-> targets[j]] BY <1>1, <1>2
<1> HIDE DEF targets
<1>4. AnySeq(targets) BY <1>1, <1>3, AnySeqOf
<1>5. ConfigOK([c EXCEPT !.targets = targets]) BY <1>4 DEF ConfigOK
<1> QED BY <1>5 DEF targets

\* A glob is added to a group, or a group with it.
LEMMA AddTargetGlobOK ==
    ASSUME NEW c, NEW name, NEW glob, NEW testonly, ConfigOK(c)
    PROVE  ConfigOK(AddTargetGlob(c, name, glob, testonly))
<1> DEFINE t == [TargetGroup(name, <<>>, testonly) EXCEPT !.customSources = <<glob>>]
           k == TargetIndex(c, name)
           u == [c.targets[k] EXCEPT !.customSources = Append(@, glob)]
<1>1. CASE TargetIndex(c, name) = 0
  <2>1. AddTargetGlob(c, name, glob, testonly) = [c EXCEPT !.targets = Append(c.targets, t)]
    BY <1>1 DEF AddTargetGlob
  <2> HIDE DEF t
  <2>2. AnySeq(Append(c.targets, t)) BY AnySeqAppend DEF ConfigOK
  <2> QED BY <2>1, <2>2 DEF ConfigOK
<1>2. CASE TargetIndex(c, name) # 0
  <2>1. AddTargetGlob(c, name, glob, testonly)
            = [c EXCEPT !.targets = [c.targets EXCEPT ![k] = u]]
    BY <1>2 DEF AddTargetGlob
  <2> HIDE DEF u, k
  <2> QED BY <2>1, TargetOK
<1> QED BY <1>1, <1>2

\* A directive changes one setting.
LEMMA ApplyDirectiveOK ==
    ASSUME NEW c, NEW d, ConfigOK(c)
    PROVE  ConfigOK(ApplyDirective(c, d))
<1> DEFINE target == TargetIndex(c, TargetOf(c, d, DefaultLibraryName))
           Result == ApplyDirective(c, d)
           seen == [c.targets[target] EXCEPT !.visibility = d.value]
           more == [c.targets[target] EXCEPT !.customAssets = Append(@, d.value)]
           Sets(x) == \E v : Result = [c EXCEPT ![x] = v]
<1>1. ASSUME NEW x \in {"generation", "packageDeps", "proto", "package", "packageKind", "lockfile",
                        "ignore", "validate", "assets", "overrides", "packageName"},
             Sets(x)
      PROVE  ConfigOK(Result)
  <2>1. PICK v : Result = [c EXCEPT ![x] = v] BY <1>1
  <2>2. x \notin {"targets", "groups"} OBVIOUS
  <2> HIDE DEF Result
  <2> QED BY <2>1, <2>2, FieldOK
<1>2. CASE d.key = "js"
  <2>1. Sets("generation") BY <1>2 DEF ApplyDirective
  <2> QED BY <1>1, <2>1
<1>3. CASE d.key = "js_tsconfig_package_deps"
  <2>1. Sets("packageDeps") BY <1>3 DEF ApplyDirective
  <2> QED BY <1>1, <2>1
<1>4. CASE d.key = "js_proto"
  <2>1. Sets("proto") BY <1>4 DEF ApplyDirective
  <2> QED BY <1>1, <2>1
<1>5. CASE d.key = "js_npm_package"
  <2>1. Sets("package") BY <1>5 DEF ApplyDirective
  <2> QED BY <1>1, <2>1
<1>6. CASE d.key = "js_package_rule_kind"
  <2>1. Sets("packageKind") BY <1>6 DEF ApplyDirective
  <2> QED BY <1>1, <2>1
<1>7. CASE d.key = "js_ignore_imports"
  <2>1. Sets("ignore") BY <1>7 DEF ApplyDirective
  <2> QED BY <1>1, <2>1
<1>8. CASE d.key = "js_validate_import_statements"
  <2>1. Sets("validate") BY <1>8 DEF ApplyDirective
  <2> QED BY <1>1, <2>1
<1>9. CASE d.key = "js_assets"
  <2>1. Sets("assets") BY <1>9 DEF ApplyDirective
  <2> QED BY <1>1, <2>1
<1>10. CASE d.key = "js_project_naming_convention"
  <2>1. Sets("overrides") BY <1>10 DEF ApplyDirective
  <2> QED BY <1>1, <2>1
<1>11. CASE d.key = "js_tests_naming_convention"
  <2>1. Sets("overrides") BY <1>11 DEF ApplyDirective
  <2> QED BY <1>1, <2>1
<1>12. CASE d.key = "js_npm_package_target_name"
  <2>1. Sets("packageName") BY <1>12 DEF ApplyDirective
  <2> QED BY <1>1, <2>1
<1>13. CASE d.key = "js_tsconfig"
  <2>1. \E group, f, v : Result = SetGroup(c, group, f, v) BY <1>13 DEF ApplyDirective
  <2> QED BY <2>1, SetGroupOK
<1>14. CASE d.key = "js_tsconfig_file"
  <2>1. \E group, f, v : Result = SetGroup(c, group, f, v) BY <1>14 DEF ApplyDirective
  <2> QED BY <2>1, SetGroupOK
<1>15. CASE d.key = "js_tsconfig_ignore"
  <2>1. \E group, f, v : Result = SetGroup(c, group, f, v) BY <1>15 DEF ApplyDirective
  <2> QED BY <2>1, SetGroupOK
<1>16. CASE d.key = "js_pnpm_lockfile"
  <2>1. PICK e : e = [c EXCEPT !["lockRel"] = c.rel] OBVIOUS
  <2>2. PICK q : q = [e EXCEPT !["lockfile"] = d.value] OBVIOUS
  <2>3. Result = q BY <1>16, <2>1, <2>2 DEF ApplyDirective
  <2>4. ConfigOK(e)
    <3>1. ConfigOK([c EXCEPT !["lockRel"] = c.rel]) BY FieldOK
    <3> QED BY <2>1, <3>1
  <2>5. ConfigOK(q)
    <3>1. ConfigOK([e EXCEPT !["lockfile"] = d.value]) BY <2>4, FieldOK
    <3> QED BY <2>2, <3>1
  <2> QED BY <2>3, <2>5
<1>17. CASE d.key = "js_visibility"
  <2>1. Result = [c EXCEPT !.targets = [c.targets EXCEPT ![target] = seen]]
    BY <1>17 DEF ApplyDirective
  <2> HIDE DEF target, seen
  <2> QED BY <2>1, TargetOK
<1>18. CASE d.key = "js_asset_files"
  <2>1. Result = [c EXCEPT !.targets = [c.targets EXCEPT ![target] = more]]
    BY <1>18 DEF ApplyDirective
  <2> HIDE DEF target, more
  <2> QED BY <2>1, TargetOK
<1>19. CASE d.key = "js_files"
  <2>1. Result = AddTargetGlob(c, TargetOf(c, d, DefaultLibraryName), d.value, FALSE)
    BY <1>19 DEF ApplyDirective
  <2> QED BY <2>1, AddTargetGlobOK
<1>20. CASE d.key = "js_test_files"
  <2>1. Result = AddTargetGlob(c, TargetOf(c, d, DefaultTestsName), d.value, TRUE)
    BY <1>20 DEF ApplyDirective
  <2> QED BY <2>1, AddTargetGlobOK
<1>21. CASE d.key \notin {"js", "js_tsconfig_package_deps", "js_proto", "js_npm_package",
                           "js_package_rule_kind", "js_ignore_imports", "js_validate_import_statements",
                           "js_assets", "js_project_naming_convention", "js_tests_naming_convention",
                           "js_npm_package_target_name", "js_tsconfig", "js_tsconfig_file",
                           "js_tsconfig_ignore", "js_pnpm_lockfile", "js_visibility", "js_asset_files",
                           "js_files", "js_test_files"}
  <2>1. Result = c BY <1>21 DEF ApplyDirective
  <2> QED BY <2>1
<1> QED BY <1>2, <1>3, <1>4, <1>5, <1>6, <1>7, <1>8, <1>9, <1>10, <1>11,
           <1>12, <1>13, <1>14, <1>15, <1>16, <1>17, <1>18, <1>19, <1>20, <1>21

\* The directives of a file, one after the other.
DirectiveBase(c, ds, x) == [config |-> c, refused |-> FALSE, read |-> <<>>]
DirectiveStep(c, ds, x, r, i) == ReadDirective(r, ds[i])
DirectiveGood(c, ds, x, r, i) == "config" \in DOMAIN r /\ ConfigOK(r.config)
Directives == INSTANCE Iteration WITH Base <- DirectiveBase, Step <- DirectiveStep, Good <- DirectiveGood

\* The settings of a directory are well formed if those above it are.
LEMMA ConfigureOK ==
    ASSUME NEW parent, NEW rel, NEW ds, AnySeq(ds), rel # <<>> => ConfigOK(parent)
    PROVE  ConfigOK(Configure(parent, rel, ds).config)
<1> DEFINE c == IF rel = <<>> THEN RootConfig ELSE NewChild(parent, rel)
           N == Len(ds)
           r == Directives!Upto(c, ds, 0, N)
<1>1. ConfigOK(c) BY RootConfigOK, NewChildOK
<1>2. ReadDirectives(c, ds) = WithResolves(r)
  BY Zenon DEF ReadDirectives, Directives!Upto, DirectiveBase, DirectiveStep
<1>3. Configure(parent, rel, ds) = ReadDirectives(c, ds) BY DEF Configure
<1> HIDE DEF c
<1>4. N \in Nat BY AnySeqLen
<1>5. DirectiveGood(c, ds, 0, DirectiveBase(c, ds, 0), 0)
  BY <1>1 DEF DirectiveGood, DirectiveBase
<1>6. ASSUME NEW i \in 1..N, NEW q, DirectiveGood(c, ds, 0, q, i - 1)
      PROVE  DirectiveGood(c, ds, 0, DirectiveStep(c, ds, 0, q, i), i)
  <2>1. "config" \in DOMAIN q /\ ConfigOK(q.config) BY <1>6 DEF DirectiveGood
  <2>2. ConfigOK(ApplyDirective(q.config, ds[i])) BY <2>1, ApplyDirectiveOK
  <2>3. CASE q.refused
    <3>1. ReadDirective(q, ds[i]) = q BY <2>3 DEF ReadDirective
    <3> QED BY <2>1, <3>1 DEF DirectiveGood, DirectiveStep
  <2>4. CASE ~q.refused /\ Refused(q.config, ds[i])
    <3>1. ReadDirective(q, ds[i]) = [q EXCEPT !.refused = TRUE] BY <2>4 DEF ReadDirective
    <3> QED BY <2>1, <3>1 DEF DirectiveGood, DirectiveStep
  <2>5. CASE ~q.refused /\ ~Refused(q.config, ds[i])
    <3>1. ReadDirective(q, ds[i]) = [config |-> ApplyDirective(q.config, ds[i]),
                                     refused |-> FALSE, read |-> Append(q.read, ds[i])]
      BY <2>5 DEF ReadDirective
    <3> QED BY <2>2, <3>1 DEF DirectiveGood, DirectiveStep
  <2> QED BY <2>3, <2>4, <2>5
<1>7. DirectiveGood(c, ds, 0, r, N) BY <1>4, <1>5, <1>6, Directives!Invariance, Zenon
<1> HIDE DEF r
<1>8. "config" \in DOMAIN r /\ ConfigOK(r.config) BY <1>7 DEF DirectiveGood
<1>9. ConfigOK(WithResolves(r).config)
  <2>1. WithResolves(r).config = [r.config EXCEPT !.resolves = OwnResolves(r.read) \o @]
    BY DEF WithResolves
  <2> HIDE <1>7
  <2>2. ConfigOK([r.config EXCEPT !["resolves"] = OwnResolves(r.read) \o r.config.resolves])
    BY <1>8, FieldOK
  <2> QED BY <2>1, <2>2
<1> QED BY <1>2, <1>3, <1>9

(***************************************************************************)
(* The merger.                                                             *)
(***************************************************************************)

RuleFields == {"kind", "name", "srcs", "refs", "kept", "pin", "assets", "deps"}
RuleOK(rule) == RuleFields \subseteq DOMAIN rule

\* The rules of a file have the names they are found by.
FileOK(f) == \A n \in DOMAIN f : RuleOK(f[n]) /\ f[n].name = n

\* Rules that are generated have nothing of the user's in them.
GenOK(gen) ==
    /\ AnySeq(gen)
    /\ \A i \in DOMAIN gen : RuleOK(gen[i]) /\ ~IsPinned(gen[i]) /\ gen[i].kept = {}

\* No two of them have one name.
Apart(gen) == \A i, j \in DOMAIN gen : gen[i].name = gen[j].name => i = j

\* What of a merged rule is the generated rule's, and what is that of the file.
LEMMA MergeRuleOK ==
    ASSUME NEW src, NEW dst, NEW attrs, RuleOK(src), RuleOK(dst),
           NEW q, q = MergeRule(src, dst, attrs)
    PROVE  /\ RuleOK(q)
           /\ q.kind = dst.kind /\ q.name = dst.name /\ q.pin = dst.pin /\ q.kept = dst.kept
           /\ \/ q.srcs = dst.srcs /\ q.refs = dst.refs
              \/ q.srcs = src.srcs \cup dst.kept /\ q.refs = src.refs
           /\ q.assets = dst.assets \/ q.assets = src.assets
           /\ "assets" \in attrs => q.assets = src.assets
           /\ ~IsPinned(dst) /\ "srcs" \in attrs => q.srcs = src.srcs \cup dst.kept
           /\ ~IsPinned(dst) /\ q.srcs = {} /\ q.refs = {} => dst.kept = {}
BY DEF MergeRule, RuleOK, RuleFields, IsPinned

\* A new rule has all its fields and nothing in them.
LEMMA NewRuleOK ==
    ASSUME NEW kind, NEW name, NEW q, q = NewRule(kind, name)
    PROVE  /\ RuleOK(q) /\ q.kind = kind /\ q.name = name
           /\ q.srcs = {} /\ q.refs = {} /\ q.kept = {} /\ ~IsPinned(q) /\ q.assets = {}
BY DEF NewRule, RuleOK, RuleFields, IsPinned

\* A rule that has lost its attributes.
LEMMA EmptiedOK ==
    ASSUME NEW kind, NEW name, NEW attrs, NEW d, RuleOK(d),
           NEW q, q = MergeRule(NewRule(kind, name), d, attrs)
    PROVE  /\ RuleOK(q)
           /\ q.kind = d.kind /\ q.name = d.name /\ q.pin = d.pin /\ q.kept = d.kept
           /\ Own(q) \subseteq Own(d)
           /\ ~IsPinned(d) /\ q.srcs = {} /\ q.refs = {} => d.kept = {}
<1>1. PICK s : s = NewRule(kind, name) OBVIOUS
<1>0. q = MergeRule(s, d, attrs) BY <1>1
<1>2. RuleOK(s) BY <1>1, NewRuleOK
<1>5. s.srcs = {} /\ s.assets = {} BY <1>1, NewRuleOK
<1>3. /\ RuleOK(q)
      /\ q.kind = d.kind /\ q.name = d.name /\ q.pin = d.pin /\ q.kept = d.kept
      /\ q.srcs = d.srcs \/ q.srcs = s.srcs \cup d.kept
      /\ q.assets = d.assets \/ q.assets = s.assets
      /\ ~IsPinned(d) /\ q.srcs = {} /\ q.refs = {} => d.kept = {}
  BY <1>0, <1>2, MergeRuleOK
<1>4. Own(q) \subseteq Own(d) BY <1>3, <1>5 DEF Own
<1> QED BY <1>3, <1>4

\* What is left of the rules, when those that are empty have lost their attributes.
LEMMA MergeEmptyOK ==
    ASSUME NEW rules, NEW empty, NEW phase, FileOK(rules),
           NEW e, e = MergeEmpty(rules, empty, phase)
    PROVE  /\ FileOK(e)
           /\ DOMAIN e \subseteq DOMAIN rules
           /\ \A n \in DOMAIN e :
                 /\ e[n].kind = rules[n].kind /\ e[n].pin = rules[n].pin /\ e[n].kept = rules[n].kept
                 /\ Own(e[n]) \subseteq Own(rules[n])
           /\ \A n \in DOMAIN rules \ DOMAIN e :
                 /\ \E x \in empty : x.name = n
                 /\ ~IsPinned(rules[n]) => rules[n].kept = {}
<1> DEFINE IsEmptied(n) == [name |-> n, kind |-> rules[n].kind] \in empty
           Emptied(n) == MergeRule(NewRule(rules[n].kind, n), rules[n], AttrsOf(phase, rules[n].kind))
           gone == {n \in DOMAIN rules : IsEmptied(n) /\ Emptied(n).srcs = {} /\ Emptied(n).refs = {}}
<1>1. e = [n \in DOMAIN rules \ gone |-> IF IsEmptied(n) THEN Emptied(n) ELSE rules[n]]
  BY DEF MergeEmpty
<1>2. ASSUME NEW n \in DOMAIN rules
      PROVE  /\ RuleOK(Emptied(n)) /\ Emptied(n).name = n
             /\ Emptied(n).kind = rules[n].kind /\ Emptied(n).pin = rules[n].pin
             /\ Emptied(n).kept = rules[n].kept
             /\ Own(Emptied(n)) \subseteq Own(rules[n])
             /\ ~IsPinned(rules[n]) /\ Emptied(n).srcs = {} /\ Emptied(n).refs = {}
                    => rules[n].kept = {}
  <2>0. PICK d : d = rules[n] OBVIOUS
  <2>1. RuleOK(d) /\ d.name = n BY <2>0 DEF FileOK
  <2>2. PICK q : q = MergeRule(NewRule(d.kind, n), d, AttrsOf(phase, d.kind)) OBVIOUS
  <2>3. Emptied(n) = q BY <2>0, <2>2
  <2>4. /\ RuleOK(q)
        /\ q.kind = d.kind /\ q.name = d.name /\ q.pin = d.pin /\ q.kept = d.kept
        /\ Own(q) \subseteq Own(d)
        /\ ~IsPinned(d) /\ q.srcs = {} /\ q.refs = {} => d.kept = {}
    BY <2>1, <2>2, EmptiedOK
  <2> HIDE DEF Emptied
  <2> QED BY <2>0, <2>1, <2>3, <2>4, Zenon
<1> HIDE DEF IsEmptied, Emptied
<1>3. DOMAIN e = DOMAIN rules \ gone BY <1>1
<1>4. \A n \in DOMAIN e : e[n] = Emptied(n) \/ e[n] = rules[n] BY <1>1
<1>5. \A n \in DOMAIN rules : RuleOK(rules[n]) /\ rules[n].name = n BY DEF FileOK
<1> HIDE DEF gone
<1>6. ASSUME NEW n \in DOMAIN e
      PROVE  /\ RuleOK(e[n]) /\ e[n].name = n
             /\ e[n].kind = rules[n].kind /\ e[n].pin = rules[n].pin /\ e[n].kept = rules[n].kept
             /\ Own(e[n]) \subseteq Own(rules[n])
  <2>1. n \in DOMAIN rules BY <1>3
  <2>2. CASE e[n] = Emptied(n) BY <1>2, <2>1, <2>2, Zenon
  <2>3. CASE e[n] = rules[n] BY <1>5, <2>1, <2>3
  <2> QED BY <1>4, <2>2, <2>3
<1>7. FileOK(e) BY <1>6 DEF FileOK
<1>8. \A n \in DOMAIN rules \ DOMAIN e :
         /\ \E x \in empty : x.name = n
         /\ ~IsPinned(rules[n]) => rules[n].kept = {}
  <2> TAKE n \in DOMAIN rules \ DOMAIN e
  <2>1. n \in gone BY <1>3
  <2>2. \E x \in empty : x.name = n BY <2>1 DEF IsEmptied, gone
  <2>3. n \in DOMAIN rules /\ Emptied(n).srcs = {} /\ Emptied(n).refs = {} BY <2>1 DEF gone
  <2>4. ~IsPinned(rules[n]) => rules[n].kept = {} BY <1>2, <2>3, Zenon
  <2> QED BY <2>2, <2>4
<1>9. DOMAIN e \subseteq DOMAIN rules BY <1>3
<1> QED BY <1>6, <1>7, <1>8, <1>9

\* A rule is added, or merged with one of its kind, which has its name if it is a rule
\* of sources.
LEMMA MatchOK ==
    ASSUME NEW rules, NEW rule, NEW m, m = Match(rules, rule)
    PROVE  /\ m[1] \in {"insert", "merge", "skip"}
           /\ m[1] = "insert" => m[2] = rule.name /\ rule.name \notin DOMAIN rules
           /\ m[1] = "merge" => /\ m[2] \in DOMAIN rules /\ rules[m[2]].kind = rule.kind
                                /\ m[2] = rule.name \/ rule.kind \notin SourceKinds
           /\ rule.kind \in SourceKinds =>
                /\ m[1] = "insert" <=> rule.name \notin DOMAIN rules
                /\ m[1] = "merge" <=> /\ rule.name \in DOMAIN rules
                                      /\ rules[rule.name].kind = rule.kind
                /\ m[1] # "skip" => m[2] = rule.name
<1> DEFINE alike == {n \in DOMAIN rules : Alike(rule, rules[n])}
<1>1. CASE rule.name \in DOMAIN rules
  <2>1. m = IF rules[rule.name].kind = rule.kind THEN <<"merge", rule.name>> ELSE <<"skip", "">>
    BY <1>1 DEF Match
  <2>2. CASE rules[rule.name].kind = rule.kind
    <3>1. m = <<"merge", rule.name>> BY <2>1, <2>2
    <3>2. m[1] = "merge" /\ m[2] = rule.name BY <3>1
    <3> QED BY <1>1, <2>2, <3>2
  <2>3. CASE rules[rule.name].kind # rule.kind
    <3>1. m = <<"skip", "">> BY <2>1, <2>3
    <3>3. <<"skip", "">>[1] = "skip" OBVIOUS
    <3>2. m[1] = "skip" BY <3>1, <3>3, Zenon
    <3> QED BY <1>1, <2>3, <3>2
  <2> QED BY <2>2, <2>3
<1>2. CASE rule.name \notin DOMAIN rules /\ alike = {}
  <2>1. m = <<"insert", rule.name>> BY <1>2 DEF Match
  <2> QED BY <1>2, <2>1
<1>3. CASE rule.name \notin DOMAIN rules /\ alike # {}
  <2>1. m = IF Cardinality(alike) = 1 THEN <<"merge", CHOOSE n \in alike : TRUE>> ELSE <<"skip", "">>
    BY <1>3 DEF Match
  <2>2. \A n \in alike : rules[n].kind = rule.kind /\ rule.kind \notin SourceKinds
    BY DEF Alike, SourceKinds
  <2> HIDE DEF alike
  <2>3. PICK n \in alike : n = CHOOSE x \in alike : TRUE BY <1>3
  <2>4. ASSUME m = <<"merge", n>> PROVE m[1] = "merge" /\ m[2] = n BY <2>4
  <2>5. ASSUME m = <<"skip", "">> PROVE m[1] = "skip"
    <3>1. <<"skip", "">>[1] = "skip" OBVIOUS
    <3> QED BY <2>5, <3>1, Zenon
  <2>6. (m[1] = "merge" /\ m[2] = n) \/ m[1] = "skip" BY <2>1, <2>3, <2>4, <2>5
  <2> QED BY <1>3, <2>2, <2>6 DEF alike
<1> QED BY <1>1, <1>2, <1>3

\* What the user has in the rules that were there stays; the others have nothing of it.
KeepsUsers(kept, r) ==
    /\ DOMAIN kept \subseteq DOMAIN r
    /\ \A n \in DOMAIN kept :
          r[n].kind = kept[n].kind /\ r[n].pin = kept[n].pin /\ r[n].kept = kept[n].kept
    /\ \A n \in DOMAIN r \ DOMAIN kept : ~IsPinned(r[n]) /\ r[n].kept = {}

\* A rule that was there and has been merged once, or is new; one that is as it was.
Merged(kept, rule, phase, r) ==
    /\ rule.name \in DOMAIN r
    /\ r[rule.name] = IF rule.name \in DOMAIN kept
                      THEN MergeRule(rule, kept[rule.name], AttrsOf(phase, rule.kind)) ELSE rule
Unmerged(kept, rule, r) ==
    /\ rule.name \in DOMAIN r <=> rule.name \in DOMAIN kept
    /\ rule.name \in DOMAIN kept => r[rule.name] = kept[rule.name]

\* The rules of sources that are not skipped.
Places(kept, rule) == rule.kind \in SourceKinds /\ Match(kept, rule)[1] # "skip"

MergeBase(kept, gen, phase) == kept
MergeStep(kept, gen, phase, r, i) ==
    PlaceRule(r, gen[i], Match(kept, gen[i]), AttrsOf(phase, gen[i].kind))
MergeGood(kept, gen, phase, r, i) ==
    /\ FileOK(r)
    /\ KeepsUsers(kept, r)
    /\ Apart(gen) => \A k \in DOMAIN gen :
           Places(kept, gen[k]) => /\ k <= i => Merged(kept, gen[k], phase, r)
                                   /\ k > i => Unmerged(kept, gen[k], r)
Merging == INSTANCE Iteration WITH Base <- MergeBase, Step <- MergeStep, Good <- MergeGood

\* What a rule that is placed makes of the file.
Placed(kept, rule, attrs, m, r, q) ==
    \/ m[1] = "skip" /\ q = r
    \/ /\ m[1] = "insert" /\ rule.name \notin DOMAIN kept
       /\ q = Put(r, rule.name, rule)
    \/ /\ m[1] = "merge" /\ m[2] \in DOMAIN kept /\ kept[m[2]].kind = rule.kind
       /\ m[2] = rule.name \/ rule.kind \notin SourceKinds
       /\ q = [r EXCEPT ![m[2]] = MergeRule(rule, r[m[2]], attrs)]

\* One rule is placed: it alone is another.
LEMMA PlaceRuleOK ==
    ASSUME NEW kept, NEW rule, NEW attrs, NEW m, m = Match(kept, rule),
           FileOK(kept), RuleOK(rule), ~IsPinned(rule), rule.kept = {},
           NEW r, FileOK(r), KeepsUsers(kept, r),
           NEW q, q = PlaceRule(r, rule, m, attrs)
    PROVE  /\ FileOK(q) /\ KeepsUsers(kept, q)
           /\ Placed(kept, rule, attrs, m, r, q)
<1>1. CASE m[1] = "skip"
  <2>1. q = r BY <1>1 DEF PlaceRule
  <2> QED BY <1>1, <2>1 DEF Placed
<1>2. CASE m[1] = "insert"
  <2>1. m[2] = rule.name /\ rule.name \notin DOMAIN kept BY <1>2, MatchOK
  <2>2. q = Put(r, rule.name, rule) BY <1>2, <2>1 DEF PlaceRule
  <2>3. /\ DOMAIN q = DOMAIN r \cup {rule.name}
        /\ q[rule.name] = rule
        /\ \A n \in DOMAIN r : n # rule.name => q[n] = r[n]
    BY <2>2 DEF Put
  <2>4. FileOK(q) BY <2>3 DEF FileOK
  <2>5. KeepsUsers(kept, q) BY <2>1, <2>3 DEF KeepsUsers
  <2> QED BY <1>2, <2>1, <2>2, <2>4, <2>5 DEF Placed
<1>3. CASE m[1] = "merge"
  <2>0. PICK n : n = m[2] OBVIOUS
  <2>1. /\ n \in DOMAIN kept /\ kept[n].kind = rule.kind
        /\ n = rule.name \/ rule.kind \notin SourceKinds
    BY <1>3, <2>0, MatchOK
  <2>2. PICK d : d = r[n] OBVIOUS
  <2>3. PICK x : x = MergeRule(rule, d, attrs) OBVIOUS
  <2>4. q = [r EXCEPT ![n] = x] BY <1>3, <2>0, <2>2, <2>3 DEF PlaceRule
  <2>5. n \in DOMAIN r BY <2>1 DEF KeepsUsers
  <2>6. RuleOK(d) /\ d.name = n BY <2>2, <2>5 DEF FileOK
  <2>7. RuleOK(x) /\ x.kind = d.kind /\ x.name = d.name /\ x.pin = d.pin /\ x.kept = d.kept
    BY <2>3, <2>6, MergeRuleOK
  <2>8. DOMAIN q = DOMAIN r /\ q[n] = x /\ \A y \in DOMAIN r : y # n => q[y] = r[y]
    BY <2>4, <2>5
  <2>9. FileOK(q) BY <2>6, <2>7, <2>8 DEF FileOK
  <2>10. KeepsUsers(kept, q) BY <2>1, <2>2, <2>7, <2>8 DEF KeepsUsers
  <2>11. q = [r EXCEPT ![m[2]] = MergeRule(rule, r[m[2]], attrs)]
    BY <2>0, <2>2, <2>3, <2>4
  <2> QED BY <1>3, <2>0, <2>1, <2>9, <2>10, <2>11 DEF Placed
<1> QED BY <1>1, <1>2, <1>3, MatchOK

\* Rules are merged one after the other: what is the user's stays, and each rule is merged
\* once if no two have one name.
LEMMA MergeGenOK ==
    ASSUME NEW kept, NEW gen, NEW phase, FileOK(kept), GenOK(gen),
           NEW r, r = MergeGen(kept, gen, phase)
    PROVE  /\ FileOK(r) /\ KeepsUsers(kept, r)
           /\ Apart(gen) => \A k \in DOMAIN gen :
                  Places(kept, gen[k]) => Merged(kept, gen[k], phase, r)
<1> DEFINE N == Len(gen)
<1>1. r = Merging!Upto(kept, gen, phase, N)
  BY Zenon DEF MergeGen, Merging!Upto, MergeBase, MergeStep
<1>2. N \in Nat /\ DOMAIN gen = 1..N BY AnySeqLen DEF GenOK
<1>3. MergeGood(kept, gen, phase, MergeBase(kept, gen, phase), 0)
  <2>1. KeepsUsers(kept, kept) BY DEF KeepsUsers
  <2>2. \A k \in DOMAIN gen : k > 0 BY <1>2
  <2>3. \A k \in DOMAIN gen : Unmerged(kept, gen[k], kept) BY DEF Unmerged
  <2> QED BY <1>2, <2>1, <2>2, <2>3 DEF MergeGood, MergeBase
<1>4. ASSUME NEW i \in 1..N, NEW p, MergeGood(kept, gen, phase, p, i - 1)
      PROVE  MergeGood(kept, gen, phase, MergeStep(kept, gen, phase, p, i), i)
  <2>1. PICK rule : rule = gen[i] OBVIOUS
  <2>2. PICK m : m = Match(kept, rule) OBVIOUS
  <2>3. PICK attrs : attrs = AttrsOf(phase, rule.kind) OBVIOUS
  <2>4. PICK q : q = PlaceRule(p, rule, m, attrs) OBVIOUS
  <2>5. MergeStep(kept, gen, phase, p, i) = q BY <2>1, <2>2, <2>3, <2>4 DEF MergeStep
  <2>6. FileOK(p) /\ KeepsUsers(kept, p) BY <1>4 DEF MergeGood
  <2>7. RuleOK(rule) /\ ~IsPinned(rule) /\ rule.kept = {} BY <1>2, <2>1 DEF GenOK
  <2>8. /\ FileOK(q) /\ KeepsUsers(kept, q)
        /\ Placed(kept, rule, attrs, m, p, q)
    <3> HIDE <1>4
    <3> QED BY <2>2, <2>4, <2>6, <2>7, PlaceRuleOK
  <2>9. ASSUME Apart(gen), NEW k \in DOMAIN gen, Places(kept, gen[k])
        PROVE  /\ k <= i => Merged(kept, gen[k], phase, q)
               /\ k > i => Unmerged(kept, gen[k], q)
    <3>0. PICK s : s = gen[k] OBVIOUS
    <3>1. /\ k <= i - 1 => Merged(kept, s, phase, p)
          /\ k > i - 1 => Unmerged(kept, s, p)
      BY <1>4, <2>9, <3>0 DEF MergeGood
    <3>2. s.kind \in SourceKinds /\ Match(kept, s)[1] # "skip" BY <2>9, <3>0 DEF Places
    <3>3. s.name \in DOMAIN kept => kept[s.name].kind = s.kind
      <4>1. PICK x : x = Match(kept, s) OBVIOUS
      <4>2. x[1] \in {"insert", "merge"} BY <3>2, <4>1, MatchOK
      <4> QED BY <3>2, <4>1, <4>2, MatchOK
    <3>4. DOMAIN kept \subseteq DOMAIN p BY <2>6 DEF KeepsUsers
    <3>5. ASSUME k # i
          PROVE  /\ s.name \in DOMAIN q <=> s.name \in DOMAIN p
                 /\ s.name \in DOMAIN p => q[s.name] = p[s.name]
      <4>1. rule.name # s.name BY <1>2, <2>1, <2>9, <3>0, <3>5 DEF Apart
      <4>2. CASE m[1] = "skip" /\ q = p BY <4>2
      <4>3. CASE q = Put(p, rule.name, rule) BY <4>1, <4>3 DEF Put
      <4>4. CASE /\ m[2] \in DOMAIN kept /\ kept[m[2]].kind = rule.kind
                 /\ m[2] = rule.name \/ rule.kind \notin SourceKinds
                 /\ q = [p EXCEPT ![m[2]] = MergeRule(rule, p[m[2]], attrs)]
        <5>1. m[2] # s.name BY <3>2, <3>3, <4>1, <4>4
        <5>2. PICK d : d = MergeRule(rule, p[m[2]], attrs) OBVIOUS
        <5>3. q = [p EXCEPT ![m[2]] = d] BY <4>4, <5>2
        <5> QED BY <5>1, <5>3
      <4> QED BY <2>8, <4>2, <4>3, <4>4 DEF Placed
    <3>6. ASSUME k = i PROVE Merged(kept, s, phase, q)
      <4>0. s = rule BY <2>1, <3>0, <3>6
      <4>1. Unmerged(kept, s, p) BY <1>2, <3>1, <3>6
      <4>2. m[1] # "skip" BY <2>2, <3>2, <4>0
      <4>3. CASE rule.name \notin DOMAIN kept /\ q = Put(p, rule.name, rule)
        <5>1. rule.name \in DOMAIN q /\ q[rule.name] = rule BY <4>3 DEF Put
        <5> QED BY <4>0, <4>3, <5>1 DEF Merged
      <4>4. CASE /\ m[2] \in DOMAIN kept
                 /\ m[2] = rule.name \/ rule.kind \notin SourceKinds
                 /\ q = [p EXCEPT ![m[2]] = MergeRule(rule, p[m[2]], attrs)]
        <5>1. m[2] = s.name /\ s.name \in DOMAIN kept BY <3>2, <4>0, <4>4
        <5>2. p[s.name] = kept[s.name] BY <4>1, <5>1 DEF Unmerged
        <5>3. PICK d : d = MergeRule(s, kept[s.name], attrs) OBVIOUS
        <5>4. q = [p EXCEPT ![s.name] = d] BY <4>0, <4>4, <5>1, <5>2, <5>3
        <5>5. s.name \in DOMAIN q /\ q[s.name] = d BY <3>4, <5>1, <5>4
        <5> QED BY <2>3, <4>0, <5>1, <5>3, <5>5 DEF Merged
      <4> QED BY <2>8, <4>2, <4>3, <4>4 DEF Placed
    <3>7. ASSUME k # i, Merged(kept, s, phase, p) PROVE Merged(kept, s, phase, q)
      BY <3>5, <3>7 DEF Merged
    <3>8. ASSUME k # i, Unmerged(kept, s, p) PROVE Unmerged(kept, s, q)
      BY <3>4, <3>5, <3>8 DEF Unmerged
    <3>9. k \in Int /\ i \in Int BY <1>2
    <3> HIDE DEF N
    <3> HIDE <1>4
    <3> QED BY <3>0, <3>1, <3>6, <3>7, <3>8, <3>9
  <2> QED BY <2>5, <2>8, <2>9 DEF MergeGood
<1>5. MergeGood(kept, gen, phase, r, N) BY <1>1, <1>2, <1>3, <1>4, Merging!Invariance, Zenon
<1>6. \A k \in DOMAIN gen : k <= N BY <1>2
<1> QED BY <1>5, <1>6 DEF MergeGood

(***************************************************************************)
(* What is the user's in a file, and what merging leaves of it.            *)
(***************************************************************************)

KeptIn(f, n) == IF n \in DOMAIN f THEN f[n].kept ELSE {}
PinnedIn(f, n) == n \in DOMAIN f /\ IsPinned(f[n])
SameUser(f, q) == \A n : /\ PinnedIn(f, n) <=> PinnedIn(q, n)
                         /\ KeptIn(f, n) = KeptIn(q, n)

\* Merging keeps what is the user's, if nothing that is pinned is said to be empty.
LEMMA MergeFileOK ==
    ASSUME NEW f, NEW empty, NEW gen, NEW phase, FileOK(f), GenOK(gen),
           \A x \in empty : ~PinnedIn(f, x.name),
           NEW e, e = MergeEmpty(f, empty, phase),
           NEW q, q = MergeFile(f, empty, gen, phase)
    PROVE  /\ FileOK(e) /\ FileOK(q) /\ SameUser(f, q) /\ KeepsUsers(e, q)
           /\ Apart(gen) => \A k \in DOMAIN gen :
                  Places(e, gen[k]) => Merged(e, gen[k], phase, q)
<1>1. q = MergeGen(e, gen, phase) BY DEF MergeFile
<1>2. /\ FileOK(e) /\ DOMAIN e \subseteq DOMAIN f
      /\ \A n \in DOMAIN e : e[n].pin = f[n].pin /\ e[n].kept = f[n].kept
      /\ \A n \in DOMAIN f \ DOMAIN e :
            /\ \E x \in empty : x.name = n
            /\ ~IsPinned(f[n]) => f[n].kept = {}
  BY MergeEmptyOK
<1>3. /\ FileOK(q) /\ KeepsUsers(e, q)
      /\ Apart(gen) => \A k \in DOMAIN gen :
             Places(e, gen[k]) => Merged(e, gen[k], phase, q)
  <2> QED BY <1>1, <1>2, MergeGenOK
<1>4. SameUser(f, q)
  <2> SUFFICES ASSUME NEW n
               PROVE  /\ PinnedIn(f, n) <=> PinnedIn(q, n)
                      /\ KeptIn(f, n) = KeptIn(q, n)
    BY DEF SameUser
  <2>1. CASE n \in DOMAIN e
    <3>1. /\ n \in DOMAIN q /\ n \in DOMAIN f
          /\ q[n].pin = f[n].pin /\ q[n].kept = f[n].kept
      BY <1>2, <1>3, <2>1 DEF KeepsUsers
    <3> QED BY <3>1 DEF PinnedIn, KeptIn, IsPinned
  <2>2. CASE n \notin DOMAIN e
    <3>1. n \in DOMAIN f => ~IsPinned(f[n]) /\ f[n].kept = {}
      <4>1. n \in DOMAIN f => \E x \in empty : x.name = n BY <1>2, <2>2
      <4>2. ~PinnedIn(f, n) BY <4>1 DEF PinnedIn
      <4> QED BY <1>2, <2>2, <4>2 DEF PinnedIn
    <3>2. n \in DOMAIN q => ~IsPinned(q[n]) /\ q[n].kept = {}
      BY <1>3, <2>2 DEF KeepsUsers
    <3> QED BY <3>1, <3>2 DEF PinnedIn, KeptIn
  <2> QED BY <2>1, <2>2
<1> QED BY <1>2, <1>3, <1>4

\* What a rule may have, that is not the user's.
Hold(f, rule) == (rule.srcs \cup rule.assets) \ KeptIn(f, rule.name)

\* A rule of a file that is a generated one.
Owned(F, rule) ==
    /\ rule.name \in DOMAIN F
    /\ F[rule.name].kind = rule.kind
    /\ ~IsPinned(F[rule.name]) => Own(F[rule.name]) \subseteq Hold(F, rule)

\* When rules are merged for the first time they get what they hold.
LEMMA FirstMerge ==
    ASSUME NEW e, NEW rule, NEW F, FileOK(e), RuleOK(rule), rule.kept = {},
           Places(e, rule), Merged(e, rule, "PreResolve", F)
    PROVE  Owned(F, rule)
<1> DEFINE n == rule.name
<1>0. rule.kind \in SourceKinds /\ n \in DOMAIN F BY DEF Places, Merged
<1>1. n \in DOMAIN e => e[n].kind = rule.kind
  <2>1. PICK x : x = Match(e, rule) OBVIOUS
  <2>2. x[1] \in {"insert", "merge"} BY <2>1, MatchOK DEF Places
  <2> QED BY <1>0, <2>1, <2>2, MatchOK
<1>2. CASE n \notin DOMAIN e
  <2>1. F[n] = rule BY <1>2 DEF Merged
  <2> QED BY <1>0, <2>1 DEF Owned, Own, Hold, KeptIn
<1>3. CASE n \in DOMAIN e
  <2>1. PICK d : d = e[n] OBVIOUS
  <2>2. PICK attrs : attrs = AttrsOf("PreResolve", rule.kind) OBVIOUS
  <2>3. PICK q : q = MergeRule(rule, d, attrs) OBVIOUS
  <2>4. F[n] = q BY <1>3, <2>1, <2>2, <2>3 DEF Merged
  <2>5. RuleOK(d) /\ d.kind = rule.kind BY <1>1, <1>3, <2>1 DEF FileOK
  <2>6. /\ "srcs" \in attrs
        /\ rule.kind = "ts_project" => "assets" \in attrs
    BY <1>0, <2>2 DEF AttrsOf, MergeableAttrs, SourceKinds
  <2>7. q.kind = rule.kind BY <2>3, <2>5, MergeRuleOK
  <2>8. /\ q.kept = d.kept /\ q.pin = d.pin
        /\ ~IsPinned(d) => q.srcs = rule.srcs \cup d.kept
        /\ rule.kind = "ts_project" => q.assets = rule.assets
    BY <2>3, <2>5, <2>6, MergeRuleOK
  <2>9. ~IsPinned(q) => Own(q) \subseteq (rule.srcs \cup rule.assets) \ q.kept
    BY <2>7, <2>8 DEF Own, IsPinned
  <2> QED BY <1>0, <2>4, <2>7, <2>9 DEF Owned, Hold, KeptIn
<1> QED BY <1>2, <1>3

\* Merged again, they get no more.
LEMMA SecondMerge ==
    ASSUME NEW f, NEW e, NEW F, NEW rule, FileOK(f), FileOK(e), RuleOK(rule), rule.kept = {},
           Owned(f, rule), rule.kind \in SourceKinds, SameUser(f, F),
           rule.name \in DOMAIN e => /\ e[rule.name].kind = f[rule.name].kind
                                     /\ e[rule.name].pin = f[rule.name].pin
                                     /\ e[rule.name].kept = f[rule.name].kept
                                     /\ Own(e[rule.name]) \subseteq Own(f[rule.name]),
           Merged(e, rule, "PostResolve", F)
    PROVE  Owned(F, rule)
<1> DEFINE n == rule.name
<1>0. /\ n \in DOMAIN F /\ n \in DOMAIN f
      /\ KeptIn(f, n) = KeptIn(F, n) /\ (PinnedIn(f, n) <=> PinnedIn(F, n))
  BY DEF Merged, Owned, SameUser
<1>1. Hold(f, rule) = Hold(F, rule) BY <1>0 DEF Hold
<1>2. CASE n \notin DOMAIN e
  <2>1. F[n] = rule BY <1>2 DEF Merged
  <2> QED BY <1>0, <2>1 DEF Owned, Own, Hold, KeptIn
<1>3. CASE n \in DOMAIN e
  <2>1. PICK d : d = e[n] OBVIOUS
  <2>2. PICK attrs : attrs = AttrsOf("PostResolve", rule.kind) OBVIOUS
  <2>3. PICK q : q = MergeRule(rule, d, attrs) OBVIOUS
  <2>4. F[n] = q BY <1>3, <2>1, <2>2, <2>3 DEF Merged
  <2>5. RuleOK(d) /\ d.kind = rule.kind BY <1>3, <2>1 DEF FileOK, Owned
  <2>6. /\ q.kind = d.kind /\ q.pin = d.pin /\ q.kept = d.kept
        /\ q.srcs = d.srcs \/ q.srcs = rule.srcs \cup d.kept
        /\ q.assets = d.assets \/ q.assets = rule.assets
    BY <2>3, <2>5, MergeRuleOK
  <2>7. d.kept = KeptIn(F, n) /\ (IsPinned(d) <=> IsPinned(f[n]))
    BY <1>0, <1>3, <2>1 DEF KeptIn, IsPinned
  <2>8. ~IsPinned(d) => Own(d) \subseteq Hold(F, rule)
    BY <1>1, <1>3, <2>1, <2>7 DEF Owned
  <2>9. ~IsPinned(q) => ~IsPinned(d) BY <2>6 DEF IsPinned
  <2>10. ~IsPinned(q) => Own(q) \subseteq Hold(F, rule)
    BY <2>5, <2>6, <2>7, <2>8, <2>9 DEF Own, Hold
  <2> QED BY <1>0, <2>4, <2>5, <2>6, <2>10 DEF Owned
<1> QED BY <1>2, <1>3

\* The rules that were added are replaced by what was resolved for them.
Inserts(rules, fate, resolved) ==
    \A k \in 1..Len(resolved) :
        LET rule == resolved[k].rule
        IN  /\ RuleOK(rule) /\ ~IsPinned(rule) /\ rule.kept = {}
            /\ fate[k][1] = "insert" => /\ fate[k][2] = rule.name
                                        /\ ~PinnedIn(rules, rule.name)
                                        /\ KeptIn(rules, rule.name) = {}

ReplaceBase(rules, fate, resolved) == rules
ReplaceStep(rules, fate, resolved, r, i) ==
    IF fate[i][1] # "insert" THEN r ELSE [r EXCEPT ![fate[i][2]] = resolved[i].rule]
ReplaceGood(rules, fate, resolved, r, i) ==
    /\ FileOK(r) /\ DOMAIN r = DOMAIN rules /\ SameUser(rules, r)
    /\ \A n \in DOMAIN r :
          \/ r[n] = rules[n]
          \/ \E k \in 1..i : /\ fate[k][1] = "insert" /\ resolved[k].rule.name = n
                             /\ r[n] = resolved[k].rule
Replacing == INSTANCE Iteration WITH Base <- ReplaceBase, Step <- ReplaceStep, Good <- ReplaceGood

\* Each rule of the file is what it was, or what was resolved for it.
LEMMA ReplacedOK ==
    ASSUME NEW rules, NEW fate, NEW resolved, FileOK(rules), Len(resolved) \in Nat,
           Inserts(rules, fate, resolved),
           NEW q, q = Replaced(rules, fate, resolved)
    PROVE  ReplaceGood(rules, fate, resolved, q, Len(resolved))
<1> DEFINE N == Len(resolved)
<1>1. q = Replacing!Upto(rules, fate, resolved, N)
  BY Zenon DEF Replaced, Replacing!Upto, ReplaceBase, ReplaceStep
<1>2. ReplaceGood(rules, fate, resolved, ReplaceBase(rules, fate, resolved), 0)
  BY DEF ReplaceGood, ReplaceBase, SameUser
<1>3. ASSUME NEW i \in 1..N, NEW r, ReplaceGood(rules, fate, resolved, r, i - 1)
      PROVE  ReplaceGood(rules, fate, resolved, ReplaceStep(rules, fate, resolved, r, i), i)
  <2>0. i \in Int /\ \A k \in 1..i - 1 : k \in 1..i OBVIOUS
  <2>1. PICK s : s = ReplaceStep(rules, fate, resolved, r, i) OBVIOUS
  <2>2. CASE fate[i][1] # "insert"
    <3>1. s = r BY <2>1, <2>2 DEF ReplaceStep
    <3>2. FileOK(s) /\ DOMAIN s = DOMAIN rules /\ SameUser(rules, s)
      BY <1>3, <3>1 DEF ReplaceGood
    <3>3. \A n \in DOMAIN s :
             \/ s[n] = rules[n]
             \/ \E k \in 1..i : /\ fate[k][1] = "insert" /\ resolved[k].rule.name = n
                                /\ s[n] = resolved[k].rule
      BY <1>3, <2>0, <3>1, Zenon DEF ReplaceGood
    <3> QED BY <2>1, <3>2, <3>3, Zenon DEF ReplaceGood
  <2>3. CASE fate[i][1] = "insert"
    <3>1. PICK rule : rule = resolved[i].rule OBVIOUS
    <3>2. /\ RuleOK(rule) /\ ~IsPinned(rule) /\ rule.kept = {}
          /\ fate[i][2] = rule.name
          /\ ~PinnedIn(rules, rule.name) /\ KeptIn(rules, rule.name) = {}
      BY <2>3, <3>1 DEF Inserts
    <3>3. s = [r EXCEPT ![rule.name] = rule] BY <2>1, <2>3, <3>1, <3>2 DEF ReplaceStep
    <3>4. FileOK(r) /\ DOMAIN r = DOMAIN rules /\ SameUser(rules, r) BY <1>3 DEF ReplaceGood
    <3>5. /\ DOMAIN s = DOMAIN r
          /\ \A n \in DOMAIN r : s[n] = IF n = rule.name THEN rule ELSE r[n]
      BY <3>3
    <3>6. FileOK(s) BY <3>2, <3>4, <3>5 DEF FileOK
    <3>7. SameUser(rules, s)
      BY <3>2, <3>4, <3>5 DEF SameUser, PinnedIn, KeptIn
    <3>8. ASSUME NEW n \in DOMAIN s
          PROVE  \/ s[n] = rules[n]
                 \/ \E k \in 1..i : /\ fate[k][1] = "insert" /\ resolved[k].rule.name = n
                                    /\ s[n] = resolved[k].rule
      <4>1. CASE n = rule.name
        <5>1. s[n] = rule /\ i \in 1..i BY <3>5, <4>1
        <5> QED BY <2>3, <3>1, <4>1, <5>1, Zenon
      <4>2. CASE n # rule.name
        <5>1. s[n] = r[n] /\ n \in DOMAIN r BY <3>5, <4>2
        <5>2. \/ r[n] = rules[n]
              \/ \E k \in 1..i - 1 : /\ fate[k][1] = "insert" /\ resolved[k].rule.name = n
                                     /\ r[n] = resolved[k].rule
          BY <1>3, <5>1, Zenon DEF ReplaceGood
        <5> QED BY <2>0, <5>1, <5>2, Zenon
      <4> QED BY <4>1, <4>2
    <3>9. DOMAIN s = DOMAIN rules BY <3>4, <3>5
    <3> QED BY <2>1, <3>6, <3>7, <3>8, <3>9, Zenon DEF ReplaceGood
  <2> QED BY <2>2, <2>3
<1> QED BY <1>1, <1>2, <1>3, Replacing!Invariance, Zenon

(***************************************************************************)
(* A directory, from when its rules are generated to when they are written.*)
(***************************************************************************)

\* An entry for a rule of sources whose srcs are not the user's.
Mine(F, entry) ==
    /\ entry.rule.kind \in SourceKinds /\ ~entry.info.package
    /\ ~PinnedIn(F, entry.rule.name)

\* No two of them hold a file.
Disjoint(F, gen) ==
    \A i, k \in DOMAIN gen :
        Mine(F, gen[i]) /\ Mine(F, gen[k]) /\ i # k
            => Hold(F, gen[i].rule) \cap Hold(F, gen[k].rule) = {}

\* Rules that are generated are those that are resolved, but for what they depend on.
SameRule(rule, other) ==
    /\ RuleOK(other)
    /\ other.kind = rule.kind /\ other.name = rule.name /\ other.srcs = rule.srcs
    /\ other.assets = rule.assets /\ other.kept = rule.kept /\ other.pin = rule.pin

AllOwned(F, fate, rules) ==
    Apart(rules) => \A k \in DOMAIN rules :
        rules[k].kind \in SourceKinds /\ fate[k][1] # "skip"
            => fate[k][2] = rules[k].name /\ Owned(F, rules[k])

DirOK(m, F) ==
    /\ GenOK(Rules(m.gen))
    /\ FileOK(F)
    /\ \A x \in m.empty : ~PinnedIn(F, x.name)
    /\ \A k \in DOMAIN m.gen :
          m.fate[k][1] = "insert" => /\ m.fate[k][2] = m.gen[k].rule.name
                                     /\ ~PinnedIn(F, m.gen[k].rule.name)
                                     /\ KeptIn(F, m.gen[k].rule.name) = {}
    /\ AllOwned(F, m.fate, Rules(m.gen))
    /\ Disjoint(F, m.gen)

\* What holds of a file holds of another with the same of the user's in it.
LEMMA DisjointSame ==
    ASSUME NEW f, NEW F, NEW gen, SameUser(f, F), Disjoint(f, gen)
    PROVE  Disjoint(F, gen)
<1>1. \A i \in DOMAIN gen :
         /\ Mine(F, gen[i]) => Mine(f, gen[i])
         /\ Hold(F, gen[i].rule) = Hold(f, gen[i].rule)
  BY DEF SameUser, Mine, Hold
<1> QED BY <1>1 DEF Disjoint

\* Rules are resolved.
LEMMA MergedAgainOK ==
    ASSUME NEW m, NEW F, DirOK(m, F),
           NEW resolved, DOMAIN resolved = DOMAIN m.gen,
           \A k \in DOMAIN resolved : SameRule(m.gen[k].rule, resolved[k].rule),
           resolved = [k \in DOMAIN resolved |-> resolved[k]],
           NEW q, q = MergeFile(Replaced(F, m.fate, resolved), m.empty, Rules(resolved),
                                "PostResolve")
    PROVE  DirOK(m, q)
<1> DEFINE rules == Rules(m.gen)
           after == Rules(resolved)
<1>1. DOMAIN rules = DOMAIN m.gen /\ \A k \in DOMAIN rules : rules[k] = m.gen[k].rule BY DEF Rules
<1>2. DOMAIN after = DOMAIN m.gen /\ \A k \in DOMAIN after : after[k] = resolved[k].rule
  BY DEF Rules
<1>3. Len(rules) \in Nat /\ DOMAIN rules = 1..Len(rules) BY AnySeqLen DEF DirOK, GenOK
<1>4. PICK N \in Nat : DOMAIN m.gen = 1..N BY <1>1, <1>3
<1>5. after = [k \in 1..N |-> after[k]] BY <1>4 DEF Rules
<1>6. AnySeq(after) /\ resolved = [k \in 1..N |-> resolved[k]]
  <2> HIDE DEF after
  <2>1. AnySeq(after) BY <1>4, <1>5, AnySeqOf
  <2>2. resolved = [k \in 1..N |-> resolved[k]] BY <1>4
  <2> QED BY <2>1, <2>2
<1>7. Len(resolved) = N
  <2>1. PICK s : s = resolved OBVIOUS
  <2>2. s = [k \in 1..N |-> s[k]] BY <1>6, <2>1, Zenon
  <2>3. Len(s) = N BY <2>2, AnySeqOf
  <2> QED BY <2>1, <2>3
<1>8. \A k \in DOMAIN m.gen : SameRule(rules[k], after[k]) BY <1>1, <1>2
<1> HIDE DEF rules, after
<1>9. /\ GenOK(rules) /\ FileOK(F)
      /\ \A x \in m.empty : ~PinnedIn(F, x.name)
      /\ \A k \in DOMAIN m.gen :
            m.fate[k][1] = "insert" => /\ m.fate[k][2] = rules[k].name
                                       /\ ~PinnedIn(F, rules[k].name)
                                       /\ KeptIn(F, rules[k].name) = {}
      /\ AllOwned(F, m.fate, rules)
      /\ Disjoint(F, m.gen)
  BY <1>1 DEF DirOK, rules
<1>10. GenOK(after)
  <2>1. ASSUME NEW k \in DOMAIN after
        PROVE  RuleOK(after[k]) /\ ~IsPinned(after[k]) /\ after[k].kept = {}
    <3>1. k \in DOMAIN rules /\ SameRule(rules[k], after[k]) BY <1>1, <1>2, <1>8
    <3>2. ~IsPinned(rules[k]) /\ rules[k].kept = {} BY <1>9, <3>1 DEF GenOK
    <3> QED BY <3>1, <3>2 DEF SameRule, IsPinned
  <2> QED BY <1>6, <2>1 DEF GenOK
<1>11. Apart(rules) => Apart(after) BY <1>1, <1>2, <1>8 DEF Apart, SameRule
<1>12. Inserts(F, m.fate, resolved)
  <2>1. ASSUME NEW k \in 1..N, NEW rule, rule = resolved[k].rule
        PROVE  /\ RuleOK(rule) /\ ~IsPinned(rule) /\ rule.kept = {}
               /\ m.fate[k][1] = "insert" => /\ m.fate[k][2] = rule.name
                                            /\ ~PinnedIn(F, rule.name)
                                            /\ KeptIn(F, rule.name) = {}
    <3>1. k \in DOMAIN after /\ k \in DOMAIN m.gen /\ rule = after[k] BY <1>2, <1>4, <2>1
    <3>2. RuleOK(rule) /\ ~IsPinned(rule) /\ rule.kept = {} BY <1>10, <3>1 DEF GenOK
    <3>3. rule.name = rules[k].name BY <1>8, <3>1 DEF SameRule
    <3> QED BY <1>9, <3>1, <3>2, <3>3
  <2> QED BY <1>7, <2>1 DEF Inserts
<1>13. PICK p : p = Replaced(F, m.fate, resolved) OBVIOUS
<1>14. ReplaceGood(F, m.fate, resolved, p, N) BY <1>7, <1>9, <1>12, <1>13, ReplacedOK
<1>15. FileOK(p) /\ SameUser(F, p) BY <1>14 DEF ReplaceGood
<1>16. \A x \in m.empty : ~PinnedIn(p, x.name) BY <1>9, <1>15 DEF SameUser
<1>17. PICK e : e = MergeEmpty(p, m.empty, "PostResolve") OBVIOUS
<1>18. q = MergeFile(p, m.empty, after, "PostResolve") BY <1>13 DEF after
<1>19. /\ FileOK(e) /\ FileOK(q) /\ SameUser(p, q) /\ KeepsUsers(e, q)
       /\ Apart(after) => \A k \in DOMAIN after :
              Places(e, after[k]) => Merged(e, after[k], "PostResolve", q)
  BY <1>10, <1>15, <1>16, <1>17, <1>18, MergeFileOK
<1>20. SameUser(F, q) BY <1>15, <1>19 DEF SameUser
<1>21. \A n \in DOMAIN e :
          /\ n \in DOMAIN p
          /\ e[n].kind = p[n].kind /\ e[n].pin = p[n].pin /\ e[n].kept = p[n].kept
          /\ Own(e[n]) \subseteq Own(p[n])
  <2>1. /\ DOMAIN e \subseteq DOMAIN p
        /\ \A n \in DOMAIN e :
              /\ e[n].kind = p[n].kind /\ e[n].pin = p[n].pin /\ e[n].kept = p[n].kept
              /\ Own(e[n]) \subseteq Own(p[n])
    BY <1>15, <1>17, MergeEmptyOK
  <2> QED BY <2>1
<1>22. AllOwned(q, m.fate, rules)
  <2> SUFFICES ASSUME Apart(rules), NEW k \in DOMAIN rules,
                      rules[k].kind \in SourceKinds, m.fate[k][1] # "skip"
               PROVE  m.fate[k][2] = rules[k].name /\ Owned(q, rules[k])
    BY DEF AllOwned
  <2>1. m.fate[k][2] = rules[k].name /\ Owned(F, rules[k]) BY <1>9 DEF AllOwned
  <2>2. PICK rule : rule = after[k] OBVIOUS
  <2>3. /\ k \in DOMAIN after /\ SameRule(rules[k], rule) /\ RuleOK(rule)
        /\ rule.kept = {} /\ rule.kind \in SourceKinds
    BY <1>1, <1>2, <1>8, <1>10, <2>2 DEF GenOK, SameRule
  <2>4. Owned(p, rule)
    <3> DEFINE n == rule.name
    <3>1. n = rules[k].name BY <2>3 DEF SameRule
    <3>2. n \in DOMAIN F /\ n \in DOMAIN p BY <1>14, <2>1, <3>1 DEF Owned, ReplaceGood
    <3>3. KeptIn(F, n) = KeptIn(p, n) BY <1>15 DEF SameUser
    <3>4. CASE p[n] = F[n]
      BY <2>1, <2>3, <3>1, <3>2, <3>3, <3>4 DEF Owned, Hold, SameRule
    <3>5. CASE \E j \in 1..N : /\ m.fate[j][1] = "insert" /\ resolved[j].rule.name = n
                               /\ p[n] = resolved[j].rule
      <4>1. PICK j \in 1..N : /\ m.fate[j][1] = "insert" /\ resolved[j].rule.name = n
                              /\ p[n] = resolved[j].rule
        BY <3>5
      <4>2. j \in DOMAIN after /\ after[j].name = n BY <1>2, <1>4, <4>1
      <4>3. j = k BY <1>11, <2>2, <2>3, <4>2 DEF Apart
      <4>4. p[n] = rule BY <1>2, <2>2, <2>3, <4>1, <4>3
      <4> QED BY <2>3, <3>2, <4>4 DEF Owned, Own, Hold, KeptIn
    <3> QED BY <1>14, <3>2, <3>4, <3>5, Zenon DEF ReplaceGood
  <2>5. rule.name \in DOMAIN e => e[rule.name].kind = rule.kind
    BY <1>21, <2>4 DEF Owned
  <2>6. Places(e, rule)
    <3>1. PICK x : x = Match(e, rule) OBVIOUS
    <3>2. x[1] \in {"insert", "merge"} BY <2>3, <2>5, <3>1, MatchOK
    <3> QED BY <2>3, <3>1, <3>2 DEF Places
  <2>7. Merged(e, rule, "PostResolve", q) BY <1>11, <1>19, <2>2, <2>3, <2>6
  <2>8. Owned(q, rule) BY <1>15, <1>19, <1>21, <2>3, <2>4, <2>7, SecondMerge
  <2>9. Owned(q, rules[k]) BY <2>3, <2>8 DEF Owned, Hold, SameRule
  <2> QED BY <2>1, <2>9
<1>23. Disjoint(q, m.gen) BY <1>9, <1>20, DisjointSame
<1>24. \A x \in m.empty : ~PinnedIn(q, x.name) BY <1>9, <1>20 DEF SameUser
<1>25. \A k \in DOMAIN m.gen :
          m.fate[k][1] = "insert" => /\ m.fate[k][2] = m.gen[k].rule.name
                                     /\ ~PinnedIn(q, m.gen[k].rule.name)
                                     /\ KeptIn(q, m.gen[k].rule.name) = {}
  BY <1>1, <1>9, <1>20 DEF SameUser
<1> QED BY <1>9, <1>19, <1>22, <1>23, <1>24, <1>25 DEF DirOK, rules

(***************************************************************************)
(* The rules of a directory.                                               *)
(***************************************************************************)

GenFields == {"lang", "file", "gen", "empty", "rels", "data", "made", "error"}

EntriesOK(gen) ==
    /\ AnySeq(gen)
    /\ \A i \in DOMAIN gen :
          RuleOK(gen[i].rule) /\ ~IsPinned(gen[i].rule) /\ gen[i].rule.kept = {}

\* What has been generated for a directory that had the rules f.
Sound(f, r) ==
    /\ GenFields \subseteq DOMAIN r
    /\ EntriesOK(r.gen)
    /\ FileOK(r.file) /\ SameUser(f, r.file)
    /\ \A x \in r.empty : ~PinnedIn(f, x.name)
    /\ ~r.error => Disjoint(f, r.gen)

\* An entry joins those there are.
LEMMA EmitOK ==
    ASSUME NEW r, NEW rule, NEW info, NEW rels, GenFields \subseteq DOMAIN r, EntriesOK(r.gen),
           RuleOK(rule), ~IsPinned(rule), rule.kept = {},
           NEW q, q = Emit(r, rule, info, rels)
    PROVE  /\ GenFields \subseteq DOMAIN q /\ EntriesOK(q.gen)
           /\ q.file = r.file /\ q.empty = r.empty /\ q.data = r.data /\ q.error = r.error
           /\ \A i \in DOMAIN q.gen :
                 \/ i \in DOMAIN r.gen /\ q.gen[i] = r.gen[i]
                 \/ i \notin DOMAIN r.gen /\ q.gen[i] = [rule |-> rule, info |-> info]
           /\ \A i, k \in DOMAIN q.gen : i \notin DOMAIN r.gen /\ k \notin DOMAIN r.gen => i = k
<1>1. PICK x : x = [rule |-> rule, info |-> info] OBVIOUS
<1>2. PICK s : s = r.gen OBVIOUS
<1>3. PICK y : y = r.rels \cup rels OBVIOUS
<1>4. q = [r EXCEPT !.gen = Append(s, x), !.rels = y] BY <1>1, <1>2, <1>3 DEF Emit
<1>5. /\ DOMAIN q = DOMAIN r /\ q.gen = Append(s, x)
      /\ q.file = r.file /\ q.empty = r.empty /\ q.data = r.data /\ q.error = r.error
  BY <1>4 DEF GenFields
<1>6. AnySeq(s) BY <1>2 DEF EntriesOK
<1>7. /\ AnySeq(q.gen) /\ DOMAIN q.gen = 1..Len(s) + 1
      /\ \A i \in DOMAIN s : q.gen[i] = s[i]
      /\ q.gen[Len(s) + 1] = x
  BY <1>5, <1>6, AnySeqAppend
<1>8. Len(s) \in Nat /\ DOMAIN s = 1..Len(s) BY <1>6, AnySeqLen
<1>9. /\ \A i \in DOMAIN q.gen : \/ i \in DOMAIN s /\ q.gen[i] = s[i]
                                 \/ i \notin DOMAIN s /\ q.gen[i] = x
      /\ \A i, k \in DOMAIN q.gen : i \notin DOMAIN s /\ k \notin DOMAIN s => i = k
  BY <1>7, <1>8
<1>10. x.rule = rule BY <1>1
<1>11. EntriesOK(q.gen) BY <1>2, <1>7, <1>9, <1>10 DEF EntriesOK
<1> QED BY <1>1, <1>2, <1>5, <1>9, <1>11

\* An entry that is not for a rule of sources of its own changes nothing for the others.
LEMMA EmitOther ==
    ASSUME NEW f, NEW r, NEW rule, NEW info, NEW rels, Sound(f, r),
           RuleOK(rule), ~IsPinned(rule), rule.kept = {},
           rule.kind \notin SourceKinds \/ info.package,
           NEW q, q = Emit(r, rule, info, rels)
    PROVE  Sound(f, q)
<1>1. /\ GenFields \subseteq DOMAIN q /\ EntriesOK(q.gen)
      /\ q.file = r.file /\ q.empty = r.empty /\ q.data = r.data /\ q.error = r.error
      /\ \A i \in DOMAIN q.gen :
            \/ i \in DOMAIN r.gen /\ q.gen[i] = r.gen[i]
            \/ i \notin DOMAIN r.gen /\ q.gen[i] = [rule |-> rule, info |-> info]
  BY EmitOK DEF Sound
<1>2. ~Mine(f, [rule |-> rule, info |-> info]) BY DEF Mine
<1>3. \A i \in DOMAIN q.gen : Mine(f, q.gen[i]) => i \in DOMAIN r.gen /\ q.gen[i] = r.gen[i]
  BY <1>1, <1>2
<1>4. Disjoint(f, r.gen) => Disjoint(f, q.gen) BY <1>3 DEF Disjoint
<1> QED BY <1>1, <1>4 DEF Sound

\* What is not among the rules and the entries may change.
LEMMA SoundBut ==
    ASSUME NEW f, NEW r, NEW x, NEW v, Sound(f, r), x \in {"lang", "rels", "data", "made"}
    PROVE  Sound(f, [r EXCEPT ![x] = v])
BY DEF Sound, GenFields

\* An error is reported.
LEMMA SoundError ==
    ASSUME NEW f, NEW r, Sound(f, r)
    PROVE  Sound(f, [r EXCEPT !.error = TRUE])
BY DEF Sound, GenFields

\* A new rule with srcs, labels and attributes.
LEMMA FilledOK ==
    ASSUME NEW kind, NEW name, NEW base, base = NewRule(kind, name),
           NEW rule, NEW x \in {"srcs", "refs"}, NEW v, NEW attrs,
           \/ rule = [base EXCEPT ![x] = v]
           \/ rule = [base EXCEPT ![x] = v, !["attrs"] = attrs]
    PROVE  RuleOK(rule) /\ ~IsPinned(rule) /\ rule.kept = {} /\ rule.kind = kind
<1>1. /\ RuleOK(base) /\ base.kind = kind /\ base.kept = {} /\ ~IsPinned(base)
  BY NewRuleOK
<1>2. /\ DOMAIN rule = DOMAIN base
      /\ rule.kept = base.kept /\ rule.pin = base.pin /\ rule.kind = base.kind
  <2>0. {"kept", "pin", "kind", "attrs"} \subseteq DOMAIN base
    BY NewRuleOK, base = NewRule(kind, name) DEF NewRule
  <2>1. CASE x = "srcs" BY <2>0, <2>1
  <2>2. CASE x = "refs" BY <2>0, <2>2
  <2> QED BY <2>1, <2>2
<1> QED BY <1>1, <1>2 DEF RuleOK, IsPinned

\* The rule of a package.
LEMMA AddPackageOK ==
    ASSUME NEW f, NEW g, NEW r, Sound(f, r)
    PROVE  Sound(f, AddPackage(g, r))
<1>1. ASSUME NEW entries, NEW published
      PROVE  Sound(f, EmitPackage(g, r, entries, published))
  <2> DEFINE imported == (entries \ r.data) \cup published.imports
             Optional(n) == [Import(InDir(g.rel, n), n, InDir(g.rel, PackageJson), "")
                                 EXCEPT !.optional = TRUE]
             sources == ((entries \cup {PackageJson}) \cap r.data) \cup published.sources
             base == NewRule(g.cfg.packageKind, g.cfg.packageName)
             lib == IF DefaultLibraryName \in DOMAIN r.made
                    THEN {RuleLabel(g.rel, r.made[DefaultLibraryName])} ELSE {}
             imports == AddImports(<<>>, SetToSeq({Optional(n) : n \in imported}))
             rule == [base EXCEPT !.srcs = sources, !.attrs["visibility"] = PnpmLockDir(g.cfg)]
             info == [NewInfo("") EXCEPT !.package = TRUE, !.sources = sources,
                                         !.imports = imports, !.source = lib]
  <2>1. EmitPackage(g, r, entries, published) = Emit(r, rule, info, RelsToIndex(g, info))
    BY Zenon DEF EmitPackage, EmitIndexed
  <2>2. info.package BY DEF NewInfo
  <2> HIDE DEF info, base, sources
  <2>3. PICK attrs : attrs = [base.attrs EXCEPT !["visibility"] = PnpmLockDir(g.cfg)] OBVIOUS
  <2>4. RuleOK(rule) /\ ~IsPinned(rule) /\ rule.kept = {}
    <3>1. PICK new : new = base OBVIOUS
    <3>2. rule = [new EXCEPT !["srcs"] = sources, !["attrs"] = attrs] BY <2>3, <3>1
    <3>3. new = NewRule(g.cfg.packageKind, g.cfg.packageName) BY <3>1 DEF base
    <3> HIDE DEF rule
    <3> QED BY <3>2, <3>3, FilledOK
  <2> HIDE DEF rule
  <2>5. PICK q : q = Emit(r, rule, info, RelsToIndex(g, info)) OBVIOUS
  <2>6. Sound(f, q) BY <2>2, <2>4, <2>5, EmitOther
  <2> QED BY <2>1, <2>5, <2>6
<1>2. Sound(f, AddPackageRule(g, r)) BY <1>1, SoundError DEF AddPackageRule
<1> QED BY <1>2 DEF AddPackage

\* The rule of a tsconfig.
LEMMA AddTsConfigRuleOK ==
    ASSUME NEW f, NEW g, NEW r, NEW group, Sound(f, r)
    PROVE  Sound(f, AddTsConfigRule(g, r, group))
<1>1. ASSUME NEW p, Sound(f, p), NEW rule, NEW info, rule.kind = "ts_config",
             RuleOK(rule), ~IsPinned(rule), rule.kept = {}
      PROVE  Sound(f, EmitTsConfig(g, p, rule, info))
  <2>1. rule.kind \notin SourceKinds BY <1>1 DEF SourceKinds
  <2>2. EmitTsConfig(g, p, rule, info) = p
        \/ \E x, rels : EmitTsConfig(g, p, rule, info) = Emit(p, rule, x, rels)
    BY DEF EmitTsConfig, EmitIndexed
  <2> QED BY <1>1, <2>1, <2>2, EmitOther
<1>2. ASSUME NEW p, Sound(f, p), NEW name, NEW srcs, NEW info
      PROVE  Sound(f, EmitTsConfig(g, p, [NewRule("ts_config", name) EXCEPT !.srcs = srcs], info))
  <2>1. PICK base : base = NewRule("ts_config", name) OBVIOUS
  <2>2. PICK rule : rule = [base EXCEPT !["srcs"] = srcs] OBVIOUS
  <2>3. RuleOK(rule) /\ ~IsPinned(rule) /\ rule.kept = {} /\ rule.kind = "ts_config"
    BY <2>1, <2>2, FilledOK
  <2> QED BY <1>1, <1>2, <2>1, <2>2, <2>3
<1>3. ASSUME NEW p, Sound(f, p), NEW name, NEW refs, NEW info
      PROVE  Sound(f, EmitTsConfig(g, p, [NewRule("ts_config", name) EXCEPT !.refs = refs], info))
  <2>1. PICK base : base = NewRule("ts_config", name) OBVIOUS
  <2>2. PICK rule : rule = [base EXCEPT !["refs"] = refs] OBVIOUS
  <2>3. RuleOK(rule) /\ ~IsPinned(rule) /\ rule.kept = {} /\ rule.kind = "ts_config"
    BY <2>1, <2>2, FilledOK
  <2> QED BY <1>1, <1>3, <2>1, <2>2, <2>3
<1>4. ASSUME NEW p, Sound(f, p), NEW found
      PROVE  Sound(f, ForwardTsConfig(g, p, group, found))
  BY <1>3, <1>4 DEF ForwardTsConfig
<1>5. ASSUME NEW local
      PROVE  Sound(f, AddTsConfig(g, r, group, local))
  <2>1. PICK loaded : loaded = [r EXCEPT !.lang.tsConfigs = local.configs] OBVIOUS
  <2>2. PICK ext : ext = [r.lang EXCEPT !.tsConfigs = local.configs] OBVIOUS
  <2>3. loaded = [r EXCEPT !["lang"] = ext] BY <2>1, <2>2
  <2>4. Sound(f, loaded)
    <3> HIDE <2>1
    <3> QED BY <2>3, SoundBut
  <2> QED BY <1>2, <1>4, <2>1, <2>4 DEF AddTsConfig
<1> QED BY <1>5 DEF AddTsConfigRule

\* The tsconfigs, one after the other.
TsConfigBase(g, f, r) == r
TsConfigStep(g, f, r, q, i) == AddTsConfigRule(g, q, TsConfigGroupNames(g.cfg)[i])
TsConfigGood(g, f, r, q, i) == Sound(f, q)
TsConfigRules == INSTANCE Iteration WITH Base <- TsConfigBase, Step <- TsConfigStep, Good <- TsConfigGood

\* The rules of the tsconfigs are.
LEMMA AddTsConfigRulesOK ==
    ASSUME NEW f, NEW g, NEW r, Sound(f, r), ConfigOK(g.cfg)
    PROVE  Sound(f, AddTsConfigRules(g, r))
<1> DEFINE S == DOMAIN g.cfg.groups \cup {""}
           N == Cardinality(S)
<1>1. N \in Nat
  <2>1. IsFiniteSet(S) BY FS_AddElement DEF ConfigOK
  <2> HIDE DEF S
  <2> QED BY <2>1, FS_CardinalityType
<1>2. AddTsConfigRules(g, r) = TsConfigRules!Upto(g, f, r, N)
  BY Zenon DEF AddTsConfigRules, TsConfigRules!Upto, TsConfigBase, TsConfigStep
<1> HIDE DEF N
<1>3. TsConfigGood(g, f, r, TsConfigBase(g, f, r), 0)
  BY DEF TsConfigGood, TsConfigBase
<1>4. ASSUME NEW i \in 1..N, NEW q, TsConfigGood(g, f, r, q, i - 1)
      PROVE  TsConfigGood(g, f, r, TsConfigStep(g, f, r, q, i), i)
  BY <1>4, AddTsConfigRuleOK DEF TsConfigGood, TsConfigStep
<1>5. TsConfigGood(g, f, r, TsConfigRules!Upto(g, f, r, N), N) BY <1>1, <1>3, <1>4, TsConfigRules!Invariance, Zenon
<1> QED BY <1>2, <1>5 DEF TsConfigGood

\* A rule of sources joins the others, in the place of one of sources if there is one of
\* its name, or an error is reported.
Joined(r, p, kind, q) ==
    /\ GenFields \subseteq DOMAIN q /\ EntriesOK(q.gen)
    /\ FileOK(q.file) /\ SameUser(r.file, q.file)
    /\ q.empty = r.empty /\ q.data = r.data
    /\ ~q.error =>
         /\ ~r.error
         /\ p.name \in DOMAIN r.file => r.file[p.name].kind \in SourceKinds
         /\ \A i \in DOMAIN q.gen :
               \/ i \in DOMAIN r.gen /\ q.gen[i] = r.gen[i]
               \/ /\ i \notin DOMAIN r.gen
                  /\ q.gen[i].rule.name = p.name
                  /\ q.gen[i].rule.srcs \cup q.gen[i].rule.assets = p.sources
         /\ \A i, k \in DOMAIN q.gen : i \notin DOMAIN r.gen /\ k \notin DOMAIN r.gen => i = k

\* The rule of a project.
LEMMA EmitProjectOK ==
    ASSUME NEW g, NEW r, NEW p, NEW kind, GenFields \subseteq DOMAIN r, EntriesOK(r.gen),
           FileOK(r.file),
           NEW q, q = EmitProject(g, r, p, kind)
    PROVE  Joined(r, p, kind, q)
<1> DEFINE existing == IF p.name \in DOMAIN r.file THEN r.file[p.name] ELSE NewRule(kind, p.name)
           compiled == IF kind = "js_library" THEN p.sources
                       ELSE {f \in p.sources \ p.assets : IsSourceOrData(f)}
           attrs == Attributes(g, p.group, kind, p.found.config, p.found.rel, existing)
           base == NewRule(kind, p.name)
           assets == p.sources \ compiled
           rule == [base EXCEPT !.srcs = compiled, !.assets = assets, !.attrs = attrs]
           info == [NewInfo(p.group.name) EXCEPT !.sources = p.sources, !.imports = p.imports]
           fails == existing.kind \notin SourceKinds \/ (kind = "js_library" /\ p.assets # {})
           next == [r EXCEPT !.file = AdaptExisting(@, p.name, kind),
                             !.made = Put(@, p.group.name, p.name),
                             !.lang.modules = Declare(g, @, p.name, p.srcs)]
<1>1. q = IF fails THEN [r EXCEPT !.error = TRUE] ELSE Emit(next, rule, info, RelsToIndex(g, info))
  BY Zenon DEF EmitProject, EmitIndexed
<1>2. compiled \cup assets = p.sources /\ compiled \subseteq p.sources OBVIOUS
<1>3. RuleOK(base) /\ base.kind = kind /\ base.name = p.name /\ base.kept = {} /\ ~IsPinned(base)
  BY NewRuleOK
<1>4. p.name \in DOMAIN r.file => existing.kind = r.file[p.name].kind OBVIOUS
<1> HIDE DEF existing, compiled, attrs, base, assets, info
<1>5. CASE fails
  <2>1. q = [r EXCEPT !.error = TRUE] BY <1>1, <1>5
  <2>2. q.error /\ GenFields \subseteq DOMAIN q /\ q.gen = r.gen /\ q.file = r.file
        /\ q.empty = r.empty /\ q.data = r.data
    BY <2>1 DEF GenFields
  <2>3. SameUser(r.file, r.file) BY DEF SameUser
  <2> QED BY <2>2, <2>3 DEF Joined
<1>6. CASE ~fails
  <2>1. q = Emit(next, rule, info, RelsToIndex(g, info)) BY <1>1, <1>6
  <2>2. /\ RuleOK(rule) /\ ~IsPinned(rule) /\ rule.kept = {} /\ rule.name = p.name
        /\ rule.srcs \cup rule.assets = p.sources
    BY <1>2, <1>3 DEF RuleOK, RuleFields, IsPinned
  <2> DEFINE there == AdaptExisting(r.file, p.name, kind)
             made0 == Put(r.made, p.group.name, p.name)
             lang0 == [r.lang EXCEPT !.modules = Declare(g, @, p.name, p.srcs)]
  <2>3. next = [r EXCEPT !.file = there, !.made = made0, !.lang = lang0] OBVIOUS
  <2> HIDE DEF there, made0, lang0, next, rule
  <2>4. /\ GenFields \subseteq DOMAIN next /\ next.gen = r.gen /\ next.file = there
        /\ next.empty = r.empty /\ next.data = r.data /\ next.error = r.error
    BY <2>3 DEF GenFields
  <2>5. FileOK(there) /\ SameUser(r.file, there)
    <3>1. CASE p.name \notin DOMAIN r.file
      <4>1. there = r.file BY <3>1 DEF there, AdaptExisting
      <4> QED BY <4>1 DEF SameUser
    <3>2. CASE p.name \in DOMAIN r.file
      <4> DEFINE d == r.file[p.name]
                 new == [a \in Attr |-> IF kind # "ts_project" /\ a \in Reflected
                                        THEN Unset ELSE d.attrs[a]]
                 changed == [d EXCEPT !.kind = kind, !.attrs = new]
      <4>1. there = [r.file EXCEPT ![p.name] = changed] BY <3>2 DEF there, AdaptExisting
      <4> HIDE DEF new
      <4>2. RuleOK(d) /\ d.name = p.name BY <3>2 DEF FileOK
      <4> HIDE DEF d
      <4>3. RuleOK(changed) /\ changed.name = p.name /\ changed.pin = d.pin /\ changed.kept = d.kept
        BY <4>2 DEF RuleOK, RuleFields
      <4> HIDE DEF changed
      <4>4. /\ DOMAIN there = DOMAIN r.file
            /\ \A n \in DOMAIN r.file : there[n] = IF n = p.name THEN changed ELSE r.file[n]
        BY <4>1
      <4>5. FileOK(there) BY <4>3, <4>4 DEF FileOK
      <4>6. SameUser(r.file, there)
        BY <4>3, <4>4 DEF SameUser, PinnedIn, KeptIn, IsPinned, d
      <4> QED BY <4>5, <4>6
    <3> QED BY <3>1, <3>2
  <2>6. PICK x : x = [rule |-> rule, info |-> info] OBVIOUS
  <2>7. PICK rels : rels = RelsToIndex(g, info) OBVIOUS
  <2>8. /\ GenFields \subseteq DOMAIN q /\ EntriesOK(q.gen)
        /\ q.file = next.file /\ q.empty = next.empty /\ q.data = next.data /\ q.error = next.error
        /\ \A i \in DOMAIN q.gen :
              \/ i \in DOMAIN next.gen /\ q.gen[i] = next.gen[i]
              \/ i \notin DOMAIN next.gen /\ q.gen[i] = [rule |-> rule, info |-> info]
        /\ \A i, k \in DOMAIN q.gen : i \notin DOMAIN next.gen /\ k \notin DOMAIN next.gen => i = k
    BY <2>1, <2>2, <2>4, <2>7, EmitOK
  <2>9. x.rule = rule BY <2>6
  <2>10. p.name \in DOMAIN r.file => r.file[p.name].kind \in SourceKinds BY <1>4, <1>6
  <2>11. \A i \in DOMAIN q.gen :
            \/ i \in DOMAIN r.gen /\ q.gen[i] = r.gen[i]
            \/ /\ i \notin DOMAIN r.gen
               /\ q.gen[i].rule.name = p.name
               /\ q.gen[i].rule.srcs \cup q.gen[i].rule.assets = p.sources
    BY <2>2, <2>4, <2>6, <2>8, <2>9
  <2> QED BY <2>4, <2>5, <2>8, <2>10, <2>11 DEF Joined
<1> QED BY <1>5, <1>6

\* The files of the groups that have been gone through, and the data they have taken.
Used(g, groups, r, n, x) ==
    \/ SourceGroup(g, groups, x) \in 1..n
    \/ AssetGroup(g, groups, x) \in 1..n
    \/ /\ SourceGroup(g, groups, x) = 0 /\ AssetGroup(g, groups, x) = 0
       /\ x # Blank /\ x \notin r.data

\* What the groups up to one have got.
Grouped(f, g, groups, r, n) ==
    /\ Sound(f, r)
    /\ r.data \subseteq DataFiles(g, groups) \cup {Blank}
    /\ ~r.error => \A k \in DOMAIN r.gen :
           Mine(f, r.gen[k]) => \A x \in Hold(f, r.gen[k].rule) : Used(g, groups, r, n, x)

\* A rule of the files of the next group, and of data.
LEMMA NextGroup ==
    ASSUME NEW f, NEW g, NEW groups, NEW r, NEW n \in Nat \ {0},
           Grouped(f, g, groups, r, n - 1), NEW p, NEW kind, NEW taken,
           taken \subseteq r.data \ {Blank},
           NEW given, GenFields \subseteq DOMAIN given, EntriesOK(given.gen), given.gen = r.gen,
           given.file = r.file, given.empty = r.empty, given.error = r.error,
           given.data = WithoutData(r.data, taken),
           p.name \in DOMAIN r.file /\ r.file[p.name].kind \in SourceKinds
               => \/ PinnedIn(r.file, p.name)
                  \/ \A x \in p.sources \ KeptIn(r.file, p.name) :
                        \/ SourceGroup(g, groups, x) = n \/ AssetGroup(g, groups, x) = n
                        \/ x \in taken,
           p.name \notin DOMAIN r.file =>
               \A x \in p.sources :
                  \/ SourceGroup(g, groups, x) = n \/ AssetGroup(g, groups, x) = n
                  \/ x \in taken,
           NEW q, Joined(given, p, kind, q)
    PROVE  Grouped(f, g, groups, q, n)
<1>1. /\ GenFields \subseteq DOMAIN q /\ EntriesOK(q.gen)
      /\ FileOK(q.file) /\ SameUser(r.file, q.file)
      /\ q.empty = r.empty /\ q.data = WithoutData(r.data, taken)
      /\ ~q.error =>
           /\ ~r.error
           /\ p.name \in DOMAIN r.file => r.file[p.name].kind \in SourceKinds
           /\ \A i \in DOMAIN q.gen :
                 \/ i \in DOMAIN r.gen /\ q.gen[i] = r.gen[i]
                 \/ /\ i \notin DOMAIN r.gen
                    /\ q.gen[i].rule.name = p.name
                    /\ q.gen[i].rule.srcs \cup q.gen[i].rule.assets = p.sources
           /\ \A i, k \in DOMAIN q.gen : i \notin DOMAIN r.gen /\ k \notin DOMAIN r.gen => i = k
  BY DEF Joined
<1>2. SameUser(f, r.file) BY DEF Grouped, Sound
<1>3. SameUser(f, q.file) BY <1>1, <1>2 DEF SameUser
<1>4. \A x : x \in q.data => x \in r.data \/ x = Blank BY <1>1 DEF WithoutData
<1>5. \A x \in taken : x \in r.data /\ x # Blank /\ x \notin q.data BY <1>1 DEF WithoutData
<1>6. q.data \subseteq DataFiles(g, groups) \cup {Blank} BY <1>4 DEF Grouped
<1>7. \A x \in taken : SourceGroup(g, groups, x) = 0 /\ AssetGroup(g, groups, x) = 0
  BY <1>5 DEF Grouped, DataFiles
<1> DEFINE New(x) == \/ SourceGroup(g, groups, x) = n \/ AssetGroup(g, groups, x) = n
                     \/ x \in taken
<1>8. \A x : New(x) => Used(g, groups, q, n, x) BY <1>5, <1>7 DEF Used
<1>9. \A x : Used(g, groups, r, n - 1, x) => Used(g, groups, q, n, x)
  BY <1>4 DEF Used
<1>10. \A x : SourceGroup(g, groups, x) # 0 => AssetGroup(g, groups, x) = 0 BY DEF AssetGroup
<1>11. \A x : New(x) => ~Used(g, groups, r, n - 1, x)
  BY <1>5, <1>7, <1>10 DEF Used
<1> HIDE DEF New
<1>12. ASSUME ~q.error
       PROVE  /\ Disjoint(f, q.gen)
              /\ \A k \in DOMAIN q.gen :
                    Mine(f, q.gen[k]) => \A x \in Hold(f, q.gen[k].rule) : Used(g, groups, q, n, x)
  <2>1. /\ Disjoint(f, r.gen)
        /\ \A k \in DOMAIN r.gen :
              Mine(f, r.gen[k]) => \A x \in Hold(f, r.gen[k].rule) : Used(g, groups, r, n - 1, x)
    BY <1>1, <1>12 DEF Grouped, Sound
  <2>2. ASSUME NEW k \in DOMAIN q.gen, k \notin DOMAIN r.gen, Mine(f, q.gen[k])
        PROVE  \A x \in Hold(f, q.gen[k].rule) : New(x)
    <3>1. /\ q.gen[k].rule.name = p.name
          /\ q.gen[k].rule.srcs \cup q.gen[k].rule.assets = p.sources
      BY <1>1, <1>12, <2>2
    <3>2. ~PinnedIn(r.file, p.name) BY <1>2, <2>2, <3>1 DEF Mine, SameUser
    <3>3. Hold(f, q.gen[k].rule) = p.sources \ KeptIn(r.file, p.name)
      BY <1>2, <3>1 DEF Hold, SameUser
    <3>4. CASE p.name \in DOMAIN r.file BY <1>1, <1>12, <3>2, <3>3, <3>4 DEF New
    <3>5. CASE p.name \notin DOMAIN r.file BY <3>3, <3>5 DEF New
    <3> QED BY <3>4, <3>5
  <2>3. ASSUME NEW k \in DOMAIN q.gen, k \in DOMAIN r.gen, Mine(f, q.gen[k])
        PROVE  /\ q.gen[k] = r.gen[k] /\ Mine(f, r.gen[k])
               /\ \A x \in Hold(f, q.gen[k].rule) : Used(g, groups, r, n - 1, x)
    <3>1. q.gen[k] = r.gen[k] BY <1>1, <1>12, <2>3
    <3> QED BY <2>1, <2>3, <3>1
  <2>4. ASSUME NEW i \in DOMAIN q.gen, NEW k \in DOMAIN q.gen,
               Mine(f, q.gen[i]), Mine(f, q.gen[k]), i # k
        PROVE  Hold(f, q.gen[i].rule) \cap Hold(f, q.gen[k].rule) = {}
    <3>1. CASE i \in DOMAIN r.gen /\ k \in DOMAIN r.gen
      BY <2>1, <2>3, <2>4, <3>1 DEF Disjoint
    <3>2. CASE i \in DOMAIN r.gen /\ k \notin DOMAIN r.gen
      <4>1. \A x \in Hold(f, q.gen[i].rule) : Used(g, groups, r, n - 1, x) BY <2>3, <2>4, <3>2
      <4>2. \A x \in Hold(f, q.gen[k].rule) : New(x) BY <2>2, <2>4, <3>2
      <4> QED BY <1>11, <4>1, <4>2
    <3>3. CASE i \notin DOMAIN r.gen /\ k \in DOMAIN r.gen
      <4>1. \A x \in Hold(f, q.gen[k].rule) : Used(g, groups, r, n - 1, x) BY <2>3, <2>4, <3>3
      <4>2. \A x \in Hold(f, q.gen[i].rule) : New(x) BY <2>2, <2>4, <3>3
      <4> QED BY <1>11, <4>1, <4>2
    <3>4. ~(i \notin DOMAIN r.gen /\ k \notin DOMAIN r.gen) BY <1>1, <1>12, <2>4
    <3> QED BY <3>1, <3>2, <3>3, <3>4
  <2>5. Disjoint(f, q.gen) BY <2>4 DEF Disjoint
  <2>6. ASSUME NEW k \in DOMAIN q.gen, Mine(f, q.gen[k]), NEW x \in Hold(f, q.gen[k].rule)
        PROVE  Used(g, groups, q, n, x)
    <3>1. CASE k \in DOMAIN r.gen BY <1>9, <2>3, <2>6, <3>1
    <3>2. CASE k \notin DOMAIN r.gen BY <1>8, <2>2, <2>6, <3>2
    <3> QED BY <3>1, <3>2
  <2> QED BY <2>5, <2>6
<1>13. \A x \in q.empty : ~PinnedIn(f, x.name) BY <1>1 DEF Grouped, Sound
<1>14. Sound(f, q) BY <1>1, <1>3, <1>12, <1>13 DEF Sound
<1> QED BY <1>6, <1>12, <1>14 DEF Grouped

\* The rule of a group, with its files, those that are kept and the data they import.
LEMMA AddFilesOK ==
    ASSUME NEW f, NEW g, NEW groups, NEW r, NEW n \in Nat \ {0},
           Grouped(f, g, groups, r, n - 1),
           NEW t, NEW found, NEW name, NEW own, NEW generated, NEW assets, NEW srcs,
           \A x \in own \cup generated \cup assets :
               SourceGroup(g, groups, x) = n \/ AssetGroup(g, groups, x) = n,
           srcs = GroupSrcs(g, r.file, name, own, generated),
           NEW q, q = AddFiles(g, r, t, found, name, srcs, generated, assets)
    PROVE  Grouped(f, g, groups, q, n)
<1>1. Sound(f, r) /\ GenFields \subseteq DOMAIN r BY DEF Grouped, Sound
<1>2. \A x : Used(g, groups, r, n - 1, x) => Used(g, groups, r, n, x) BY DEF Used
<1>3. Grouped(f, g, groups, r, n) BY <1>2 DEF Grouped
<1>4. CASE q = r BY <1>3, <1>4
<1>5. CASE ~HasPinned(r.file, name) /\ q = RemoveRule(r, name)
  <2>1. CASE ~IsManaged(r.file, name)
    <3>1. q = r BY <1>5, <2>1 DEF RemoveRule
    <3> QED BY <1>3, <3>1
  <2>2. CASE IsManaged(r.file, name)
    <3>1. PICK empty : empty = r.empty \cup {[name |-> name, kind |-> r.file[name].kind]} OBVIOUS
    <3>2. q = [r EXCEPT !.empty = empty] BY <1>5, <2>2, <3>1 DEF RemoveRule
    <3>3. /\ DOMAIN q = DOMAIN r /\ q.gen = r.gen /\ q.file = r.file /\ q.data = r.data
          /\ q.error = r.error /\ q.empty = empty
      BY <1>1, <3>2 DEF GenFields
    <3>4. ~PinnedIn(r.file, name) BY <1>5, <2>2 DEF HasPinned, PinnedIn
    <3>5. ~PinnedIn(f, name) BY <1>1, <3>4 DEF Sound, SameUser
    <3>6. \A x \in empty : ~PinnedIn(f, x.name) BY <1>1, <3>1, <3>5 DEF Sound
    <3>7. Sound(f, q) BY <1>1, <3>3, <3>6 DEF Sound
    <3>8. \A x : Used(g, groups, r, n, x) => Used(g, groups, q, n, x) BY <3>3 DEF Used
    <3> QED BY <1>3, <3>3, <3>7, <3>8 DEF Grouped
  <2> QED BY <2>1, <2>2
<1> DEFINE extra == IF HasPinned(r.file, name) THEN {} ELSE generated
           p == Project(g, t, found, name, srcs, extra, assets)
<1>6. CASE q = AddProjectRule(g, r, p)
  <2> DEFINE taken == Imported(g, r.data, p.imports)
             given == [r EXCEPT !.data = WithoutData(@, taken)]
             more == [p EXCEPT !.sources = @ \cup taken]
             kind == KindOf(p.sources \cup taken)
  <2>1. q = EmitProject(g, given, more, kind)
    BY <1>6 DEF AddProjectRule, AddWithData
  <2>2. taken \subseteq r.data \ {Blank} BY DEF Imported
  <2>3. more.name = name /\ more.sources = srcs \cup extra \cup assets \cup taken
    BY DEF Project
  <2> HIDE DEF taken, p, kind, more
  <2>4. /\ DOMAIN given = DOMAIN r /\ given.gen = r.gen /\ given.file = r.file
        /\ given.empty = r.empty /\ given.error = r.error
        /\ given.data = WithoutData(r.data, taken)
    BY <1>1 DEF GenFields
  <2>5. GenFields \subseteq DOMAIN given /\ EntriesOK(given.gen) /\ FileOK(given.file)
    BY <1>1, <2>4 DEF Sound
  <2> HIDE DEF given
  <2>6. Joined(given, more, kind, q) BY <2>1, <2>5, EmitProjectOK
  <2>7. ASSUME name \in DOMAIN r.file, r.file[name].kind \in SourceKinds,
               ~PinnedIn(r.file, name), NEW x \in more.sources \ KeptIn(r.file, name)
        PROVE  SourceGroup(g, groups, x) = n \/ AssetGroup(g, groups, x) = n \/ x \in taken
    <3>1. IsManaged(r.file, name) /\ ~HasPinned(r.file, name)
      BY <2>7 DEF IsManaged, HasPinned, PinnedIn
    <3>2. srcs = own \cup ((r.file[name].kept \cap Files(g)) \ generated)
      BY <3>1 DEF GroupSrcs
    <3>3. KeptIn(r.file, name) = r.file[name].kept BY <2>7 DEF KeptIn
    <3> QED BY <2>3, <2>7, <3>1, <3>2, <3>3
  <2>8. ASSUME name \notin DOMAIN r.file, NEW x \in more.sources
        PROVE  SourceGroup(g, groups, x) = n \/ AssetGroup(g, groups, x) = n \/ x \in taken
    <3>1. ~IsManaged(r.file, name) /\ ~HasPinned(r.file, name)
      BY <2>8 DEF IsManaged, HasPinned
    <3>2. srcs = own BY <3>1 DEF GroupSrcs
    <3> QED BY <2>3, <2>8, <3>1, <3>2
  <2> HIDE DEF extra
  <2> QED BY <2>2, <2>3, <2>4, <2>5, <2>6, <2>7, <2>8, NextGroup
<1>7. q = r \/ (~HasPinned(r.file, name) /\ q = RemoveRule(r, name)) \/ q = AddProjectRule(g, r, p)
  BY Zenon DEF AddFiles
<1> QED BY <1>4, <1>5, <1>6, <1>7

\* The groups, one after the other.
GroupBase(g, configs, r) ==
    [r EXCEPT !.lang.tsConfigs = configs.tsConfigs, !.data = DataFiles(g, configs.groups)]
GroupStep(g, configs, r, q, i) == AddGroup(g, configs.groups, q, i)
GroupGood(g, configs, r, q, i) == Grouped(r.file, g, configs.groups, q, i)
Grouping == INSTANCE Iteration WITH Base <- GroupBase, Step <- GroupStep, Good <- GroupGood

\* The rules of all groups are sound.
LEMMA AddGroupsOK ==
    ASSUME NEW g, NEW configs, NEW r, Sound(r.file, r), ConfigOK(g.cfg),
           \A k \in DOMAIN r.gen : ~Mine(r.file, r.gen[k])
    PROVE  Sound(r.file, AddGroups(g, configs, r))
<1> DEFINE N == Len(g.cfg.targets)
<1>1. N \in Nat BY AnySeqLen DEF ConfigOK
<1>2. AddGroups(g, configs, r) = Grouping!Upto(g, configs, r, N)
  BY Zenon DEF AddGroups, Grouping!Upto, GroupBase, GroupStep
<1>3. GroupGood(g, configs, r, GroupBase(g, configs, r), 0)
  <2>1. PICK q : q = GroupBase(g, configs, r) OBVIOUS
  <2>2. PICK ext : ext = [r.lang EXCEPT !.tsConfigs = configs.tsConfigs] OBVIOUS
  <2>3. PICK data : data = DataFiles(g, configs.groups) OBVIOUS
  <2>4. q = [r EXCEPT !.lang = ext, !.data = data] BY <2>1, <2>2, <2>3 DEF GroupBase
  <2>5. /\ DOMAIN q = DOMAIN r /\ q.gen = r.gen /\ q.file = r.file /\ q.data = data
        /\ q.error = r.error /\ q.empty = r.empty
    BY <2>4 DEF Sound, GenFields
  <2>6. Sound(r.file, q) BY <2>5 DEF Sound
  <2> QED BY <2>1, <2>3, <2>5, <2>6 DEF GroupGood, Grouped
<1> HIDE DEF N
<1>4. ASSUME NEW i \in 1..N, NEW p, GroupGood(g, configs, r, p, i - 1)
      PROVE  GroupGood(g, configs, r, GroupStep(g, configs, r, p, i), i)
  <2> DEFINE groups == configs.groups
             t == g.cfg.targets[i]
             name == RenderSourceTargetName(g.cfg, t.name, HasPackageTarget(g))
             Of(files) == {f \in files : SourceGroup(g, groups, f) = i}
             own == Of(Files(g))
             generated == Of(Generated(g))
             assets == {f \in Files(g) \cup Generated(g) : AssetGroup(g, groups, f) = i}
             srcs == GroupSrcs(g, p.file, name, own, generated)
             q == AddFiles(g, p, t, groups[t.name], name, srcs, generated, assets)
  <2>1. GroupStep(g, configs, r, p, i) = q BY Zenon DEF GroupStep, AddGroup, AddNamed
  <2>2. \A x \in own \cup generated \cup assets :
           SourceGroup(g, groups, x) = i \/ AssetGroup(g, groups, x) = i
    OBVIOUS
  <2>3. i \in Nat \ {0} BY <1>1
  <2>4. Grouped(r.file, g, groups, p, i - 1) BY <1>4 DEF GroupGood
  <2>5. PICK x : x = srcs OBVIOUS
  <2>6. PICK y : y = q OBVIOUS
  <2> HIDE DEF own, generated, assets, name, t
  <2>7. y = AddFiles(g, p, t, groups[t.name], name, x, generated, assets) BY <2>5, <2>6
  <2> HIDE DEF q
  <2>8. x = GroupSrcs(g, p.file, name, own, generated) BY <2>5
  <2> HIDE DEF srcs
  <2>9. Grouped(r.file, g, groups, y, i) BY <2>2, <2>3, <2>4, <2>7, <2>8, AddFilesOK
  <2> QED BY <2>1, <2>6, <2>9 DEF GroupGood
<1>5. GroupGood(g, configs, r, Grouping!Upto(g, configs, r, N), N) BY <1>1, <1>3, <1>4, Grouping!Invariance, Zenon
<1> QED BY <1>2, <1>5 DEF GroupGood, Grouped

\* What is generated for a directory is sound.
LEMMA GenerateRulesOK ==
    ASSUME NEW g, NEW f, FileOK(f), ConfigOK(g.cfg)
    PROVE  Sound(f, GenerateRules(g, f))
<1>1. PICK nothing :
        /\ GenFields \subseteq DOMAIN nothing
        /\ nothing.file = f /\ nothing.gen = <<>> /\ nothing.empty = {} /\ ~nothing.error
        /\ \/ GenerateRules(g, f) = nothing
           \/ GenerateRules(g, f) = AddTsConfigRules(g, AddSourceRules(g, AddPackageRules(g, nothing)))
  <2> DEFINE labels == CollectFileLabels(g.lang.labels, g.rel, g.tree.gen[g.rel], g.tree.files[g.rel])
             lang0 == [g.lang EXCEPT !.labels = labels]
             none == [lang |-> lang0, file |-> f, gen |-> <<>>,
                      empty |-> {}, rels |-> {}, data |-> {}, made |-> <<>>, error |-> FALSE]
  <2>1. \/ GenerateRules(g, f) = none
        \/ GenerateRules(g, f) = AddTsConfigRules(g, AddSourceRules(g, AddPackageRules(g, none)))
    BY Zenon DEF GenerateRules
  <2>2. /\ GenFields \subseteq DOMAIN none
        /\ none.file = f /\ none.gen = <<>> /\ none.empty = {} /\ ~none.error
    <3> HIDE DEF lang0
    <3> QED BY DEF GenFields
  <2> HIDE DEF none
  <2> QED BY <2>1, <2>2, Zenon
<1>2. EntriesOK(<<>>)
  <2>1. <<>> \in Seq({}) OBVIOUS
  <2>2. AnySeq(<<>>) BY <2>1, AnySeqIn
  <2> QED BY <2>2 DEF EntriesOK
<1>3. SameUser(f, f) BY DEF SameUser
<1>4. Sound(f, nothing) BY <1>1, <1>2, <1>3 DEF Sound, Disjoint
<1>5. PICK r : r = AddPackageRules(g, nothing) OBVIOUS
<1>6. Sound(f, r) /\ r.file = f /\ \A k \in DOMAIN r.gen : ~Mine(f, r.gen[k])
  <2>1. CASE r = nothing BY <1>1, <1>4, <2>1
  <2>2. CASE r # nothing
    <3>1. PICK rule : rule = NewRule("npm_link_all_packages", LinkAll) OBVIOUS
    <3>2. PICK info : info = NewInfo("") OBVIOUS
    <3>3. PICK rels : r = Emit(nothing, rule, info, rels)
      BY <1>5, <2>2, <3>1, <3>2, Zenon DEF AddPackageRules
    <3>4. /\ RuleOK(rule) /\ ~IsPinned(rule) /\ rule.kept = {} /\ rule.kind \notin SourceKinds
      BY <3>1, NewRuleOK DEF SourceKinds
    <3>5. Sound(f, r) BY <1>4, <3>3, <3>4, EmitOther
    <3>6. /\ r.file = nothing.file
          /\ \A i \in DOMAIN r.gen :
                \/ i \in DOMAIN nothing.gen /\ r.gen[i] = nothing.gen[i]
                \/ i \notin DOMAIN nothing.gen /\ r.gen[i] = [rule |-> rule, info |-> info]
      BY <1>1, <1>2, <3>3, <3>4, EmitOK
    <3>7. \A i \in DOMAIN r.gen : r.gen[i] = [rule |-> rule, info |-> info] BY <1>1, <3>6
    <3>8. ~Mine(f, [rule |-> rule, info |-> info]) BY <3>4 DEF Mine
    <3> QED BY <1>1, <3>5, <3>6, <3>7, <3>8
  <2> QED BY <2>1, <2>2
<1>7. Sound(f, AddSourceRules(g, r))
  <2>1. Sound(f, AddGroups(g, GroupConfigs(g), r)) BY <1>6, AddGroupsOK
  <2> QED BY <2>1, AddPackageOK DEF AddSourceRules
<1>8. Sound(f, AddTsConfigRules(g, AddSourceRules(g, r))) BY <1>7, AddTsConfigRulesOK
<1> QED BY <1>1, <1>4, <1>5, <1>8

\* What is merged into a file for the first time.
LEMMA GeneratedOK ==
    ASSUME NEW f, NEW r, Sound(f, r), ~r.error, NEW e, NEW F, NEW m,
           e = MergeEmpty(r.file, r.empty, "PreResolve"),
           F = MergeFile(r.file, r.empty, Rules(r.gen), "PreResolve"),
           m.gen = r.gen, m.empty = r.empty, m.fate = Fates(e, r.gen)
    PROVE  DirOK(m, F)
<1> DEFINE rules == Rules(r.gen)
<1>0. /\ EntriesOK(r.gen) /\ FileOK(r.file) /\ SameUser(f, r.file)
      /\ \A x \in r.empty : ~PinnedIn(f, x.name)
      /\ Disjoint(f, r.gen)
  BY DEF Sound
<1>1. DOMAIN rules = DOMAIN r.gen /\ \A k \in DOMAIN rules : rules[k] = r.gen[k].rule BY DEF Rules
<1>2. Len(r.gen) \in Nat /\ DOMAIN r.gen = 1..Len(r.gen) BY <1>0, AnySeqLen DEF EntriesOK
<1>3. AnySeq(rules)
  <2>1. rules = [k \in 1..Len(r.gen) |-> rules[k]] BY <1>2 DEF Rules
  <2> HIDE DEF rules
  <2> QED BY <1>2, <2>1, AnySeqOf
<1>4. DOMAIN m.fate = DOMAIN rules /\ \A k \in DOMAIN rules : m.fate[k] = Match(e, rules[k])
  BY <1>1 DEF Fates
<1> HIDE DEF rules
<1>5. GenOK(rules) BY <1>0, <1>1, <1>3 DEF GenOK, EntriesOK
<1>6. \A x \in r.empty : ~PinnedIn(r.file, x.name) BY <1>0 DEF SameUser
<1>7. F = MergeFile(r.file, r.empty, rules, "PreResolve") BY DEF rules
<1>8. /\ FileOK(e) /\ FileOK(F) /\ SameUser(r.file, F) /\ KeepsUsers(e, F)
      /\ Apart(rules) => \A k \in DOMAIN rules :
             Places(e, rules[k]) => Merged(e, rules[k], "PreResolve", F)
  <2>1. PICK h : h = r.file OBVIOUS
  <2>2. PICK x : x = r.empty OBVIOUS
  <2>3. /\ e = MergeEmpty(h, x, "PreResolve") /\ F = MergeFile(h, x, rules, "PreResolve")
        /\ FileOK(h) /\ \A y \in x : ~PinnedIn(h, y.name)
    BY <1>0, <1>6, <1>7, <2>1, <2>2
  <2>4. /\ FileOK(e) /\ FileOK(F) /\ SameUser(h, F) /\ KeepsUsers(e, F)
        /\ Apart(rules) => \A k \in DOMAIN rules :
               Places(e, rules[k]) => Merged(e, rules[k], "PreResolve", F)
    BY <1>5, <2>3, MergeFileOK
  <2> QED BY <2>1, <2>4
<1>9. SameUser(f, F) BY <1>0, <1>8 DEF SameUser
<1>10. Disjoint(F, r.gen) BY <1>0, <1>9, DisjointSame
<1>11. \A x \in r.empty : ~PinnedIn(F, x.name) BY <1>0, <1>9 DEF SameUser
<1>12. ASSUME NEW k \in DOMAIN rules, m.fate[k][1] = "insert"
       PROVE  /\ m.fate[k][2] = rules[k].name
              /\ ~PinnedIn(F, rules[k].name) /\ KeptIn(F, rules[k].name) = {}
  <2>1. PICK x : x = m.fate[k] OBVIOUS
  <2>2. x = Match(e, rules[k]) BY <1>4, <2>1
  <2>3. x[2] = rules[k].name /\ rules[k].name \notin DOMAIN e BY <1>12, <2>1, <2>2, MatchOK
  <2> QED BY <1>8, <2>1, <2>3 DEF KeepsUsers, PinnedIn, KeptIn
<1>13. AllOwned(F, m.fate, rules)
  <2> SUFFICES ASSUME Apart(rules), NEW k \in DOMAIN rules, NEW rule, rule = rules[k],
                      rule.kind \in SourceKinds, m.fate[k][1] # "skip"
               PROVE  m.fate[k][2] = rule.name /\ Owned(F, rule)
    BY DEF AllOwned
  <2>1. PICK x : x = m.fate[k] OBVIOUS
  <2>2. x = Match(e, rule) /\ x[1] # "skip" BY <1>4, <2>1
  <2>3. x[2] = rule.name BY <2>2, MatchOK
  <2>4. Places(e, rule) BY <2>2 DEF Places
  <2>5. Merged(e, rule, "PreResolve", F) BY <1>8, <2>4
  <2>6. RuleOK(rule) /\ rule.kept = {} BY <1>5 DEF GenOK
  <2>7. Owned(F, rule) BY <1>8, <2>4, <2>5, <2>6, FirstMerge
  <2> QED BY <2>1, <2>3, <2>7
<1>14. \A k \in DOMAIN r.gen :
          m.fate[k][1] = "insert" => /\ m.fate[k][2] = r.gen[k].rule.name
                                     /\ ~PinnedIn(F, r.gen[k].rule.name)
                                     /\ KeptIn(F, r.gen[k].rule.name) = {}
  BY <1>1, <1>12
<1> QED BY <1>5, <1>8, <1>10, <1>11, <1>13, <1>14 DEF DirOK, rules

\* A rule that is resolved is the same, but for what it depends on.
LEMMA ResolvedSame ==
    ASSUME NEW v, NEW rule, NEW info, RuleOK(rule)
    PROVE  SameRule(rule, Resolve(v, rule, info).rule)
<1>1. ASSUME NEW found, NEW lib
      PROVE  SameRule(rule, WithImports(rule, info, found, lib))
  <2>1. PICK q, refs, files, own, deps :
           /\ q = WithImports(rule, info, found, lib)
           /\ \/ q = rule
              \/ q = [rule EXCEPT !.refs = refs]
              \/ q = [rule EXCEPT !.refs = files, !.deps = own]
              \/ q = [rule EXCEPT !.deps = deps]
    <3>1. PICK q : q = WithImports(rule, info, found, lib) OBVIOUS
    <3>2. PICK refs : refs = found.deps \cup found.files \cup info.source OBVIOUS
    <3>3. PICK files : files = found.files OBVIOUS
    <3>4. PICK own : own = found.deps \cup info.source OBVIOUS
    <3>5. PICK deps : deps = found.deps \cup found.files \cup info.static \cup lib OBVIOUS
    <3>6. \/ q = rule
          \/ q = [rule EXCEPT !.refs = refs]
          \/ q = [rule EXCEPT !.refs = files, !.deps = own]
          \/ q = [rule EXCEPT !.deps = deps]
      BY <3>1, <3>2, <3>3, <3>4, <3>5, Zenon DEF WithImports
    <3> QED BY <3>1, <3>6, Zenon
  <2>2. SameRule(rule, q)
    <3>1. CASE q = rule BY <3>1 DEF SameRule
    <3>2. CASE q = [rule EXCEPT !.refs = refs] BY <3>2 DEF SameRule, RuleOK, RuleFields
    <3>3. CASE q = [rule EXCEPT !.refs = files, !.deps = own]
      BY <3>3 DEF SameRule, RuleOK, RuleFields
    <3>4. CASE q = [rule EXCEPT !.deps = deps] BY <3>4 DEF SameRule, RuleOK, RuleFields
    <3> QED BY <2>1, <3>1, <3>2, <3>3, <3>4
  <2> QED BY <2>1, <2>2
<1> QED BY <1>1 DEF Resolve, ResolvedRule

(***************************************************************************)
(* The walk.                                                               *)
(***************************************************************************)

\* The directories an operation has been done for before a step.
Done(op, n) == {Walk[i].dir : i \in {i \in 1..(n - 1) : Walk[i].op = op}}

\* The steps of a walk.
LEMMA WalkOK ==
    /\ Len(Walk) \in Nat
    /\ \A i \in 1..Len(Walk) : /\ Walk[i].op \in {"configure", "generate", "resolve"}
                               /\ Walk[i].dir \in Dirs
<1> DEFINE S == [op : {"configure", "generate", "resolve"}, dir : Dirs]
<1>1. Walk \in Seq(S) BY WalkAssumption
<1>2. \A s \in S : s.op \in {"configure", "generate", "resolve"} /\ s.dir \in Dirs OBVIOUS
<1> HIDE DEF S
<1> QED BY <1>1, <1>2

\* The first step of a kind for a directory is one, and no other comes before it.
LEMMA StepOfOK ==
    ASSUME NEW op, NEW d, 0 < StepOf(op, d)
    PROVE  /\ StepOf(op, d) \in 1..Len(Walk)
           /\ Walk[StepOf(op, d)].op = op /\ Walk[StepOf(op, d)].dir = d
           /\ \A i \in 1..Len(Walk) : Walk[i].op = op /\ Walk[i].dir = d => StepOf(op, d) <= i
<1> DEFINE S == {i \in 1..Len(Walk) : Walk[i].op = op /\ Walk[i].dir = d}
<1>1. StepOf(op, d) = IF S # {} THEN Min(S) ELSE 0 BY DEF StepOf, SelectInSeq
<1>2. S \subseteq Nat BY WalkOK
<1> HIDE DEF S
<1>3. S # {}
  <2>1. CASE S = {}
    <3>1. StepOf(op, d) = 0 BY <1>1, <2>1
    <3> QED BY <3>1
  <2> QED BY <2>1
<1>4. \E x \in S : \A y \in S : x <= y
  <2>1. IsWellFoundedOn(OpToRel(<, Nat), Nat) BY NatLessThanWellFounded
  <2>2. PICK x \in S : \A y \in S : ~ (<<y, x>> \in OpToRel(<, Nat)) BY <1>2, <1>3, <2>1, WFMin
  <2>3. \A y \in S : ~ (y < x) BY <1>2, <2>2 DEF OpToRel
  <2> HIDE <2>1
  <2> QED BY <1>2, <2>3
<1>5. Min(S) \in S /\ \A y \in S : Min(S) <= y BY <1>4 DEF Min
<1>6. StepOf(op, d) \in S /\ \A y \in S : StepOf(op, d) <= y BY <1>1, <1>3, <1>5
<1> QED BY <1>6 DEF S

\* What comes before a step has been done when it is taken.
LEMMA DoneBefore ==
    ASSUME NEW op, NEW d, NEW n \in Nat, 0 < StepOf(op, d), StepOf(op, d) < n
    PROVE  d \in Done(op, n)
<1>1. /\ StepOf(op, d) \in 1..Len(Walk)
      /\ Walk[StepOf(op, d)].op = op /\ Walk[StepOf(op, d)].dir = d
  BY StepOfOK
<1>2. PICK i : i = StepOf(op, d) OBVIOUS
<1>3. i \in 1..(n - 1) /\ Walk[i].op = op /\ Walk[i].dir = d BY <1>1, <1>2, WalkOK
<1> QED BY <1>3 DEF Done

\* What a step adds to what has been done.
LEMMA DoneStep ==
    ASSUME NEW op, NEW n \in Nat \ {0}
    PROVE  /\ Walk[n].op = op => Done(op, n + 1) = Done(op, n) \cup {Walk[n].dir}
           /\ Walk[n].op # op => Done(op, n + 1) = Done(op, n)
<1>1. \A i : i \in 1..((n + 1) - 1) <=> i \in 1..(n - 1) \/ i = n OBVIOUS
<1> QED BY <1>1 DEF Done

\* Each directory is configured after the one above it, generated after it is configured
\* and resolved after all are generated.
LEMMA WalkOrder ==
    ASSUME NEW n \in 1..Len(Walk), NEW d, d = Walk[n].dir
    PROVE  /\ d \in Dirs
           /\ Walk[n].op = "configure" /\ d # <<>> => Front(d) \in Done("configure", n)
           /\ Walk[n].op = "generate" => d \in Done("configure", n)
           /\ Walk[n].op = "resolve" => d \in Done("configure", n) /\ d \in Done("generate", n)
<1>0. d \in Dirs /\ n \in Nat /\ Len(Walk) \in Nat BY WalkOK
<1>1. ASSUME NEW op \in {"configure", "generate", "resolve"}, Walk[n].op = op
      PROVE  0 < StepOf(op, d) /\ StepOf(op, d) <= n /\ StepOf(op, d) \in Nat
  <2>1. 0 < StepOf(op, d) BY <1>0, WalkAssumption
  <2>2. StepOf(op, d) <= n /\ StepOf(op, d) \in 1..Len(Walk) BY <1>1, <2>1, StepOfOK
  <2> QED BY <1>0, <2>1, <2>2
<1>2. ASSUME NEW op \in {"configure", "generate", "resolve"}, NEW x \in Dirs,
             NEW s, s \in Nat, s <= n, StepOf(op, x) < s
      PROVE  x \in Done(op, n)
  <2>1. 0 < StepOf(op, x) BY WalkAssumption
  <2>2. StepOf(op, x) \in 1..Len(Walk) BY <2>1, StepOfOK
  <2>3. StepOf(op, x) < n BY <1>0, <1>2, <2>2
  <2> QED BY <1>0, <2>1, <2>3, DoneBefore
<1>3. ASSUME Walk[n].op = "configure", d # <<>>
      PROVE  Front(d) \in Done("configure", n)
  <2>1. /\ Front(d) \in Dirs
        /\ StepOf("configure", Front(d)) < StepOf("configure", d)
    BY <1>0, <1>3, WalkAssumption
  <2> QED BY <1>1, <1>2, <1>3, <2>1
<1>4. ASSUME Walk[n].op = "generate"
      PROVE  d \in Done("configure", n)
  <2>1. StepOf("configure", d) < StepOf("generate", d) BY <1>0, WalkAssumption
  <2> QED BY <1>0, <1>1, <1>2, <1>4, <2>1
<1>5. ASSUME Walk[n].op = "resolve"
      PROVE  d \in Done("configure", n) /\ d \in Done("generate", n)
  <2>1. StepOf("generate", d) < StepOf("resolve", d) BY <1>0, WalkAssumption
  <2>2. StepOf("configure", d) < StepOf("generate", d) BY <1>0, WalkAssumption
  <2>3. d \in Done("generate", n) BY <1>0, <1>1, <1>2, <1>5, <2>1
  <2>4. StepOf("generate", d) \in 1..Len(Walk) BY <1>0, WalkAssumption, StepOfOK
  <2>5. StepOf("generate", d) \in Nat /\ StepOf("generate", d) <= n
    BY <1>0, <1>1, <1>5, <2>1, <2>4
  <2>6. d \in Done("configure", n) BY <1>0, <1>2, <2>2, <2>5
  <2> QED BY <2>3, <2>6
<1> QED BY <1>0, <1>3, <1>4, <1>5

(***************************************************************************)
(* The runs.                                                               *)
(***************************************************************************)

\* The types of the state, with what has been done so far.
Phases ==
    /\ world \in World /\ edits \in 0..MaxEdits /\ todo \in 0..(Len(Walk) + 1)
    /\ outcome \in {"none", "done", "failed"}
    /\ DOMAIN cfg = Done("configure", todo)
    /\ DOMAIN made = Done("generate", todo)
    /\ ~Running => lang = NewLanguage /\ file = <<>>

\* Every directory has a file of well-formed rules.
FilesOK(files) == DOMAIN files = Dirs /\ \A d \in Dirs : FileOK(files[d])

\* The inductive invariant.
IInv ==
    /\ Phases
    /\ FilesOK(build)
    /\ Running => FilesOK(file)
    /\ \A d \in DOMAIN cfg : ConfigOK(cfg[d])
    /\ \A d \in DOMAIN made : DirOK(made[d], file[d])

\* Nothing is done before the first step.
LEMMA DoneNone == ASSUME NEW op PROVE Done(op, 0) = {} /\ Done(op, 1) = {}
BY DEF Done

\* What a world's BUILD files begin with.
LEMMA RulesOfWorlds ==
    ASSUME NEW w \in World, NEW d \in Dirs, NEW n \in DOMAIN InitBuild(w)[d]
    PROVE  InitBuild(w)[d][n].name = n /\ DOMAIN InitBuild(w)[d][n] = DOMAIN NewRule(n, n)
BY WorldAssumption

\* At first there are the BUILD files.
LEMMA JsInitOK == Init => IInv
<1> SUFFICES ASSUME Init PROVE IInv OBVIOUS
<1>1. DOMAIN cfg = {} /\ DOMAIN made = {} BY DEF Init
<1>2. Phases
  <2>1. MaxEdits \in Nat BY WorldAssumption
  <2>2. 0 \in 0..MaxEdits /\ 0 \in 0..(Len(Walk) + 1) BY <2>1, WalkOK
  <2> QED BY <1>1, <2>2, DoneNone DEF Init, Phases, Running
<1>3. FilesOK(build)
  <2>1. build = InitBuild(world) /\ world \in World BY DEF Init
  <2>2. DOMAIN build = Dirs BY <2>1, WorldAssumption
  <2>3. ASSUME NEW d \in Dirs, NEW n \in DOMAIN build[d]
        PROVE  RuleOK(build[d][n]) /\ build[d][n].name = n
    <3>1. build[d][n].name = n /\ DOMAIN build[d][n] = DOMAIN NewRule(n, n)
      BY <2>1, <2>3, RulesOfWorlds
    <3>2. PICK r : r = NewRule(n, n) OBVIOUS
    <3>3. RuleOK(r) BY <3>2, NewRuleOK
    <3>4. RuleOK(build[d][n]) BY <3>1, <3>2, <3>3 DEF RuleOK
    <3> QED BY <3>1, <3>4
  <2> QED BY <2>2, <2>3 DEF FilesOK, FileOK
<1>4. ~Running BY DEF Init, Running
<1> QED BY <1>1, <1>2, <1>3, <1>4 DEF IInv

\* A run is over, and nothing is left of it.
LEMMA FinishOK ==
    ASSUME IInv, NEW result, result \in {"done", "failed"}, NEW written, FilesOK(written),
           Finish(result, written)
    PROVE  IInv'
<1>1. /\ outcome' = result /\ build' = written /\ todo' = 0 /\ lang' = NewLanguage
      /\ cfg' = <<>> /\ file' = <<>> /\ made' = <<>> /\ world' = world /\ edits' = edits
  BY DEF Finish
<1>2. DOMAIN cfg' = {} /\ DOMAIN made' = {} BY <1>1
<1>3. Done("configure", todo') = {} /\ Done("generate", todo') = {} BY <1>1, DoneNone
<1>4. Phases' BY <1>1, <1>2, <1>3, WalkOK DEF IInv, Phases, Running, Done, NewLanguage
<1>5. FilesOK(build)' BY <1>1 DEF FilesOK, FileOK, RuleOK
<1>6. ~Running' BY <1>1 DEF Running
<1> QED BY <1>2, <1>4, <1>5, <1>6 DEF IInv

\* A step of the walk is in a directory.
LEMMA AtOK ==
    ASSUME IInv, NEW op, At(op)
    PROVE  /\ todo \in 1..Len(Walk) /\ todo \in Nat \ {0} /\ Walk[todo].op = op /\ dir \in Dirs
           /\ Running /\ FilesOK(file)
BY WalkOK DEF IInv, Phases, At, Running, dir

\* A run begins with the BUILD files.
LEMMA StartOK == ASSUME IInv, Start PROVE IInv'
<1>1. /\ ~Running /\ todo' = 1 /\ file' = build
      /\ UNCHANGED <<world, build, edits, outcome, lang, cfg, made>>
  BY DEF Start
<1>2. todo = 0 BY <1>1 DEF Running
<1>3. DOMAIN cfg' = {} /\ DOMAIN made' = {} BY <1>1, <1>2, DoneNone DEF IInv, Phases
<1>4. Phases' BY <1>1, <1>2, <1>3, DoneNone, WalkOK DEF IInv, Phases, Running, Done
<1>5. FilesOK(build)' /\ FilesOK(file)' BY <1>1 DEF IInv, FilesOK, FileOK, RuleOK
<1> QED BY <1>3, <1>4, <1>5 DEF IInv

\* A directory is configured.
LEMMA ConfigureDirOK == ASSUME IInv, ConfigureDir PROVE IInv'
<1>0. At("configure") BY DEF ConfigureDir
<1>1. PICK d : d = dir OBVIOUS
<1>2. /\ todo \in 1..Len(Walk) /\ todo \in Nat \ {0} /\ Walk[todo].op = "configure" /\ d \in Dirs
      /\ d = Walk[todo].dir /\ Running /\ FilesOK(file)
  BY <1>0, <1>1, AtOK DEF dir
<1>3. PICK parent : parent = IF d = <<>> THEN RootConfig ELSE cfg[Front(d)] OBVIOUS
<1>4. PICK read : read = Configure(parent, d, tree.directives[d]) OBVIOUS
<1>5. PICK c : c = read.config OBVIOUS
<1>6. /\ cfg' = Put(cfg, d, c) /\ todo' = todo + 1
      /\ UNCHANGED <<world, build, edits, outcome, file, made>>
  BY <1>1, <1>3, <1>4, <1>5, Zenon DEF ConfigureDir
<1>7. ConfigOK(c)
  <2>1. PICK ds : ds = tree.directives[d] OBVIOUS
  <2>2. ds \in Seq(ToSet(ds)) BY <1>2, <2>1, WorldAssumption DEF IInv, Phases, tree
  <2>3. AnySeq(ds) BY <2>2, AnySeqIn
  <2>4. d # <<>> => ConfigOK(parent)
    <3>1. d # <<>> => Front(d) \in DOMAIN cfg BY <1>2, WalkOrder DEF IInv, Phases
    <3> QED BY <1>3, <3>1 DEF IInv
  <2>5. ConfigOK(Configure(parent, d, ds).config) BY <2>3, <2>4, ConfigureOK
  <2> QED BY <1>4, <1>5, <2>1, <2>5
<1>8. /\ DOMAIN cfg' = DOMAIN cfg \cup {d}
      /\ \A x \in DOMAIN cfg' : cfg'[x] = IF x = d THEN c ELSE cfg[x]
  BY <1>6 DEF Put
<1>9. \A x \in DOMAIN cfg' : ConfigOK(cfg'[x]) BY <1>7, <1>8 DEF IInv
<1>10. /\ DOMAIN cfg' = Done("configure", todo + 1)
       /\ DOMAIN made' = Done("generate", todo + 1)
  <2>1. Done("configure", todo + 1) = Done("configure", todo) \cup {d} BY <1>2, DoneStep
  <2>2. Done("generate", todo + 1) = Done("generate", todo) BY <1>2, DoneStep
  <2> QED BY <1>6, <1>8, <2>1, <2>2 DEF IInv, Phases
<1>11. Phases'
  <2>1. todo' \in 0..(Len(Walk) + 1) /\ todo' # 0 BY <1>2, <1>6, WalkOK
  <2>2. DOMAIN cfg' = Done("configure", todo)' /\ DOMAIN made' = Done("generate", todo)'
    BY <1>6, <1>10 DEF Done
  <2> QED BY <1>6, <2>1, <2>2 DEF IInv, Phases, Running
<1>12. FilesOK(build)' /\ FilesOK(file)'
  BY <1>2, <1>6 DEF IInv, FilesOK, FileOK, RuleOK
<1>13. \A x \in DOMAIN made' : DirOK(made'[x], file'[x]) BY <1>6 DEF IInv
<1> QED BY <1>9, <1>11, <1>12, <1>13 DEF IInv

\* The rules of a directory are generated and merged, or the run fails.
LEMMA GenerateDirOK == ASSUME IInv, GenerateDir PROVE IInv'
<1>0. At("generate") BY DEF GenerateDir
<1>1. PICK d : d = dir OBVIOUS
<1>2. /\ todo \in 1..Len(Walk) /\ todo \in Nat \ {0} /\ Walk[todo].op = "generate" /\ d \in Dirs
      /\ d = Walk[todo].dir /\ Running /\ FilesOK(file)
  BY <1>0, <1>1, AtOK DEF dir
<1>3. PICK f : f = file[d] OBVIOUS
<1>4. PICK order, g : g = [tree |-> tree, lang |-> lang, cfg |-> cfg[d], rel |-> d, order |-> order]
                      /\ \E r \in {GenerateRules(g, f)} :
                           IF lang.error \/ r.error \/ r.lang.labels.duplicate THEN Fail
                           ELSE /\ lang' = r.lang
                                /\ file' = [file EXCEPT ![d] =
                                                MergeFile(r.file, r.empty, Rules(r.gen), "PreResolve")]
                                /\ made' = Put(made, d,
                                       [gen |-> r.gen, empty |-> r.empty, rels |-> r.rels,
                                        fate |-> Fates(MergeEmpty(r.file, r.empty, "PreResolve"), r.gen)])
                                /\ todo' = todo + 1
                                /\ UNCHANGED <<world, build, edits, outcome, cfg>>
  BY <1>1, <1>3, Zenon DEF GenerateDir
<1>5. PICK r : r = GenerateRules(g, f) OBVIOUS
<1>6. PICK e : e = MergeEmpty(r.file, r.empty, "PreResolve") OBVIOUS
<1>7. PICK F : F = MergeFile(r.file, r.empty, Rules(r.gen), "PreResolve") OBVIOUS
<1>8. PICK m : m = [gen |-> r.gen, empty |-> r.empty, rels |-> r.rels, fate |-> Fates(e, r.gen)]
  OBVIOUS
<1>9. \/ Fail
      \/ /\ ~r.error
         /\ file' = [file EXCEPT ![d] = F] /\ made' = Put(made, d, m) /\ todo' = todo + 1
         /\ UNCHANGED <<world, build, edits, outcome, cfg>>
  BY <1>4, <1>5, <1>6, <1>7, <1>8, Zenon
<1>10. CASE Fail
  <2>1. Finish("failed", build) BY <1>10 DEF Fail
  <2> QED BY <2>1, FinishOK DEF IInv
<1>11. CASE /\ ~r.error
            /\ file' = [file EXCEPT ![d] = F] /\ made' = Put(made, d, m) /\ todo' = todo + 1
            /\ UNCHANGED <<world, build, edits, outcome, cfg>>
  <2>1. FileOK(f) BY <1>2, <1>3 DEF FilesOK
  <2>2. ConfigOK(g.cfg)
    <3>1. d \in DOMAIN cfg BY <1>2, WalkOrder DEF IInv, Phases
    <3>2. g.cfg = cfg[d] BY <1>4
    <3> QED BY <3>1, <3>2 DEF IInv
  <2>3. Sound(f, r) BY <1>5, <2>1, <2>2, GenerateRulesOK
  <2>4. m.gen = r.gen /\ m.empty = r.empty /\ m.fate = Fates(e, r.gen) BY <1>8
  <2>5. DirOK(m, F) BY <1>6, <1>7, <1>11, <2>3, <2>4, GeneratedOK
  <2>6. /\ DOMAIN made' = DOMAIN made \cup {d}
        /\ \A x \in DOMAIN made' : made'[x] = IF x = d THEN m ELSE made[x]
    BY <1>11 DEF Put
  <2>7. DOMAIN file' = Dirs /\ \A x \in Dirs : file'[x] = IF x = d THEN F ELSE file[x]
    BY <1>2, <1>11 DEF FilesOK
  <2>8. DOMAIN made \subseteq Dirs BY WalkOK, <1>2 DEF IInv, Phases, Done
  <2>9. \A x \in DOMAIN made' : DirOK(made'[x], file'[x])
    BY <1>2, <2>5, <2>6, <2>7, <2>8 DEF IInv
  <2>10. FileOK(F) BY <2>5 DEF DirOK
  <2>11. \A x \in Dirs : FileOK(file'[x]) BY <1>2, <2>7, <2>10 DEF FilesOK
  <2>12. Done("generate", todo + 1) = Done("generate", todo) \cup {d} BY <1>2, DoneStep
  <2>13. Done("configure", todo + 1) = Done("configure", todo) BY <1>2, DoneStep
  <2>14. DOMAIN cfg' = Done("configure", todo)' /\ DOMAIN made' = Done("generate", todo)'
    BY <1>11, <2>6, <2>12, <2>13 DEF IInv, Phases, Done
  <2>15. todo' \in 0..(Len(Walk) + 1) /\ todo' # 0 BY <1>2, <1>11, WalkOK
  <2>16. Phases' BY <1>11, <2>14, <2>15 DEF IInv, Phases, Running
  <2>17. FilesOK(file)' BY <2>7, <2>11 DEF FilesOK, FileOK, RuleOK
  <2>18. FilesOK(build)' BY <1>11 DEF IInv, FilesOK, FileOK, RuleOK
  <2>19. \A x \in DOMAIN cfg' : ConfigOK(cfg'[x]) BY <1>11 DEF IInv
  <2> QED BY <2>9, <2>16, <2>17, <2>18, <2>19 DEF IInv
<1> QED BY <1>9, <1>10, <1>11

\* The rules of a directory are resolved and merged again, or the run fails.
LEMMA ResolveDirOK == ASSUME IInv, ResolveDir PROVE IInv'
<1>0. At("resolve") BY DEF ResolveDir
<1>1. PICK d : d = dir OBVIOUS
<1>2. /\ todo \in 1..Len(Walk) /\ todo \in Nat \ {0} /\ Walk[todo].op = "resolve" /\ d \in Dirs
      /\ d = Walk[todo].dir /\ Running /\ FilesOK(file)
  BY <1>0, <1>1, AtOK DEF dir
<1>3. PICK f : f = file[d] OBVIOUS
<1>4. PICK m : m = made[d] OBVIOUS
<1>5. PICK resolved : resolved = ResolvedRules OBVIOUS
<1>6. PICK F : F = MergeFile(Replaced(f, m.fate, resolved), m.empty, Rules(resolved), "PostResolve")
  OBVIOUS
<1>7. \/ Fail
      \/ /\ file' = [file EXCEPT ![d] = F] /\ todo' = todo + 1
         /\ UNCHANGED <<world, build, edits, outcome, lang, cfg, made>>
  BY <1>1, <1>3, <1>4, <1>5, <1>6 DEF ResolveDir
<1>8. CASE Fail
  <2>1. Finish("failed", build) BY <1>8 DEF Fail
  <2> QED BY <2>1, FinishOK DEF IInv
<1>9. CASE /\ file' = [file EXCEPT ![d] = F] /\ todo' = todo + 1
           /\ UNCHANGED <<world, build, edits, outcome, lang, cfg, made>>
  <2>1. d \in DOMAIN made BY <1>2, WalkOrder DEF IInv, Phases
  <2>2. DirOK(m, f) BY <1>3, <1>4, <2>1 DEF IInv
  <2>3. PICK v : resolved = [k \in DOMAIN m.gen |-> Resolve(v, m.gen[k].rule, m.gen[k].info)]
    BY <1>1, <1>4, <1>5, Zenon DEF ResolvedRules
  <2>4. DOMAIN resolved = DOMAIN m.gen /\ resolved = [k \in DOMAIN resolved |-> resolved[k]]
    BY <2>3
  <2>5. \A k \in DOMAIN resolved : SameRule(m.gen[k].rule, resolved[k].rule)
    <3> TAKE k \in DOMAIN resolved
    <3>1. resolved[k] = Resolve(v, m.gen[k].rule, m.gen[k].info) BY <2>3, <2>4
    <3>2. RuleOK(m.gen[k].rule) BY <2>2, <2>4 DEF DirOK, GenOK, Rules
    <3> QED BY <3>1, <3>2, ResolvedSame
  <2>6. DirOK(m, F) BY <1>6, <2>2, <2>4, <2>5, MergedAgainOK
  <2>7. DOMAIN file' = Dirs /\ \A x \in Dirs : file'[x] = IF x = d THEN F ELSE file[x]
    BY <1>2, <1>9 DEF FilesOK
  <2>8. DOMAIN made \subseteq Dirs BY WalkOK, <1>2 DEF IInv, Phases, Done
  <2>9. \A x \in DOMAIN made' : DirOK(made'[x], file'[x])
    BY <1>4, <1>9, <2>6, <2>7, <2>8 DEF IInv
  <2>10. FileOK(F) BY <2>6 DEF DirOK
  <2>11. \A x \in Dirs : FileOK(file'[x]) BY <1>2, <2>7, <2>10 DEF FilesOK
  <2>12. Done("generate", todo + 1) = Done("generate", todo) BY <1>2, DoneStep
  <2>13. Done("configure", todo + 1) = Done("configure", todo) BY <1>2, DoneStep
  <2>14. DOMAIN cfg' = Done("configure", todo)' /\ DOMAIN made' = Done("generate", todo)'
    BY <1>9, <2>12, <2>13 DEF IInv, Phases, Done
  <2>15. todo' \in 0..(Len(Walk) + 1) /\ todo' # 0 BY <1>2, <1>9, WalkOK
  <2>16. Phases' BY <1>9, <2>14, <2>15 DEF IInv, Phases, Running
  <2>17. FilesOK(file)' BY <2>7, <2>11 DEF FilesOK, FileOK, RuleOK
  <2>18. FilesOK(build)' BY <1>9 DEF IInv, FilesOK, FileOK, RuleOK
  <2>19. \A x \in DOMAIN cfg' : ConfigOK(cfg'[x]) BY <1>9 DEF IInv
  <2> QED BY <2>9, <2>16, <2>17, <2>18, <2>19 DEF IInv
<1> QED BY <1>7, <1>8, <1>9

\* Every step keeps what holds of the runs.
LEMMA JsStepOK == IInv /\ [Next]_vars => IInv'
<1> SUFFICES ASSUME IInv, [Next]_vars PROVE IInv' OBVIOUS
<1>1. CASE Start BY <1>1, StartOK
<1>2. CASE ConfigureDir BY <1>2, ConfigureDirOK
<1>3. CASE GenerateDir BY <1>3, GenerateDirOK
<1>4. CASE ResolveDir BY <1>4, ResolveDirOK
<1>5. CASE EmitFiles
  <2>1. Running /\ Finish("done", file) BY <1>5 DEF EmitFiles
  <2> QED BY <2>1, FinishOK DEF IInv
<1>6. CASE Edit
  <2>1. /\ world' \in World /\ edits < MaxEdits /\ edits' = edits + 1 /\ outcome' = "none"
        /\ UNCHANGED <<build, todo, lang, cfg, file, made>>
    BY <1>6 DEF Edit
  <2>2. MaxEdits \in Nat BY WorldAssumption
  <2>3. edits' \in 0..MaxEdits BY <2>1, <2>2 DEF IInv, Phases
  <2>4. Phases' BY <2>1, <2>3 DEF IInv, Phases, Running, Done, NewLanguage
  <2>5. (FilesOK(build) <=> FilesOK(build)') /\ (FilesOK(file) <=> FilesOK(file)')
    BY <2>1 DEF FilesOK, FileOK, RuleOK
  <2>6. Running <=> Running' BY <2>1 DEF Running
  <2> QED BY <2>1, <2>4, <2>5, <2>6 DEF IInv
<1>7. CASE UNCHANGED vars
  <2>1. UNCHANGED <<world, build, edits, outcome, todo, lang, cfg, file, made>> BY <1>7 DEF vars
  <2>2. Phases' BY <2>1 DEF IInv, Phases, Running, Done, NewLanguage
  <2>3. (FilesOK(build) <=> FilesOK(build)') /\ (FilesOK(file) <=> FilesOK(file)')
    BY <2>1 DEF FilesOK, FileOK, RuleOK
  <2>4. Running <=> Running' BY <2>1 DEF Running
  <2> QED BY <2>1, <2>2, <2>3, <2>4 DEF IInv
<1> QED BY <1>1, <1>2, <1>3, <1>4, <1>5, <1>6, <1>7 DEF Next

\* What has been gone through has settings and rules.
LEMMA TypesFollow == IInv => TypeOK
<1> SUFFICES ASSUME IInv PROVE TypeOK OBVIOUS
<1>1. Phases BY DEF IInv
<1>2. \A d \in Dirs : \A n \in DOMAIN build[d] : build[d][n].name = n
  BY DEF IInv, FilesOK, FileOK
<1>3. \A d \in DOMAIN file : \A n \in DOMAIN file[d] : file[d][n].name = n
  <2>1. CASE Running BY <2>1 DEF IInv, FilesOK, FileOK
  <2>2. CASE ~Running
    <3>1. DOMAIN file = {} BY <1>1, <2>2 DEF Phases
    <3> QED BY <3>1
  <2> QED BY <2>1, <2>2
<1> QED BY <1>1, <1>2, <1>3 DEF Phases, TypeOK, Done

\* No two of the rules of a directory have a file.
LEMMA OneOwnerFollows == IInv => OneOwner
<1> SUFFICES ASSUME IInv, Resolved, NEW d \in Dirs, NamesApart(d),
                    NEW i \in SourceRules(d), NEW j \in SourceRules(d), i # j,
                    ~IsPinned(RuleOf(d, i)), ~IsPinned(RuleOf(d, j))
             PROVE  Own(RuleOf(d, i)) \cap Own(RuleOf(d, j)) = {}
  BY DEF OneOwner
<1>1. d \in DOMAIN made
  <2>1. 0 < StepOf("generate", d) BY WalkAssumption
  <2>2. todo \in Nat /\ todo > Len(Walk) BY WalkOK DEF IInv, Phases, Resolved
  <2>3. StepOf("generate", d) \in 1..Len(Walk) BY <2>1, StepOfOK
  <2>4. StepOf("generate", d) < todo BY <2>2, <2>3, WalkOK
  <2>5. d \in Done("generate", todo) BY <2>1, <2>2, <2>4, DoneBefore
  <2> QED BY <2>5 DEF IInv, Phases
<1>2. PICK m : m = made[d] OBVIOUS
<1>3. PICK F : F = file[d] OBVIOUS
<1>4. DirOK(m, F) BY <1>1, <1>2, <1>3 DEF IInv
<1>5. PICK rules : rules = Rules(m.gen) OBVIOUS
<1>6. DOMAIN rules = DOMAIN m.gen /\ \A k \in DOMAIN rules : rules[k] = m.gen[k].rule
  BY <1>5 DEF Rules
<1>7. Apart(rules) BY <1>2, <1>6 DEF NamesApart, Apart
<1>8. ASSUME NEW k \in SourceRules(d), ~IsPinned(RuleOf(d, k))
      PROVE  /\ k \in DOMAIN m.gen /\ Mine(F, m.gen[k])
             /\ Own(RuleOf(d, k)) \subseteq Hold(F, m.gen[k].rule)
  <2>1. /\ k \in DOMAIN m.gen /\ rules[k].kind \in SourceKinds
        /\ ~m.gen[k].info.package /\ m.fate[k][1] # "skip"
    BY <1>2, <1>6, <1>8 DEF SourceRules
  <2>2. m.fate[k][2] = rules[k].name /\ Owned(F, rules[k])
    BY <1>4, <1>5, <1>6, <1>7, <2>1 DEF DirOK, AllOwned
  <2>3. RuleOf(d, k) = F[rules[k].name] BY <1>2, <1>3, <2>2 DEF RuleOf
  <2> QED BY <1>6, <1>8, <2>1, <2>2, <2>3 DEF Owned, Mine, PinnedIn
<1> QED BY <1>4, <1>8 DEF DirOK, Disjoint

\* The state is well formed: what the walk has been through has settings and rules, and
\* between runs nothing is left of the last one.
THEOREM JsTypesHold == Spec => []TypeOK
<1>1. Spec => []IInv BY JsInitOK, JsStepOK, PTL DEF Spec
<1> QED BY <1>1, TypesFollow, PTL

\* No two rules that are generated for a directory have a file in common, but where their
\* srcs are the user's.
THEOREM OneOwnerHolds == Spec => []OneOwner
<1>1. Spec => []IInv BY JsInitOK, JsStepOK, PTL DEF Spec
<1> QED BY <1>1, OneOwnerFollows, PTL
==============================================================================
