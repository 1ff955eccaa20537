-------------------------------- MODULE JsRun --------------------------------
(***************************************************************************)
(* Runs of gazelle with the JavaScript extension over a workspace that is  *)
(* edited between them (runFixUpdate in fix-update.go, configure.go).      *)
(*                                                                         *)
(* A run goes through the directories: each is configured after the one it *)
(* is in, and its rules are generated, and merged into its BUILD file in   *)
(* memory, after those of the directories in it.  Then the rules of every  *)
(* directory are resolved with the index of all of them and merged again,  *)
(* and all files are written.  An error that is reported ends the run at   *)
(* the next check for it, and nothing is written.                          *)
(*                                                                         *)
(* The merger and the index are gazelle's own, modelled from the kinds and *)
(* attributes kinds.go tells it of.                                        *)
(***************************************************************************)
EXTENDS JsResolve

CONSTANTS World,          \* what a workspace may be, but for the generated rules
          TreeOf(_),      \* its files
          Edited(_, _),   \* whether one is an edit of the other
          InitBuild(_),   \* the BUILD files of a workspace that has not been generated
          MaxEdits,
          Dirs,           \* the directories, with those they are in
          Walk            \* the steps of a run: [op, dir]

\* Where an operation on a directory is in the walk.
StepOf(op, d) == SelectInSeq(Walk, LAMBDA s : s.op = op /\ s.dir = d)

ASSUME WalkAssumption ==
    /\ Walk \in Seq([op : {"configure", "generate", "resolve"}, dir : Dirs])
    /\ Len(Walk) = 3 * Cardinality(Dirs)
    /\ \A d \in Dirs :
         /\ \A op \in {"configure", "generate", "resolve"} : 0 < StepOf(op, d)
         /\ StepOf("configure", d) < StepOf("generate", d)
         /\ d # <<>> => /\ Front(d) \in Dirs
                        /\ StepOf("configure", Front(d)) < StepOf("configure", d)
                        /\ StepOf("generate", d) < StepOf("generate", Front(d))
         /\ \A e \in Dirs : StepOf("generate", e) < StepOf("resolve", d)

\* What there is at first: a BUILD file in each directory, whose rules have names, and
\* directives one after the other.
ASSUME WorldAssumption ==
    /\ MaxEdits \in Nat
    /\ \A w \in World :
         /\ DOMAIN InitBuild(w) = Dirs
         /\ \A d \in Dirs :
              /\ \A n \in DOMAIN InitBuild(w)[d] :
                   /\ InitBuild(w)[d][n].name = n
                   /\ DOMAIN InitBuild(w)[d][n] = DOMAIN NewRule(n, n)
              /\ TreeOf(w).directives[d] \in Seq(ToSet(TreeOf(w).directives[d]))

VARIABLES
    world,
    build,     \* the rules of each BUILD file, by name
    edits,
    outcome,   \* of the last run, since the last edit: "none", "done" or "failed"
    todo,      \* the step of the run, 0 between runs
    lang,      \* the state of the extension
    cfg,       \* the settings of each directory
    file,      \* the BUILD files in memory
    made       \* what was generated: rules with their imports and what became of each when
               \* it was merged, empty rules, rels
vars == <<world, build, edits, outcome, todo, lang, cfg, file, made>>

tree == TreeOf(world)

\* NewLanguage: instantiated for each run.
NewLanguage ==
    [labels |-> [of |-> <<>>, duplicate |-> FALSE], modules |-> <<>>, projects |-> <<>>,
     packageJsonDirs |-> {}, tsFiles |-> <<>>, tsConfigs |-> <<>>, error |-> FALSE]

Running == todo # 0
At(op) == Running /\ todo <= Len(Walk) /\ Walk[todo].op = op
dir == Walk[todo].dir

------------------------------------------------------------------------------
(* kinds.go, and the merger. *)

MergeableAttrs(kind) ==
    CASE kind = "ts_project" ->
            {"srcs", "assets", "isolated_typecheck"} \cup (Reflected \ {"no_emit"})
      [] kind \in {"js_library", "npm_package"} -> {"srcs"}
      [] OTHER -> {}

ResolveAttrs(kind) ==
    CASE kind = "npm_package" -> {"srcs"}
      [] kind = "npm_link_all_packages" -> {}
      [] OTHER -> {"deps"}

\* Rules are merged before they are resolved, and after (merger.PreResolve, PostResolve).
AttrsOf(phase, kind) == IF phase = "PreResolve" THEN MergeableAttrs(kind) ELSE ResolveAttrs(kind)

\* rule.MergeRules: the attributes named are those of src, the others are added where
\* they are missing.
MergeRule(src, dst, attrs) ==
    LET hasSrcs == dst.srcs # {} \/ dst.refs # {} \/ dst.pin # ""
        takeSrcs == dst.pin = "" /\ ("srcs" \in attrs \/ ~hasSrcs)
    IN  [dst EXCEPT
            !.srcs = IF takeSrcs THEN src.srcs \cup dst.kept ELSE @,
            !.refs = IF takeSrcs THEN src.refs ELSE @,
            !.assets = IF "assets" \in attrs \/ @ = {} THEN src.assets ELSE @,
            !.attrs = [a \in Attr |-> IF a \in attrs \/ @[a] = Unset THEN src.attrs[a] ELSE @[a]],
            !.deps = IF "deps" \in attrs \/ @ = {} THEN src.deps ELSE @]

\* merger.Match: a rule of the same name, which is an error if it is of another kind;
\* a ts_config of the same src; the only rule of a kind there is one of.
Alike(rule, other) ==
    CASE rule.kind # other.kind -> FALSE
      [] rule.kind = other.kind /\ rule.kind = "ts_config" ->
            rule.srcs = other.srcs /\ rule.refs = other.refs
      [] OTHER -> rule.kind = "npm_link_all_packages"

Match(rules, rule) ==
    LET alike == {n \in DOMAIN rules : Alike(rule, rules[n])} IN
    CASE rule.name \in DOMAIN rules ->
            IF rules[rule.name].kind = rule.kind THEN <<"merge", rule.name>> ELSE <<"skip", "">>
      [] rule.name \notin DOMAIN rules /\ alike = {} -> <<"insert", rule.name>>
      [] OTHER -> IF Cardinality(alike) = 1 THEN <<"merge", CHOOSE n \in alike : TRUE>>
                  ELSE <<"skip", "">>

\* MergeFile: empty rules lose their attributes, and go if they have no srcs left.
MergeEmpty(rules, empty, phase) ==
    LET IsEmptied(n) == [name |-> n, kind |-> rules[n].kind] \in empty
        Emptied(n) == MergeRule(NewRule(rules[n].kind, n), rules[n], AttrsOf(phase, rules[n].kind))
        gone == {n \in DOMAIN rules : IsEmptied(n) /\ Emptied(n).srcs = {} /\ Emptied(n).refs = {}}
    IN  [n \in DOMAIN rules \ gone |-> IF IsEmptied(n) THEN Emptied(n) ELSE rules[n]]

PlaceRule(rules, rule, m, attrs) ==
    CASE m[1] = "insert" -> Put(rules, m[2], rule)
      [] m[1] = "merge" -> [rules EXCEPT ![m[2]] = MergeRule(rule, @, attrs)]
      [] OTHER -> rules

MergeGen(kept, gen, phase) ==
    LET upTo[i \in 0..Len(gen)] ==
            IF i = 0 THEN kept
            ELSE PlaceRule(upTo[i - 1], gen[i], Match(kept, gen[i]),
                           AttrsOf(phase, gen[i].kind))
    IN  upTo[Len(gen)]

MergeFile(rules, empty, gen, phase) == MergeGen(MergeEmpty(rules, empty, phase), gen, phase)

Rules(entries) == [i \in DOMAIN entries |-> entries[i].rule]
Fates(rules, entries) == [i \in DOMAIN entries |-> Match(rules, entries[i].rule)]

\* A rule that was inserted is the one that was generated, so that what is resolved for
\* it is in the file before it is merged again.
Replaced(rules, fate, resolved) ==
    LET upTo[i \in 0..Len(resolved)] ==
            IF i = 0 THEN rules
            ELSE IF fate[i][1] # "insert" THEN upTo[i - 1]
            ELSE [upTo[i - 1] EXCEPT ![fate[i][2]] = resolved[i].rule]
    IN  upTo[Len(resolved)]

------------------------------------------------------------------------------

Init ==
    /\ world \in World
    /\ build = InitBuild(world)
    /\ edits = 0
    /\ outcome = "none"
    /\ todo = 0
    /\ lang = NewLanguage
    /\ cfg = <<>> /\ file = <<>> /\ made = <<>>

\* A new process, or a new cycle, with new instances of the extensions.
Start ==
    /\ ~Running
    /\ todo' = 1
    /\ file' = build
    /\ UNCHANGED <<world, build, edits, outcome, lang, cfg, made>>

\* Mutant of Finish: the extension lives on.
FinishKeepsLanguage(result, written) ==
    /\ outcome' = result
    /\ build' = written
    /\ todo' = 0
    /\ cfg' = <<>> /\ file' = <<>> /\ made' = <<>>
    /\ UNCHANGED <<world, edits, lang>>

\* The run is over.
Finish(result, written) ==
    /\ outcome' = result
    /\ build' = written
    /\ todo' = 0
    /\ lang' = NewLanguage
    /\ cfg' = <<>> /\ file' = <<>> /\ made' = <<>>
    /\ UNCHANGED <<world, edits>>

\* CheckCancellation: an error that was reported ends the run here.
Fail == Finish("failed", build)

\* addPnpmLockfile.
AddPnpmLockfile(l, c) ==
    LET path == Append(c.lockRel, c.lockfile) IN
    CASE c.rel # c.lockRel \/ path \notin DOMAIN tree.locks -> l
      [] c.rel = c.lockRel /\ path \in DOMAIN tree.locks /\ Readable(tree.locks[path]) ->
            [l EXCEPT !.projects = PnpmProjects(c.lockRel, tree.locks[path]) @@ @]
      [] OTHER -> [l EXCEPT !.error = TRUE]

\* readConfigurations: the lockfile, the tsconfig of every group, the package.json.
ReadConfigurations(l, c) ==
    LET groups == {n \in DOMAIN c.groups :
                      Append(c.rel, c.groups[n].fileName) \in DOMAIN tree.tsconfigs}
        withLock == AddPnpmLockfile(l, c)
    IN  [withLock EXCEPT
            !.tsFiles = FoldSet(LAMBDA n, fs : SetTsConfigFile(fs, c.rel, n, c.groups[n].fileName),
                                @, groups),
            !.packageJsonDirs = @ \cup (IF PackageJson \in ToSet(tree.files[c.rel])
                                        THEN {c.rel} ELSE {})]

\* Configure.
ConfigureDir ==
    /\ At("configure")
    /\ LET parent == IF dir = <<>> THEN RootConfig ELSE cfg[Front(dir)]
           read == Configure(parent, dir, tree.directives[dir])
           l == ReadConfigurations(lang, read.config)
       IN  /\ cfg' = Put(cfg, dir, read.config)
           /\ lang' = [l EXCEPT !.error = @ \/ read.misconfigured]
    /\ todo' = todo + 1
    /\ UNCHANGED <<world, build, edits, outcome, file, made>>

\* GenerateRules, the merge before rules are resolved, and the check.  The workers
\* that parse the files finish in any order.
GenerateDir ==
    /\ At("generate")
    /\ \E order \in SetToSeqs({f \in ToSet(tree.files[dir]) : IsSource(f)}) :
       \E r \in {GenerateRules([tree |-> tree, lang |-> lang, cfg |-> cfg[dir], rel |-> dir,
                               order |-> order], file[dir])} :
        IF lang.error \/ r.error \/ r.lang.labels.duplicate THEN Fail
        ELSE /\ lang' = r.lang
             /\ file' = [file EXCEPT ![dir] =
                             MergeFile(r.file, r.empty, Rules(r.gen), "PreResolve")]
             /\ made' = Put(made, dir,
                             [gen |-> r.gen, empty |-> r.empty, rels |-> r.rels,
                              fate |-> Fates(MergeEmpty(r.file, r.empty, "PreResolve"), r.gen)])
             /\ todo' = todo + 1
             /\ UNCHANGED <<world, build, edits, outcome, cfg>>

\* The index, of every rule of every BUILD file, as it is after the directories were
\* gone through.
EntryOf(d, n) == SelectLastInSeq(made[d].fate, LAMBDA m : m[1] # "skip" /\ m[2] = n)
Provides(d, n) ==
    LET i == EntryOf(d, n)
    IN  Imports(tree, d, file[d][n], i # 0, IF i = 0 THEN {} ELSE made[d].gen[i].info.sources)
RuleIndex ==
    UNION {UNION {{[imp |-> imp, label |-> RuleLabel(d, n)] : imp \in Provides(d, n)} :
                     n \in DOMAIN file[d]} : d \in DOMAIN made}

\* Resolve for the rules of a directory, and the merge after it.  It changes neither
\* what rules can be imported as nor what others import.
ResolvedRules ==
    LET v == [tree |-> tree, lang |-> lang, cfg |-> cfg[dir], rel |-> dir, index |-> RuleIndex]
    IN  [i \in DOMAIN made[dir].gen |-> Resolve(v, made[dir].gen[i].rule, made[dir].gen[i].info)]

ResolveDir ==
    /\ At("resolve")
    /\ \E resolved \in {ResolvedRules} :
        IF \E i \in DOMAIN resolved : resolved[i].error THEN Fail
        ELSE /\ file' = [file EXCEPT ![dir] =
                    MergeFile(Replaced(@, made[dir].fate, resolved), made[dir].empty, Rules(resolved),
                              "PostResolve")]
             /\ todo' = todo + 1
             /\ UNCHANGED <<world, build, edits, outcome, lang, cfg, made>>

\* uc.emit, for every directory.
EmitFiles ==
    /\ Running /\ todo > Len(Walk)
    /\ Finish("done", file)

Edit ==
    /\ ~Running
    /\ edits < MaxEdits
    /\ \E w \in World : Edited(world, w) /\ world' = w
    /\ edits' = edits + 1
    /\ outcome' = "none"
    /\ UNCHANGED <<build, todo, lang, cfg, file, made>>

Next == Start \/ ConfigureDir \/ GenerateDir \/ ResolveDir \/ EmitFiles \/ Edit

Spec == Init /\ [][Next]_vars

------------------------------------------------------------------------------
(* Properties. *)

\* All rules are resolved and the files are about to be written.
Resolved == Running /\ todo > Len(Walk)

\* The rules of sources that were generated for a directory and are in its file, by
\* their place among the generated ones.
SourceRules(d) ==
    {i \in DOMAIN made[d].gen : /\ made[d].gen[i].rule.kind \in SourceKinds
                                /\ ~made[d].gen[i].info.package
                                /\ made[d].fate[i][1] # "skip"}
RuleOf(d, i) == file[d][made[d].fate[i][2]]
LabelOf(d, i) == RuleLabel(d, made[d].fate[i][2])
SourcesOf(d, i) == made[d].gen[i].info.sources
ParsedOf(d, i) == {f \in SourcesOf(d, i) \cap ToSet(tree.files[d]) :
                      IsSource(f) /\ f \notin RuleOf(d, i).assets}

\* The state is well formed: what the walk has been through has settings and rules,
\* and between runs nothing is left of the last one (NewLanguage).
TypeOK ==
    /\ world \in World /\ edits \in 0..MaxEdits /\ todo \in 0..(Len(Walk) + 1)
    /\ outcome \in {"none", "done", "failed"}
    /\ DOMAIN cfg = {Walk[i].dir : i \in {i \in 1..(todo - 1) : Walk[i].op = "configure"}}
    /\ DOMAIN made = {Walk[i].dir : i \in {i \in 1..(todo - 1) : Walk[i].op = "generate"}}
    /\ \A d \in Dirs : \A n \in DOMAIN build[d] : build[d][n].name = n
    /\ \A d \in DOMAIN file : \A n \in DOMAIN file[d] : file[d][n].name = n
    /\ ~Running => lang = NewLanguage /\ file = <<>>

\* Two files of a directory that import the same thing do so in the same words, and
\* both in a way that collects assets or neither (js_assets).  Where they do not, the
\* order in which they are parsed decides what their rule gets (Parse): there a run that
\* is repeated may write another BUILD file (AssetsCollected).
OneWay ==
    \A d \in DOMAIN cfg :
        LET g == [tree |-> tree, lang |-> lang, cfg |-> cfg[d]]
            Of(f) == ToSet(Statements(g, InDir(d, f)))
            parsed == {f \in ToSet(tree.files[d]) : IsSource(f)}
        IN  \A e, f \in parsed : e # f => \A s \in Of(e), t \in Of(f) :
                s.imp = t.imp =>
                    /\ s.path = t.path
                    /\ CollectAssetsFrom(cfg[d], s.kind) = CollectAssetsFrom(cfg[d], t.kind)

\* A run over a workspace nobody has touched since the last one that succeeded
\* succeeds and changes no BUILD file: what is merged, resolved and merged again is a
\* fixed point (addProjectRule, MergeFile), and which of several statements that import
\* the same thing is kept, by the order in which files are parsed, changes nothing
\* where they say the same (OneWay).
Stable ==
    [][Running /\ todo' = 0 /\ outcome = "done" /\ OneWay
           => outcome' = "done" /\ build' = build]_vars

\* No two rules that are generated for a directory have a file in common, but where
\* their srcs are the user's: a data file that several groups import belongs to the
\* first of them, and one that is a source of a group or an asset belongs to no other
\* (processPotentialSourceFile, the data files of addProjectRule).  Directives may give
\* two groups one name, and so one rule.  The assets of a js_library are left over from
\* when it was a ts_project: its kind changes in place (addProjectRule), and assets are
\* merged for ts_project only.
NamesApart(d) ==
    \A i, j \in DOMAIN made[d].gen : made[d].gen[i].rule.name = made[d].gen[j].rule.name => i = j

Own(rule) == (rule.srcs \cup IF rule.kind = "ts_project" THEN rule.assets ELSE {}) \ rule.kept

OneOwner ==
    Resolved => \A d \in Dirs : NamesApart(d) => \A i, j \in SourceRules(d) :
        \/ i = j \/ IsPinned(RuleOf(d, i)) \/ IsPinned(RuleOf(d, j))
        \/ Own(RuleOf(d, i)) \cap Own(RuleOf(d, j)) = {}

\* A rule depends on every rule that has a file one of its own files imports by a
\* relative path, whichever directory was gone through first, unless a directive says
\* otherwise (Imports and Resolve).
Complete ==
    Resolved => \A d \in Dirs : \A i \in SourceRules(d) : \A f \in ParsedOf(d, i) :
        \A n \in ToSet(tree.sources[InDir(d, f)].imports) :
            LET target == InDir(InDir(d, f).dir, n)
                Has(e, j) == \E g \in SourcesOf(e, j) : target \in ImportPaths(InDir(e, g))
            IN  \/ ~IsRelative(n.dir) \/ IsImportIgnored(cfg[d], n) \/ HasResolution(cfg[d], target)
                \/ Has(d, i)
                \/ \A e \in Dirs : \A j \in SourceRules(e) :
                       Has(e, j) => LabelOf(e, j) \in RuleOf(d, i).deps

\* With an index that is made on demand the same rules are found: what a rule is
\* resolved to in another directory is in one that the rules of its own directory ask
\* to be indexed (tsPackageInfoToRelsToIndex).  Modules that are declared and
\* js_resolve directives name their rules.
LazyReached ==
    Resolved => \A d \in Dirs : \A i \in SourceRules(d) : \A l \in RuleOf(d, i).deps :
        LET isRule == l.pkg \in Dirs /\ Len(l.name) = 1 /\ Head(l.name) \in DOMAIN file[l.pkg]
        IN  \/ l.pkg = d \/ ~isRule
            \/ \E n \in DOMAIN lang.modules : l \in lang.modules[n]
            \/ \E k \in DOMAIN cfg[d].resolves : l = cfg[d].resolves[k].label
            \/ \E p \in made[d].rels : p = l.pkg \/ (p # <<>> /\ Front(p) = l.pkg)

\* README.md:55: the assets of the types js_assets lists are collected. A file that is
\* named by an import, an element or a URL of such a type belongs to a rule.
AssetsCollected ==
    Resolved => \A d \in Dirs : \A i \in SourceRules(d) : \A f \in ParsedOf(d, i) :
        LET g == [tree |-> tree, lang |-> lang, cfg |-> cfg[d]] IN
        \A s \in ToSet(Statements(g, InDir(d, f))), x \in ToSet(tree.files[d]) :
            InDir(d, x) = s.imp /\ s.kind \in cfg[d].assets =>
                \E j \in SourceRules(d) : x \in SourcesOf(d, j)
==============================================================================
