----------------------------- MODULE JsGenerate -----------------------------
(***************************************************************************)
(* GenerateRules of the JavaScript extension (generate.go): the rules of a *)
(* directory, with what each of them imports, from its files, its settings *)
(* and the rules that are there.                                           *)
(*                                                                         *)
(* The argument g of most operators is what GenerateRules is given:        *)
(*   tree   the workspace: files and gen (for each directory the names of  *)
(*          its regular and of its generated files), sources (for each     *)
(*          parsed file what it imports, renders and declares), tsconfigs, *)
(*          packages (the package.json of a directory)                     *)
(*   lang   the state of the extension: labels, modules, projects,         *)
(*          packageJsonDirs, tsFiles, tsConfigs                            *)
(*   cfg, rel, order    settings, directory, and the order in which the    *)
(*          workers finish its files                                       *)
(* r is what has been generated so far: file (the rules there are, by      *)
(* name), gen, empty, rels, error, lang.                                   *)
(*                                                                         *)
(* The name of a rule stands for what it renders to.  Kinds are not mapped *)
(* to others, and the protocol buffer rules are left out.                  *)
(***************************************************************************)
EXTENDS TsConfig, JsConfig, JsFiles

\* tsProjectReflectedConfigAttributes: the attributes that follow the tsconfig.  The
\* options of a tsconfig have their names.
Reflected == {"tsconfig", "allow_js", "composite", "declaration", "declaration_dir",
              "declaration_map", "emit_declaration_only", "source_map", "incremental",
              "ts_build_info_file", "no_emit", "resolve_json_module", "preserve_jsx",
              "out_dir", "root_dir"}
Attr == Reflected \cup {"isolated_typecheck", "testonly", "visibility"}

SourceKinds == {"ts_project", "js_library"}

\* A rule. Of its srcs, labels are apart (refs), and kept marks the ones with '# keep';
\* pin says that srcs are a glob or kept as a whole.
NewRule(kind, name) ==
    [kind |-> kind, name |-> name, srcs |-> {}, refs |-> {}, kept |-> {}, pin |-> "",
     glob |-> {}, assets |-> {}, attrs |-> [a \in Attr |-> Unset], deps |-> {}]

\* TsProjectInfo and TsPackageInfo. Imports are told apart by their workspace path.
NewInfo(group) ==
    [package |-> FALSE, group |-> group, sources |-> {}, imports |-> <<>>,
     static |-> {}, source |-> {}]

Import(imp, path, source, kind) ==
    [imp |-> imp, path |-> path, source |-> source, kind |-> kind,
     optional |-> FALSE, types |-> FALSE]

AddImports(imports, stmts) == FoldLeft(LAMBDA known, s : (s.imp :> s) @@ known, imports, stmts)

Files(g) == ToSet(g.tree.files[g.rel])
Generated(g) == ToSet(g.tree.gen[g.rel])
PackageJson == Name(<<>>, "package", "json")

\* The rule and its imports join the result.
Emit(r, rule, info, rels) ==
    [r EXCEPT !.gen = Append(@, [rule |-> rule, info |-> info]), !.rels = @ \cup rels]

------------------------------------------------------------------------------
(* Packages. *)

\* packageScopeDir and getPackageJson.
HasScope(lang, rel) == HasNearest(lang.packageJsonDirs, rel)
ScopeDir(lang, rel) == Nearest(lang.packageJsonDirs, rel)
ScopeJson(tree, lang, rel) == tree.packages[ScopeDir(lang, rel)]
HasScopeJson(tree, lang, rel) == HasScope(lang, rel) /\ ScopeJson(tree, lang, rel).valid

HasPackageTarget(g) ==
    /\ IsProject(g.lang.projects, g.rel)
    /\ \/ g.cfg.package = "enabled"
       \/ g.cfg.package = "referenced" /\ IsReferenced(g.lang.projects, g.rel)

\* addPackageRules, addLinkAllPackagesRule.
AddPackageRules(g, r) ==
    IF ~IsProject(g.lang.projects, g.rel) THEN r
    ELSE Emit(r, NewRule("npm_link_all_packages", LinkAll), NewInfo(""),
              {g.cfg.lockRel} \cup LocalReferences(g.lang.projects, g.rel))

------------------------------------------------------------------------------
(* What is indexed on demand: the directories, or files in them, that the  *)
(* imports of a rule may be resolved to.                                   *)

PathOf(n) == IF n.stem = "" THEN n.dir ELSE Append(n.dir, n.stem)

FindGroupConfig(tree, lang, dir, group) ==
    FindConfig(tree.tsconfigs, lang.projects, lang.tsFiles, lang.packageJsonDirs,
               lang.tsConfigs, dir, group)

\* TsWorkspace.ExpandPaths: with the configuration of the file an import is in.
ExpandWith(config, n) == IF config = NoConfig THEN <<>> ELSE ExpandPaths(config, n)
ExpandImport(tree, lang, source, n, group) ==
    ExpandWith(FindGroupConfig(tree, lang, source.dir, group).config, n)

\* The files of its own package that an import is mapped to.
OwnTargets(tree, lang, rel, n) ==
    CASE ~HasScopeJson(tree, lang, rel) -> {}
      [] HasScopeJson(tree, lang, rel) /\ IsSubpath(n) ->
            {InDir(ScopeDir(lang, rel), t) :
                t \in {t \in ToSet(ResolveImport(ScopeJson(tree, lang, rel), n)) :
                          IsFileTarget(t)}}
      [] HasScopeJson(tree, lang, rel) /\ ~IsSubpath(n) ->
            IF PackagePart(n) \notin {ScopeJson(tree, lang, rel).name} \ {<<>>} THEN {}
            ELSE {InDir(ScopeDir(lang, rel), t) :
                     t \in ToSet(ResolveExport(ScopeJson(tree, lang, rel), SubName(n)))}

\* Mutant of RelsToIndex: imports are not expanded.
UnexpandedRels(g, info) == {PathOf(imp) : imp \in DOMAIN info.imports}

\* tsPackageInfoToRelsToIndex.
RelsToIndex(g, info) ==
    (IF ~HasProject(g.lang.projects, g.rel) THEN {}
     ELSE LocalReferences(g.lang.projects, GetProject(g.lang.projects, g.rel)))
    \cup UNION {{PathOf(t) : t \in {imp}
                    \cup ToSet(ExpandImport(g.tree, g.lang, info.imports[imp].source, imp,
                                            info.group))
                    \cup OwnTargets(g.tree, g.lang, g.rel, imp)} : imp \in DOMAIN info.imports}

EmitIndexed(g, r, rule, info) == Emit(r, rule, info, RelsToIndex(g, info))

------------------------------------------------------------------------------
(* The target group of a file. *)

\* tsconfigRootDirRelative.
RootDirRelative(config, rel) ==
    LET rootDir == IF config = NoConfig \/ config.plain["root_dir"] = Unset THEN <<>>
                   ELSE Join(config.dir, config.plain["root_dir"])
    IN  CASE config = NoConfig \/ config.plain["root_dir"] = Unset -> <<>>
          [] rel # <<>> /\ ~IsPrefix(rel, rootDir) -> <<>>
          [] OTHER -> Beyond(rel, rootDir)

\* FindConfig for each group: its configuration, and the directory of the ts_config.
WithGroup(c, acc, t, found) ==
    LET rel == CASE c.packageDeps -> found.anchor
                 [] ~c.packageDeps /\ found.config # NoConfig -> found.config.dir
                 [] OTHER -> <<>>
    IN  [tsConfigs |-> found.configs,
         groups |-> Put(acc.groups, t.name, [config |-> found.config, rel |-> rel])]

GroupConfigs(g) ==
    FoldLeft(LAMBDA acc, t :
                WithGroup(g.cfg, acc, t,
                          FindConfig(g.tree.tsconfigs, g.lang.projects, g.lang.tsFiles,
                                     g.lang.packageJsonDirs, acc.tsConfigs, g.rel, t.name)),
             [tsConfigs |-> g.lang.tsConfigs, groups |-> <<>>], g.cfg.targets)

Matches(glob, rootDir, f) ==
    /\ f.stem \in glob.stems /\ f.ext \in glob.exts
    /\ glob.rooted => IsPrefix(rootDir, f.dir)

\* newTargetGlobClassifier: the last group with a glob that matches, or 0.
Classify(g, groups, GlobsOf(_), f) ==
    SelectLastInSeq(g.cfg.targets, LAMBDA t :
        \E i \in DOMAIN GlobsOf(t) :
            Matches(GlobsOf(t)[i], RootDirRelative(groups[t.name].config, g.rel), f))

\* processPotentialSourceFile: a file is a source or an asset of a group, or data.
SourceGroup(g, groups, f) ==
    IF IsSourceOrData(f) THEN Classify(g, groups, SourceGlobs, f) ELSE 0
AssetGroup(g, groups, f) ==
    IF SourceGroup(g, groups, f) = 0 THEN Classify(g, groups, AssetGlobs, f) ELSE 0
DataFiles(g, groups) ==
    {f \in Files(g) \cup Generated(g) :
        SourceGroup(g, groups, f) = 0 /\ AssetGroup(g, groups, f) = 0}

------------------------------------------------------------------------------
(* Imports. *)

\* collectImports: what a file imports and, unless that is switched off, what its
\* elements and its URLs name.  An element is relative to the pnpm project.
Statements(g, file) ==
    LET source == g.tree.sources[file]
        elementBase == IF HasProject(g.lang.projects, file.dir)
                       THEN GetProject(g.lang.projects, file.dir) ELSE <<>>
        Of(names, base, kind) ==
            LET followed == SelectSeq(names, LAMBDA n : ~IsImportIgnored(g.cfg, n))
            IN  [i \in DOMAIN followed |->
                    Import(ToImportSpecPath(base, file, followed[i]), followed[i], file, kind)]
    IN  Of(source.imports, <<>>, "import")
        \o (IF "jsx" \in g.cfg.assets THEN Of(source.elements, elementBase, "jsx") ELSE <<>>)
        \o (IF "url" \in g.cfg.assets THEN Of(source.urls, UrlBase, "url") ELSE <<>>)

\* parseFiles: in the order the workers finish.
Parse(g, files) ==
    LET parsed == SelectSeq(g.order, LAMBDA f : f \in files /\ IsSource(f))
        Found(i) == Statements(g, InDir(g.rel, parsed[i]))
    IN  AddImports(<<>>, FlattenSeq([i \in DOMAIN parsed |-> Found(i)]))

\* addModuleDeclaration, of every file that is parsed.
Declare(g, modules, name, files) ==
    LET parsed == {InDir(g.rel, f) : f \in {f \in files : IsSource(f)}}
        declared == UNION {g.tree.sources[f].modules : f \in parsed}
    IN  [n \in DOMAIN modules \cup declared |->
            (IF n \in DOMAIN modules THEN modules[n] ELSE {})
            \cup (IF n \in declared THEN {RuleLabel(g.rel, name)} ELSE {})]

\* A tsconfig with jsx implies an import of react.
IsReact(config) ==
    /\ config # NoConfig
    /\ config.plain["preserve_jsx"] \in {"react", "react-jsx", "react-jsxdev", "react-native"}
ReactImport(config) ==
    Import(Name(<<>>, "react", ""), Name(<<>>, config.plain["preserve_jsx"], ""),
           Name(config.dir, config.name, "json"), "")

------------------------------------------------------------------------------
(* The rule of a group. *)

\* The attributes of a rule, by the options of its tsconfig, unless they are ignored;
\* of those there are when the tsconfigs are not managed.
Reflection(g, config, tsconfigRel, a) ==
    CASE config = NoConfig -> Unset
      [] config # NoConfig /\ a = "tsconfig" -> RuleLabel(tsconfigRel, config.name)
      [] config # NoConfig /\ a = "preserve_jsx" ->
            IF config.plain[a] = Unset THEN Unset ELSE config.plain[a] = "preserve"
      [] config # NoConfig /\ a = "root_dir" ->
            IF RootDirRelative(config, g.rel) = <<>> THEN Unset ELSE RootDirRelative(config, g.rel)
      [] config # NoConfig /\ a = "out_dir" /\ config.plain[a] = <<>> -> Unset
      [] OTHER -> config.plain[a]

Attributes(g, t, kind, config, tsconfigRel, existing) ==
    [a \in Attr |->
        CASE a = "testonly" -> IF t.testonly THEN TRUE ELSE Unset
          [] a = "visibility" -> IF t.visibility = <<>> THEN Unset ELSE t.visibility
          [] a = "isolated_typecheck" ->
                IF kind = "ts_project" /\ config # NoConfig THEN config.plain[a] ELSE Unset
          [] a \in Reflected /\ (kind # "ts_project" \/ IsTsConfigIgnored(g.cfg, t.name, a)) ->
                Unset
          [] a \in Reflected /\ TsConfigEnabled(g.cfg, t.name) ->
                Reflection(g, config, tsconfigRel, a)
          [] OTHER -> existing.attrs[a]]

\* The rule of the same name that is there takes on the kind of the new one, and
\* loses the attributes a js_library does not have.
AdaptExisting(file, name, kind) ==
    IF name \notin DOMAIN file THEN file
    ELSE [file EXCEPT ![name].kind = kind,
                      ![name].attrs = [a \in Attr |-> IF kind # "ts_project" /\ a \in Reflected
                                                      THEN Unset ELSE @[a]]]

\* Mutant of Imported: assets are only looked for among what is imported.
ImportedOnly(g, data, imports) ==
    {f \in data : /\ f # Blank
                  /\ InDir(g.rel, f) \in DOMAIN imports
                  /\ \/ f.ext \in DataExt
                     \/ /\ imports[InDir(g.rel, f)].kind = "import"
                        /\ CollectAssetsFrom(g.cfg, "import")}

\* Data files that are imported become sources of the group that is first to; the
\* other groups see a blank in their place.
Imported(g, data, imports) ==
    {f \in data : /\ f # Blank
                  /\ InDir(g.rel, f) \in DOMAIN imports
                  /\ \/ f.ext \in DataExt
                     \/ CollectAssetsFrom(g.cfg, imports[InDir(g.rel, f)].kind)}
\* Mutant of WithoutData: what is taken can be taken again.
AllData(data, taken) == data

WithoutData(data, taken) ==
    (data \ taken) \cup (IF taken = {} THEN {} ELSE {Blank})

\* addProjectRule. p is what it is given, and the imports of the files: group, found
\* (its tsconfig), name, srcs (the files that are parsed), assets, sources (all).
ProjectImports(g, found, srcs, sources) ==
    AddImports(Parse(g, srcs), IF IsReact(found.config) /\ \E f \in sources : f.ext \in TsxExt
                               THEN <<ReactImport(found.config)>> ELSE <<>>)

KindOf(sources) == IF \E f \in sources : IsTranspiled(f) THEN "ts_project" ELSE "js_library"

EmitProject(g, r, p, kind) ==
    LET existing == IF p.name \in DOMAIN r.file THEN r.file[p.name] ELSE NewRule(kind, p.name)
        compiled == IF kind = "js_library" THEN p.sources
                    ELSE {f \in p.sources \ p.assets : IsSourceOrData(f)}
        rule == [NewRule(kind, p.name) EXCEPT
                    !.srcs = compiled, !.assets = p.sources \ compiled,
                    !.attrs = Attributes(g, p.group, kind, p.found.config, p.found.rel, existing)]
    IN  IF existing.kind \notin SourceKinds \/ (kind = "js_library" /\ p.assets # {})
        THEN [r EXCEPT !.error = TRUE]
        ELSE EmitIndexed(g, [r EXCEPT !.file = AdaptExisting(@, p.name, kind),
                                      !.made = Put(@, p.group.name, p.name),
                                      !.lang.modules = Declare(g, @, p.name, p.srcs)],
                         rule, [NewInfo(p.group.name) EXCEPT !.sources = p.sources,
                                                             !.imports = p.imports])

AddWithData(g, r, p, taken) ==
    EmitProject(g, [r EXCEPT !.data = WithoutData(@, taken)],
                [p EXCEPT !.sources = @ \cup taken], KindOf(p.sources \cup taken))

AddProjectRule(g, r, p) == AddWithData(g, r, p, Imported(g, r.data, p.imports))

Project(g, t, found, name, srcs, genSrcs, assets) ==
    [group |-> t, found |-> found, name |-> name, srcs |-> srcs, assets |-> assets,
     sources |-> srcs \cup genSrcs \cup assets,
     imports |-> ProjectImports(g, found, srcs, srcs \cup genSrcs \cup assets)]

\* RemoveRule.
IsManaged(file, name) == name \in DOMAIN file /\ file[name].kind \in SourceKinds
RemoveRule(r, name) ==
    IF IsManaged(r.file, name)
    THEN [r EXCEPT !.empty = @ \cup {[name |-> name, kind |-> r.file[name].kind]}]
    ELSE r

\* One group: the srcs of a pinned rule, or the files of the group and the kept ones.
HasPinned(file, name) == IsManaged(file, name) /\ IsPinned(file[name])

GroupSrcs(g, file, name, own, generated) ==
    CASE HasPinned(file, name) -> ExpandSrcs(Files(g), file[name]) \cap Files(g)
      [] IsManaged(file, name) /\ ~HasPinned(file, name) ->
            own \cup ((file[name].kept \cap Files(g)) \ generated)
      [] OTHER -> own

AddFiles(g, r, t, found, name, srcs, generated, assets) ==
    CASE r.error \/ (srcs = {} /\ HasPinned(r.file, name)) -> r
      [] ~r.error /\ srcs = {} /\ ~HasPinned(r.file, name) -> RemoveRule(r, name)
      [] OTHER -> AddProjectRule(g, r, Project(g, t, found, name, srcs,
                                     IF HasPinned(r.file, name) THEN {} ELSE generated, assets))

AddNamed(g, groups, r, i, name) ==
    LET t == g.cfg.targets[i]
        Of(files) == {f \in files : SourceGroup(g, groups, f) = i}
        assets == {f \in Files(g) \cup Generated(g) : AssetGroup(g, groups, f) = i}
    IN  AddFiles(g, r, t, groups[t.name], name,
                 GroupSrcs(g, r.file, name, Of(Files(g)), Of(Generated(g))),
                 Of(Generated(g)), assets)

AddGroup(g, groups, r, i) ==
    AddNamed(g, groups, r, i,
             RenderSourceTargetName(g.cfg, g.cfg.targets[i].name, HasPackageTarget(g)))

------------------------------------------------------------------------------
(* The rule of an npm package. *)

\* A pattern of 'files': a name, or the files it matches if it has a "*".
PatternMatches(p, f) == IF p.wild THEN f \in p.matches ELSE f = p.name
PatternHolds(p, f) == ~p.wild /\ IsPrefix(PathOf(p.name), f.dir)

\* addPackageJsonFiles: the data files the patterns match, and the files they name
\* that are something else.
PublishedFiles(g, patterns, data) ==
    LET followed == {p \in patterns : ~IsImportIgnored(g.cfg, p.name)}
        includes == {p \in followed : ~p.negated}
        Direct(p) == p.wild \/ p.name \in data
        Included(f) ==
            /\ ~IsImportIgnored(g.cfg, f)
            /\ \E p \in includes : \/ Direct(p) /\ PatternMatches(p, f)
                                   \/ p.name \notin data /\ PatternHolds(p, f)
            /\ \A p \in followed \ includes : ~PatternMatches(p, f) /\ ~PatternHolds(p, f)
    IN  [sources |-> {f \in data : Included(f)},
         imports |-> {p.name : p \in {p \in includes : ~Direct(p)}}
                     \cup {f \in Generated(g) : Included(f)}]

\* addPackageRule. source is the library of the package, if there is one.
EmitPackage(g, r, entries, published) ==
    LET imported == (entries \ r.data) \cup published.imports
        Optional(n) == [Import(InDir(g.rel, n), n, InDir(g.rel, PackageJson), "")
                            EXCEPT !.optional = TRUE]
        sources == ((entries \cup {PackageJson}) \cap r.data) \cup published.sources
    IN  EmitIndexed(g, r,
            [NewRule(g.cfg.packageKind, g.cfg.packageName) EXCEPT
                !.srcs = sources, !.attrs["visibility"] = PnpmLockDir(g.cfg)],
            [NewInfo("") EXCEPT
                !.package = TRUE, !.sources = sources,
                !.imports = AddImports(<<>>, SetToSeq({Optional(n) : n \in imported})),
                !.source = IF DefaultLibraryName \in DOMAIN r.made
                           THEN {RuleLabel(g.rel, r.made[DefaultLibraryName])} ELSE {}])

\* Without a package.json the package is empty.
AddPackageRule(g, r) ==
    LET json == g.tree.packages[g.rel]
        has == g.rel \in g.lang.packageJsonDirs
    IN  IF has /\ ~json.valid THEN [r EXCEPT !.error = TRUE]
        ELSE EmitPackage(g, r,
                 {n \in IF has THEN Entries(json) ELSE {} : ~IsImportIgnored(g.cfg, n)},
                 PublishedFiles(g, IF has THEN json.files ELSE {}, r.data))

\* addSourceRules.
AddGroups(g, configs, r) ==
    LET upTo[i \in 0..Len(g.cfg.targets)] ==
            IF i = 0 THEN [r EXCEPT !.lang.tsConfigs = configs.tsConfigs,
                                    !.data = DataFiles(g, configs.groups)]
            ELSE AddGroup(g, configs.groups, upTo[i - 1], i)
    IN  upTo[Len(g.cfg.targets)]

AddPackage(g, r) == IF ~r.error /\ HasPackageTarget(g) THEN AddPackageRule(g, r) ELSE r

AddSourceRules(g, r) == AddPackage(g, AddGroups(g, GroupConfigs(g), r))

------------------------------------------------------------------------------
(* The rules of the tsconfigs. *)

\* collectTsConfigPackageJsonDeps: the package.json files the compiler consults.
PackageJsonDeps(g) ==
    (IF PackageJson \in Files(g) THEN {FileLabel(g.rel, PackageJson)} ELSE {})
    \cup (IF PackageJson \notin Files(g) /\ HasScope(g.lang, g.rel)
          THEN {FileLabel(ScopeDir(g.lang, g.rel), PackageJson)} ELSE {})

\* collectTsConfigImports: what it extends, the types it names, and what those import,
\* and its references.
TsConfigImports(g, config) ==
    LET source == Name(config.dir, config.name, "json")
        extends == SelectSeq(config.extends, LAMBDA n : ~IsImportIgnored(g.cfg, n))
        types == SelectSeq(config.types, LAMBDA n : ~IsImportIgnored(g.cfg, n))
        Local(n) == IsRelative(n.dir) \/ IsAbs(n.dir)
        TypesImport(n) ==
            LET imp == IF Local(n) THEN ToImportSpecPath(<<>>, source, n) ELSE n
            IN  <<[Import(imp, n, source, "") EXCEPT !.types = TRUE]>>
                \o (IF Local(n) /\ imp \in DOMAIN g.tree.sources THEN Statements(g, imp) ELSE <<>>)
        references == SetToSeq(config.references)
    IN  [i \in DOMAIN extends |->
            Import(ToImportSpecPath(<<>>, source, extends[i]), extends[i], source, "")]
        \o FlattenSeq([i \in DOMAIN types |-> TypesImport(types[i])])
        \o [i \in DOMAIN references |-> Import(references[i], references[i], source, "")]

\* TsConfigGroupNames: the default group, which there always is, comes first.
TsConfigGroupNames(c) == <<"">> \o SetToSeq(DOMAIN c.groups \ {""})

\* addTsConfigRules: for each tsconfig of the directory; for the nearest above it if
\* only a package.json is here, which forwards to the one there.
HasTsConfigRule(r, name) ==
    \E i \in DOMAIN r.gen : r.gen[i].rule.kind = "ts_config" /\ r.gen[i].rule.name = name

EmitTsConfig(g, r, rule, info) ==
    IF HasTsConfigRule(r, rule.name) THEN r
    ELSE EmitIndexed(g, r, rule, [info EXCEPT
             !.static = IF g.cfg.packageDeps THEN PackageJsonDeps(g) ELSE {}])

ForwardTsConfig(g, r, group, found) ==
    LET anchor == FindConfig(g.tree.tsconfigs, g.lang.projects, g.lang.tsFiles,
                             g.lang.packageJsonDirs, found.configs, Front(g.rel), group).anchor
    IN  IF found.config = NoConfig THEN r
        ELSE EmitTsConfig(g, r, [NewRule("ts_config", found.config.name) EXCEPT
                                    !.refs = {RuleLabel(anchor, found.config.name)}],
                          NewInfo(group))

AddTsConfig(g, r, group, local) ==
    LET loaded == [r EXCEPT !.lang.tsConfigs = local.configs] IN
    CASE local.config # NoConfig ->
            EmitTsConfig(g, loaded, [NewRule("ts_config", local.config.name) EXCEPT
                                        !.srcs = {Name(<<>>, local.config.name, "json")}],
                         [NewInfo(group) EXCEPT
                             !.imports = AddImports(<<>>, TsConfigImports(g, local.config))])
      [] local.config = NoConfig /\ g.cfg.packageDeps /\ PackageJson \in Files(g) ->
            ForwardTsConfig(g, loaded, group,
                FindConfig(g.tree.tsconfigs, g.lang.projects, g.lang.tsFiles,
                           g.lang.packageJsonDirs, local.configs, g.rel, group))
      [] OTHER -> loaded

AddTsConfigRule(g, r, group) ==
    IF TsConfigEnabled(g.cfg, group)
    THEN AddTsConfig(g, r, group, GetTsConfigFile(g.tree.tsconfigs, g.lang.projects,
                                      g.lang.tsFiles, r.lang.tsConfigs, g.rel, group))
    ELSE r

AddTsConfigRules(g, r) ==
    LET names == TsConfigGroupNames(g.cfg)
        upTo[i \in 0..Cardinality(DOMAIN g.cfg.groups \cup {""})] ==
            IF i = 0 THEN r ELSE AddTsConfigRule(g, upTo[i - 1], names[i])
    IN  upTo[Cardinality(DOMAIN g.cfg.groups \cup {""})]

\* GenerateRules.
GenerateRules(g, file) ==
    LET labels == CollectFileLabels(g.lang.labels, g.rel, g.tree.gen[g.rel], g.tree.files[g.rel])
        nothing == [lang |-> [g.lang EXCEPT !.labels = labels], file |-> file, gen |-> <<>>,
                    empty |-> {}, rels |-> {}, data |-> {}, made |-> <<>>, error |-> FALSE]
    IN  IF ~g.cfg.generation THEN nothing
        ELSE AddTsConfigRules(g, AddSourceRules(g, AddPackageRules(g, nothing)))
==============================================================================
