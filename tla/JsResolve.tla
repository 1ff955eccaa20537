------------------------------ MODULE JsResolve ------------------------------
(***************************************************************************)
(* The resolver of the JavaScript extension (resolve.go): what the rules   *)
(* of a BUILD file can be imported as, and the rules, files and packages   *)
(* that the imports of a rule stand for.                                   *)
(*                                                                         *)
(* The argument v of most operators is                                     *)
(*   tree, lang   as in JsGenerate                                         *)
(*   cfg, rel     the settings of the directory, and the directory         *)
(*   index        the rules of all BUILD files: pairs of an import and the *)
(*                label of a rule, as in gazelle's RuleIndex               *)
(***************************************************************************)
EXTENDS JsGenerate

------------------------------------------------------------------------------
(* What a rule can be imported as. *)

Option(rule, a) == IF rule.attrs[a] = Unset THEN <<>> ELSE rule.attrs[a]

\* toOutDirPath: where the compiler puts what it makes of a file.
ToOutDirPath(rootDir, outDir, f) ==
    [f EXCEPT !.dir = outDir \o (IF IsPrefix(rootDir, @) THEN Beyond(rootDir, @) ELSE @)]

\* sourceFileImports, of the files srcs: a file can be imported from where it is and
\* from where its outputs are.
SourceFileImports(rel, rule, srcs) ==
    LET outDir == Option(rule, "out_dir")
        rootDir == Option(rule, "root_dir")
        declarationDir == IF rule.attrs["declaration_dir"] = Unset THEN outDir
                          ELSE rule.attrs["declaration_dir"]
        Paths(f) == {f, ToOutDirPath(rootDir, outDir, f), ToOutDirPath(rootDir, declarationDir, f)}
    IN  UNION {UNION {ImportPaths(InDir(rel, p)) : p \in Paths(f)} : f \in srcs}

\* Mutant of Imports: a js_library provides nothing.
ImportsOfProjects(tree, rel, rule, generated, sources) ==
    IF rule.kind = "ts_project" THEN SourceFileImports(rel, rule, sources) ELSE {}

\* Imports. sources are those of the rule that was generated, if it was; otherwise
\* its srcs are read.
Imports(tree, rel, rule, generated, sources) ==
    CASE rule.kind = "ts_config" -> {InDir(rel, f) : f \in rule.srcs}
      [] rule.kind \in SourceKinds ->
            SourceFileImports(rel, rule, IF generated THEN sources
                                         ELSE ExpandSrcs(ToSet(tree.files[rel]), rule))
      [] OTHER -> {}

(***************************************************************************)
(* What an import is resolved to is a list, with a rule once for each      *)
(* target of a package.json that leads to it: a set of matches, which have *)
(* the label of a rule and the places of those targets.                    *)
(***************************************************************************)
MatchOf(l) == [at |-> <<>>, label |-> l]
AtEach(targets, MatchesOf(_)) ==
    UNION {{[m EXCEPT !.at = <<i>> \o @] : m \in MatchesOf(targets[i])} : i \in DOMAIN targets}
LabelsOf(matches) == {m.label : m \in matches}

\* RuleIndex.FindRulesByImport: a rule is found once, however often it gives the import.
FindRules(v, imp) == {MatchOf(e.label) : e \in {e \in v.index : e.imp = imp}}

------------------------------------------------------------------------------
(* Packages. *)

\* findPackageSelfReference: the exports of the importing package.
SelfReferences(v, n) ==
    IF HasScopeJson(v.tree, v.lang, v.rel) /\ ScopeJson(v.tree, v.lang, v.rel).name = PackagePart(n)
    THEN AtEach(ResolveExport(ScopeJson(v.tree, v.lang, v.rel), SubName(n)),
                LAMBDA t : FindRules(v, InDir(ScopeDir(v.lang, v.rel), t)))
    ELSE {}

\* findPackageImport.
FindPackageImport(v, n) ==
    CASE PackagePart(n) = <<>> -> {}
      [] PackagePart(n) # <<>> /\ SelfReferences(v, n) # {} -> SelfReferences(v, n)
      [] OTHER -> {MatchOf(l) : l \in FindPackage(v.lang.projects, v.rel, PackagePart(n))}

\* findSubpathImport: all targets of the mapping, which are files or packages.
FindSubpathImport(v, n) ==
    IF ~HasScopeJson(v.tree, v.lang, v.rel) THEN {}
    ELSE AtEach(ResolveImport(ScopeJson(v.tree, v.lang, v.rel), n),
                LAMBDA t : IF IsFileTarget(t)
                           THEN FindRules(v, InDir(ScopeDir(v.lang, v.rel), t))
                           ELSE FindPackageImport(v, t))

\* jsProtoImpToProtoSrc, the index of the proto extension and CrossResolve: asked when
\* no rule of the index can be imported as n.
CrossResolve(v, n) == IF IsSubpath(n) THEN FindSubpathImport(v, n) ELSE FindPackageImport(v, n)

\* RuleIndex.FindRulesByImportWithConfig.
FindRulesWithConfig(v, n) == IF FindRules(v, n) # {} THEN FindRules(v, n) ELSE CrossResolve(v, n)

------------------------------------------------------------------------------
(* One import. *)

Found(how, labels) == [how |-> how, labels |-> labels]
NotFound == Found("not found", {})

\* resolveExplicitImportFromIndex: a subpath may have several matches, nothing else
\* may, not even of one rule.
Matched(from, n, matches) ==
    CASE matches = {} -> NotFound
      [] from \in LabelsOf(matches) -> Found("self", {})
      [] from \notin LabelsOf(matches) /\ Cardinality(matches) > 1 /\ ~IsSubpath(n) ->
            Found("error", {})
      [] OTHER -> Found("label", LabelsOf(matches))

ResolveFromIndex(v, from, n) == Matched(from, n, FindRulesWithConfig(v, n))

\* resolveImport: the import itself, then what the tsconfig makes of it, then a file or
\* a module of node.
FirstFound(v, from, names) ==
    FoldLeft(LAMBDA f, n : IF f # NotFound THEN f ELSE ResolveFromIndex(v, from, n),
             NotFound, names)

OrElse(v, n, found) ==
    CASE found # NotFound -> found
      [] found = NotFound /\ n \in DOMAIN v.lang.labels.of -> Found("file", {v.lang.labels.of[n]})
      [] found = NotFound /\ n \notin DOMAIN v.lang.labels.of /\ IsNodeImport(n) ->
            Found("node", {})
      [] OTHER -> NotFound

ResolveImportStatement(v, from, s, group) ==
    LET expanded == ExpandImport(v.tree, v.lang, s.source, s.path, group)
        Expanded(paths) == [i \in DOMAIN paths |-> ToImportSpecPath(<<>>, s.source, paths[i])]
    IN  OrElse(v, s.imp, FirstFound(v, from, <<s.imp>> \o Expanded(expanded)))

\* resolveImportTypes: the @types package of a package or of node; for what is not
\* found, the rules that declare a module of the name.
TypesOr(types, declared) == IF types # {} THEN {CHOOSE l \in types : TRUE} ELSE declared

ResolveTypes(v, s, how) ==
    LET pkg == IF how = "node" THEN <<"node">> ELSE PackagePart(s.imp)
        declared == IF how = "not found" /\ s.imp \in DOMAIN v.lang.modules
                    THEN v.lang.modules[s.imp] ELSE {}
    IN  IF pkg = <<>> THEN {}
        ELSE TypesOr(LabelsOf(FindRulesWithConfig(v, ToAtTypesPackage(pkg))), declared)

------------------------------------------------------------------------------
(* The imports of a rule. *)

\* resolveImports. A js_resolve directive comes first.  The files that an import of a
\* package is resolved to are apart.
Resolution(v, s, found, types) ==
    LET labels == IF s.types /\ types # {} THEN {} ELSE found.labels
    IN  [deps  |-> types \cup (IF found.how = "file" THEN {} ELSE labels),
         files |-> IF found.how = "file" THEN labels ELSE {},
         error |-> \/ found.how = "error"
                   \/ /\ found.how = "not found" /\ types = {} /\ ~s.optional
                      /\ v.cfg.validate = "error"]

WithTypes(v, s, found) == Resolution(v, s, found, ResolveTypes(v, s, found.how))

ResolveOne(v, from, s, group) ==
    IF HasResolution(v.cfg, s.imp)
    THEN [deps |-> {GetResolution(v.cfg, s.imp)}, files |-> {}, error |-> FALSE]
    ELSE WithTypes(v, s, ResolveImportStatement(v, from, s, group))

AllOf(from, all) ==
    [deps  |-> (UNION {a.deps : a \in all}) \ {from},
     files |-> (UNION {a.files : a \in all}) \ {from},
     error |-> \E a \in all : a.error]

ResolveImports(v, from, info) ==
    AllOf(from, {ResolveOne(v, from, info.imports[imp], info.group) :
                        imp \in DOMAIN info.imports})

\* addTsLib.
ImportsHelpers(config) == config # NoConfig /\ config.plain["import_helpers"] = TRUE
TsLib(v, group) ==
    IF ImportsHelpers(FindGroupConfig(v.tree, v.lang, v.rel, group).config)
    THEN FindPackage(v.lang.projects, v.rel, <<"tslib">>) ELSE {}

\* Resolve: the deps of a rule; the srcs of a package, which are files, and for an
\* npm_package the rules too.  deps that are empty are not set.
WithImports(rule, info, found, lib) ==
    CASE rule.kind = "npm_link_all_packages" -> rule
      [] rule.kind = "npm_package" ->
            [rule EXCEPT !.refs = found.deps \cup found.files \cup info.source]
      [] rule.kind \notin {"npm_link_all_packages", "npm_package"} /\ info.package ->
            [rule EXCEPT !.refs = found.files, !.deps = found.deps \cup info.source]
      [] OTHER -> [rule EXCEPT !.deps = found.deps \cup found.files \cup info.static \cup lib]

ResolvedRule(rule, info, found, lib) ==
    [rule  |-> WithImports(rule, info, found, lib), error |-> found.error]

Resolve(v, rule, info) ==
    ResolvedRule(rule, info, ResolveImports(v, RuleLabel(v.rel, rule.name), info),
             IF rule.kind = "ts_project" THEN TsLib(v, info.group) ELSE {})
==============================================================================
