------------------------------ MODULE JsConfig ------------------------------
(***************************************************************************)
(* config.go and configure.go of the JavaScript extension: the settings of *)
(* a directory, inherited from the directory above it and changed by the   *)
(* directives of its BUILD file, in the order they are written.            *)
(*                                                                         *)
(* A glob is a record: the stems and extensions of the files it matches,   *)
(* and whether they are below ${rootDir}.  A glob of imports is the set of *)
(* the names it matches.  The deprecated directives, which end the         *)
(* program, and values that are not valid for their directive are left     *)
(* out, except that a directive may be invalid as a whole.                 *)
(***************************************************************************)
EXTENDS Paths

CONSTANTS Stem,       \* stems of file names
          TestStem    \* those that end in .spec or .test

\* The map f with the value v for x.
Put(f, x, v) == [y \in DOMAIN f \cup {x} |-> IF y = x THEN v ELSE f[y]]

DefaultLibraryName == "{dirname}"
DefaultTestsName == "{dirname}_tests"
TypescriptExt == {"ts", "tsx", "mts", "cts", "dts", "dmts", "dcts"}

TargetGroup(name, sources, testonly) ==
    [name |-> name, customSources |-> <<>>, inheritedSources |-> sources,
     customAssets |-> <<>>, inheritedAssets |-> <<>>, testonly |-> testonly, visibility |-> <<>>]

RootedGlob(stems) == [rooted |-> TRUE, stems |-> stems, exts |-> TypescriptExt]

NoTsConfig == [enabled |-> {}, fileName |-> "", ignored |-> {}]

RootConfig ==
    [rel |-> <<>>, generation |-> TRUE, proto |-> "enabled", package |-> "referenced",
     packageKind |-> "npm_package", lockRel |-> <<>>, lockfile |-> "pnpm-lock",
     groups |-> Put(<<>>, "", [NoTsConfig EXCEPT !.enabled = {TRUE}, !.fileName = "tsconfig"]),
     packageDeps |-> FALSE, ignore |-> {}, resolves |-> <<>>, validate |-> "error",
     targets |-> <<TargetGroup(DefaultLibraryName, <<RootedGlob(Stem)>>, FALSE),
                   TargetGroup(DefaultTestsName, <<RootedGlob(TestStem)>>, TRUE)>>,
     assets |-> {"import", "jsx", "url"},
     overrides |-> <<>>, packageName |-> "{dirname}"]

SourceGlobs(t) == IF t.customSources # <<>> THEN t.customSources ELSE t.inheritedSources
AssetGlobs(t) == IF t.customAssets # <<>> THEN t.customAssets ELSE t.inheritedAssets

NewChildTarget(t) ==
    [t EXCEPT !.customSources = <<>>, !.inheritedSources = SourceGlobs(t),
              !.customAssets = <<>>, !.inheritedAssets = AssetGlobs(t)]

\* NewChild.  What is ignored and resolved above stays in force below: ignore holds
\* the ignored imports of every directory above, resolves has the nearest first.
NewChild(c, rel) ==
    [c EXCEPT !.rel = rel, !.targets = [i \in DOMAIN @ |-> NewChildTarget(@[i])]]

------------------------------------------------------------------------------
(* What the settings say. *)

\* A group is told apart from the default one by its own setting, if it has one.
TsConfigEnabled(c, group) ==
    IF group \in DOMAIN c.groups /\ c.groups[group].enabled # {}
    THEN c.groups[group].enabled = {TRUE}
    ELSE c.groups[""].enabled = {TRUE}

IsTsConfigIgnored(c, group, prop) ==
    \E g \in {"", group} \cap DOMAIN c.groups : prop \in c.groups[g].ignored

ProtoTargets(c) == c.generation /\ c.proto = "enabled"
ProtoAspect(c) == c.generation /\ c.proto = "aspect"

IsImportIgnored(c, n) == n \in c.ignore

\* GetResolution: the first of the nearest js_resolve directives that matches.
HasResolution(c, n) == \E i \in DOMAIN c.resolves : n \in c.resolves[i].names
GetResolution(c, n) ==
    c.resolves[SelectInSeq(c.resolves, LAMBDA r : n \in r.names)].label

\* CollectAssetsFrom: an import of any other kind is always followed.
CollectAssetsFrom(c, kind) == kind \in {"import", "jsx", "url"} => kind \in c.assets

MapTargetName(c, name) == IF name \in DOMAIN c.overrides THEN c.overrides[name] ELSE name

\* ReverseMapTargetName: a group that is named as a directive renamed it.
ReverseMapTargetName(c, name) ==
    IF \E n \in DOMAIN c.overrides : c.overrides[n] = name
    THEN CHOOSE n \in DOMAIN c.overrides : c.overrides[n] = name
    ELSE name

\* RenderSourceTargetName: the default library gives its name to the package that
\* is made of it.
LibSuffix == "_lib"
RenderSourceTargetName(c, group, hasPackage) ==
    IF hasPackage /\ group = DefaultLibraryName
       /\ MapTargetName(c, group) = DefaultLibraryName /\ c.packageName = DefaultLibraryName
    THEN DefaultLibraryName \o LibSuffix
    ELSE MapTargetName(c, group)

TargetIndex(c, name) == SelectInSeq(c.targets, LAMBDA t : t.name = name)

PnpmLockDir(c) == c.lockRel

------------------------------------------------------------------------------
(* Directives. *)

SetGroup(c, group, f, v) ==
    LET old == IF group \in DOMAIN c.groups THEN c.groups[group] ELSE NoTsConfig
    IN  [c EXCEPT !.groups = Put(@, group, [old EXCEPT ![f] = v])]

GroupOf(c, d) == IF d.group = "" THEN "" ELSE ReverseMapTargetName(c, d.group)
TargetOf(c, d, default) == IF d.group = "" THEN default ELSE ReverseMapTargetName(c, d.group)

\* addTargetGlob: a group there is must be of the same sort; otherwise there is a
\* new one.
AddTargetGlob(c, name, glob, testonly) ==
    IF TargetIndex(c, name) = 0
    THEN [c EXCEPT !.targets =
             Append(@, [TargetGroup(name, <<>>, testonly) EXCEPT !.customSources = <<glob>>])]
    ELSE [c EXCEPT !.targets[TargetIndex(c, name)].customSources = Append(@, glob)]

\* Whether a directive is refused: a misconfiguration is reported, and the rest of
\* the directives is not read.
Refused(c, d) ==
    CASE d.key = "js_visibility" -> TargetIndex(c, TargetOf(c, d, DefaultLibraryName)) = 0
      [] d.key = "js_asset_files" -> TargetIndex(c, TargetOf(c, d, DefaultLibraryName)) = 0
      [] d.key = "js_files" ->
            LET i == TargetIndex(c, TargetOf(c, d, DefaultLibraryName))
            IN  i # 0 /\ c.targets[i].testonly
      [] d.key = "js_test_files" ->
            LET i == TargetIndex(c, TargetOf(c, d, DefaultTestsName))
            IN  i # 0 /\ ~c.targets[i].testonly
      [] d.key = "js_invalid" -> TRUE
      [] OTHER -> FALSE

ApplyDirective(c, d) ==
    LET target == TargetIndex(c, TargetOf(c, d, DefaultLibraryName)) IN
    CASE d.key = "js" -> [c EXCEPT !.generation = d.value]
      [] d.key = "js_tsconfig" -> SetGroup(c, GroupOf(c, d), "enabled", {d.value})
      [] d.key = "js_tsconfig_file" -> SetGroup(c, GroupOf(c, d), "fileName", d.value)
      [] d.key = "js_tsconfig_ignore" ->
            LET g == GroupOf(c, d)
                old == IF g \in DOMAIN c.groups THEN c.groups[g].ignored ELSE {}
            IN  SetGroup(c, g, "ignored", old \cup {d.value})
      [] d.key = "js_tsconfig_package_deps" -> [c EXCEPT !.packageDeps = d.value]
      [] d.key = "js_proto" -> [c EXCEPT !.proto = d.value]
      [] d.key = "js_npm_package" -> [c EXCEPT !.package = d.value]
      [] d.key = "js_package_rule_kind" -> [c EXCEPT !.packageKind = d.value]
      [] d.key = "js_pnpm_lockfile" -> [c EXCEPT !.lockRel = c.rel, !.lockfile = d.value]
      [] d.key = "js_ignore_imports" -> [c EXCEPT !.ignore = @ \cup d.value]
      [] d.key = "js_validate_import_statements" -> [c EXCEPT !.validate = d.value]
      [] d.key = "js_assets" -> [c EXCEPT !.assets = d.value]
      [] d.key = "js_project_naming_convention" ->
            [c EXCEPT !.overrides = Put(@, DefaultLibraryName, d.value)]
      [] d.key = "js_tests_naming_convention" ->
            [c EXCEPT !.overrides = Put(@, DefaultTestsName, d.value)]
      [] d.key = "js_npm_package_target_name" -> [c EXCEPT !.packageName = d.value]
      [] d.key = "js_visibility" -> [c EXCEPT !.targets[target].visibility = d.value]
      [] d.key = "js_asset_files" ->
            [c EXCEPT !.targets[target].customAssets = Append(@, d.value)]
      [] d.key = "js_files" ->
            AddTargetGlob(c, TargetOf(c, d, DefaultLibraryName), d.value, FALSE)
      [] d.key = "js_test_files" ->
            AddTargetGlob(c, TargetOf(c, d, DefaultTestsName), d.value, TRUE)
      [] OTHER -> c

\* The js_resolve directives of one file stay in their order, before those above.
OwnResolves(ds) ==
    [i \in DOMAIN SelectSeq(ds, LAMBDA d : d.key = "js_resolve") |->
        SelectSeq(ds, LAMBDA d : d.key = "js_resolve")[i].value]

\* The directives that are read: up to the first that is refused.
ReadDirective(r, d) ==
    CASE r.refused -> r
      [] ~r.refused /\ Refused(r.config, d) -> [r EXCEPT !.refused = TRUE]
      [] OTHER -> [config |-> ApplyDirective(r.config, d), refused |-> FALSE,
                   read |-> Append(r.read, d)]

WithResolves(r) ==
    [config |-> [r.config EXCEPT !.resolves = OwnResolves(r.read) \o @],
     misconfigured |-> r.refused]

ReadDirectives(c, ds) ==
    LET upTo[i \in 0..Len(ds)] ==
            IF i = 0 THEN [config |-> c, refused |-> FALSE, read |-> <<>>]
            ELSE ReadDirective(upTo[i - 1], ds[i])
    IN  WithResolves(upTo[Len(ds)])

\* Configure, of a directory with the configuration of its parent; the workspace has
\* none above it.
Configure(parent, rel, ds) ==
    ReadDirectives(IF rel = <<>> THEN RootConfig ELSE NewChild(parent, rel), ds)
==============================================================================
