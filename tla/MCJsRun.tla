------------------------------ MODULE MCJsRun ------------------------------
(* JsRun on a workspace with the pnpm projects a and b, of which a links b.   *)
(* What a workspace may be is the set of its features (on), and the rules     *)
(* its BUILD files have at first (had).                                       *)
EXTENDS JsRun

root == <<>>
a == <<"a">>
b == <<"b">>
MCDirs == {root, a, b}
Steps(op, dirs) == [i \in DOMAIN dirs |-> [op |-> op, dir |-> dirs[i]]]
MCWalk == Steps("configure", <<root, a>>) \o Steps("generate", <<a>>)
          \o Steps("configure", <<b>>) \o Steps("generate", <<b, root>>)
          \o Steps("resolve", <<a, b, root>>)
MCTestStem == {"index.spec"}
MCStem == {"index", "util", "view", "global", "extra", "b"} \cup MCTestStem

If(f, on, s) == IF f \in on THEN s ELSE <<>>
One(f, on, s) == IF f \in on THEN {s} ELSE {}
Ts(stem) == Name(root, stem, "ts")
Rel(n) == [n EXCEPT !.dir = <<Here>> \o @]

data == Name(root, "data", "json")
logo == Name(root, "logo", "svg")
note == Name(root, "note", "svg")
style == Name(<<"dist">>, "style", "css")
tsconfig == Name(root, "tsconfig", "json")
BFile(on, stem) ==
    Name(root, stem, IF "js" \in on THEN "js" ELSE IF "dts" \in on THEN "dts" ELSE "ts")

(* What the files import. *)
Source(imports, elements, urls, modules) ==
    [imports |-> imports, elements |-> elements, urls |-> urls, modules |-> modules]
virtual == Name(root, "virtual", "")
lodash == Name(root, "lodash", "")
node == Name(<<NodeScheme>>, "fs", "")
unknown == Name(root, "unknown", "")
IndexOf(on) ==
    Source(<<lodash>>
           \o (IF on \cap {"paths", "rootdirs"} # {} THEN <<>>
               ELSE <<Name(<<Up, "b">>, "util", "")>>)
           \o If("data", on, <<Rel(data)>>)
           \o If("package", on, <<Name(root, "b", "")>>)
           \o If("paths", on, <<Name(<<"@lib">>, "util", "")>>)
           \o If("rootdirs", on, <<Name(root, "util", "")>>)
           \o If("declare", on, <<virtual>>)
           \o If("unknown", on, <<unknown, node>>)
           \o If("dir", on, <<Name(<<Up>>, "b", "")>>)
           \o If("svg", on, <<Rel(logo)>>)
           \o If("types", on, <<Name(<<"@s">>, "x", "")>>)
           \o If("baseurl", on, <<Name(root, "util", "")>>),
           <<>>, If("url", on, <<Rel(logo)>>), {})
SpecOf(on) ==
    Source(<<Name(<<Here>>, "index", "")>>
           \o If("data", on, <<Rel(data)>>)
           \o If("subpath", on, <<Name(<<Subpath>>, "main", ""), Name(<<Subpath>>, "pkg", ""),
                                   Name(<<Subpath, "own">>, "index", "")>>)
           \o If("self", on, <<Name(root, "own", "")>>), <<>>, <<>>, {})
MCSources(on) ==
    (Name(a, "index", "ts") :> IndexOf(on))
    @@ (Name(a, "index.spec", "ts") :> SpecOf(on))
    @@ (Name(a, "view", "tsx") :>
            Source(<<Name(<<Here>>, "index", "js")>>, <<Rel(logo)>>, <<>>, {}))
    @@ (Name(a, "extra", "ts") :>
            Source(<<Name(<<Here>>, "index", "")>> \o If("again", on, <<Rel(data), Rel(logo)>>),
                   <<>>, <<>>, {}))
    @@ (InDir(b, BFile(on, "util")) :> Source(<<>>, <<>>, <<>>, One("declare", on, virtual)))
    @@ (InDir(b, BFile(on, "index")) :>
            Source(<<Name(<<Here>>, "util", "")>>
                   \o If("cycle", on, <<Name(<<Up, "a">>, "index", "")>>)
                   \o If("badge", on, <<Rel(logo)>>),
                   <<>>, <<>>, {}))
    @@ (Name(root, "global", "dts") :> Source(<<>>, <<>>, <<>>, {}))
    @@ (Name(root, "b", "dts") :> Source(<<>>, <<>>, <<>>, {}))

(* The tsconfigs: of the workspace, and of a, which extends it. *)
Options == (Reflected \ {"tsconfig"}) \cup {"isolated_typecheck", "import_helpers"}
TsConfigFile(set) == [valid |-> TRUE, extends |-> <<>>, plain |-> set @@ [o \in Options |-> Unset],
                      baseUrl |-> Unset, paths |-> Unset, rootDirs |-> Unset, types |-> <<>>,
                      references |-> {}]
Base(on) ==
    [TsConfigFile(("declaration" :> TRUE)
                  @@ (IF "tsx" \in on THEN "preserve_jsx" :> "react" ELSE <<>>)
                  @@ (IF "tslib" \in on THEN "import_helpers" :> TRUE ELSE <<>>))
        EXCEPT !.paths = IF "paths" \in on THEN [NoMap EXCEPT !.wild = <<"@lib">> :> <<b>>]
                         ELSE Unset,
               !.rootDirs = IF "rootdirs" \in on THEN <<a, b>> ELSE Unset,
               !.extends = If("loop", on, <<Name(<<Here, "a">>, "tsconfig", "json")>>),
               !.types = If("types", on, <<node, Rel(Name(root, "global", "dts"))>>)]
OfA(on) ==
    [TsConfigFile(IF "outdir" \in on THEN ("out_dir" :> <<"dist">>) @@ ("root_dir" :> <<Here>>)
                  ELSE <<>>)
        EXCEPT !.extends = If("bases", on, <<Name(<<"b">>, "tsconfig", "json"),
                                             Name(<<Up>>, "tsconfig.base", "json")>>)
                           \o <<Name(<<Up>>, "tsconfig", "json")>>,
               !.baseUrl = IF "baseurl" \in on THEN <<Up, "b">> ELSE Unset,
               !.references = One("refs", on, Name(<<Up>>, "b", "")),
               !.valid = "badconfig" \notin on]
HasTsConfig(on) == on \cap {"refs", "bases"} # {}
MCTsConfigs(on) ==
    (<<"tsconfig">> :> Base(on)) @@ (<<"a", "tsconfig">> :> OfA(on))
    @@ (<<"tsconfig.base">> :> [TsConfigFile("composite" :> TRUE) EXCEPT !.rootDirs = <<a>>])
    @@ (IF HasTsConfig(on) THEN <<"b", "tsconfig">> :> TsConfigFile(<<>>) ELSE <<>>)

(* The lockfile. *)
registry == [kind |-> "registry", dir |-> root]
DepsOfA(on) ==
    (IF "unlinked" \in on THEN <<>>
     ELSE <<"b">> :> (IF "file" \in on THEN [kind |-> "file", dir |-> b]
                      ELSE [kind |-> "link", dir |-> <<Up, "b">>]))
    @@ (<<"react">> :> registry) @@ (<<"tslib">> :> registry)
TypesOfA(on) ==
    IF "types" \notin on THEN <<>>
    ELSE (<<"@types", "lodash">> :> registry) @@ (<<"@types", "node">> :> registry)
         @@ (<<"@types", "s__x">> :> registry)
MCLocks(on) ==
    <<"pnpm-lock">> :>
        [version   |-> IF "lock" \in on THEN "v4" ELSE "v9",
         sections  |-> <<<<"lodash">> :> registry>>,
         importers |-> IF "single" \in on THEN <<>>
                       ELSE (root :> <<<<"lodash">> :> registry>>)
                            @@ (a :> <<DepsOfA(on), TypesOfA(on)>>) @@ (b :> <<<<>>>>)]

(* package.json. *)
Package(name) == [valid |-> TRUE, name |-> name, main |-> {}, exports |-> NoMap, imports |-> NoMap,
                  files |-> {}]
Pattern(negated, name, matches) ==
    [negated |-> negated, wild |-> matches # {}, name |-> name, matches |-> matches]
OwnIndex == <<Name(<<Here>>, "index", "js")>>
MCPackages(on) ==
    (a :> [Package(<<"own">>) EXCEPT
              !.exports.exact = IF "self" \notin on THEN <<>>
                                ELSE Blank :> (OwnIndex \o If("conditions", on, OwnIndex)),
              !.imports.wild = IF "subpath" \notin on THEN <<>>
                               ELSE <<Subpath, "own">> :> <<<<Here>>>>,
              !.imports.exact = IF "subpath" \notin on THEN <<>>
                                ELSE (Name(<<Subpath>>, "main", "") :> OwnIndex)
                                     @@ (Name(<<Subpath>>, "pkg", "") :> <<lodash>>)])
    @@ (b :> [Package(<<"b">>) EXCEPT
              !.main = {Name(<<Here>>, "index", "js")} \cup One("raw", on, Rel(style)),
              !.valid = "badpackage" \notin on,
              !.files = {Pattern(FALSE, Name(root, "any", "svg"), {logo, note}),
                         Pattern(TRUE, note, {}), Pattern(FALSE, Name(root, "gen", "ts"), {})}])

(* The directives. *)
Directive(key, group, value) == [key |-> key, group |-> group, value |-> value]
Svg == [rooted |-> FALSE, stems |-> {"logo"}, exts |-> {"svg"}]
Extra == [rooted |-> FALSE, stems |-> {"extra"}, exts |-> {"ts"}]
MCDirectives(on) ==
    (root :> If("config", on, <<Directive("js_tsconfig", "", FALSE)>>)
             \o If("deps", on, <<Directive("js_tsconfig_package_deps", "", TRUE)>>)
             \o If("elements", on, <<Directive("js_assets", "", {"url"})>>)
             \o If("jsx", on, <<Directive("js_assets", "", {"jsx"})>>)
             \o If("lockfile", on, <<Directive("js_pnpm_lockfile", "", "other-lock")>>)
             \o If("named", on, <<Directive("js_npm_package_target_name", "", "pkg")>>)
             \o If("kind", on, <<Directive("js_package_rule_kind", "", "js_library")>>))
    @@ (a :> If("refused", on, <<Directive("js_invalid", "", "")>>)
             \o If("assets", on, <<Directive("js_asset_files", "", Svg)>>)
             \o If("group", on, <<Directive("js_files", "extra", Extra)>>)
             \o If("ignore", on, <<Directive("js_ignore_imports", "", {lodash, unknown})>>)
             \o If("resolve", on, <<Directive("js_resolve", "", [names |-> {lodash, unknown},
                                                               label |-> RuleLabel(root, "lo")])>>)
             \o If("renamed", on, <<Directive("js_project_naming_convention", "", "{dirname}_js"),
                                     Directive("js_visibility", "{dirname}_js", <<"public">>)>>)
             \o If("tests", on,
                   <<Directive("js_tsconfig_file", DefaultTestsName, "tsconfig.base")>>)
             \o If("warn", on, <<Directive("js_validate_import_statements", "", "warn")>>)
             \o If("ignored", on, <<Directive("js_tsconfig_ignore", "", "declaration")>>))
    @@ (b :> If("off", on, <<Directive("js", "", FALSE)>>)
             \o If("published", on, <<Directive("js_npm_package", "", "enabled")>>))

Json(stem) == Name(root, stem, "json")
FilesOf(on) ==
    (root :> <<tsconfig, Json("tsconfig.base"), Name(root, "global", "dts")>>
             \o If("twice", on, <<Name(root, "b", "dts")>>))
    @@ (a :> <<Ts("index"), Json("package"), tsconfig, data, logo>>
             \o If("spec", on, <<Ts("index.spec")>>)
             \o If("tsx", on, <<Name(root, "view", "tsx")>>)
             \o (IF on \cap {"group", "again"} # {} THEN <<Ts("extra")>> ELSE <<>>))
    @@ (b :> <<BFile(on, "util"), BFile(on, "index"), Json("package"), logo, note>>
             \o (IF HasTsConfig(on) THEN <<tsconfig>> ELSE <<>>)
             \o If("raw", on, <<style>>))

MCTreeOf(w) ==
    LET on == w.on IN
    [files      |-> FilesOf(on),
     gen        |-> (root :> <<>>) @@ (a :> <<>>) @@ (b :> If("gen", on, <<Ts("gen")>>)),
     directives |-> MCDirectives(on),
     sources    |-> MCSources(on),
     tsconfigs  |-> MCTsConfigs(on),
     packages   |-> MCPackages(on),
     locks      |-> MCLocks(on)]

Feature == {"spec", "data", "package", "paths", "rootdirs", "declare", "unknown", "dir", "url",
            "subpath", "self", "js", "dts", "cycle", "tsx", "tslib", "types", "outdir", "refs",
            "badconfig", "lock", "badpackage", "config", "deps", "elements", "refused", "assets",
            "group", "ignore", "resolve", "warn", "ignored", "off", "published", "gen", "kind",
            "raw", "unlinked", "svg", "jsx", "file", "single", "baseurl", "bases", "loop",
            "lockfile", "named", "renamed", "tests", "badge", "again"}
Together == {{"spec", "data"}, {"spec", "subpath"}, {"spec", "self"}, {"unknown", "ignore"},
             {"unknown", "resolve"}, {"unknown", "warn"}, {"off", "dir"}, {"js", "off"},
             {"dts", "outdir"}, {"tsx", "assets"}, {"tsx", "elements"}, {"config", "outdir"},
             {"deps", "refs"}, {"spec", "group"}, {"dir", "refs"}, {"data", "assets"},
             {"paths", "unlinked"}, {"dts", "twice"}, {"spec", "tests"}, {"badge", "dts"}}
\* Those that are edited.
EditWorld == [had : {"nothing"}, on : {{}} \cup {{f} : f \in Feature} \cup Together]
             \cup [had : {"pinned", "kept", "foreign"},
                   on : {{}, {"spec"}, {"group"}, {"spec", "group"}}]
\* All pairs of features, but for rootDirs that are inherited and name a directory that
\* is not linked.
Pairs == {{f, g} : f \in Feature, g \in Feature}
         \ {{"rootdirs", "unlinked"}, {"rootdirs", "single"}}
\* Where several files of a group import the same thing, in the same way or in ways of
\* which one does not count; and where two conditions export one file.
Threes == {{"tsx", "svg", "again"}, {"tsx", "svg", "jsx"}, {"tsx", "url", "again"},
           {"data", "assets", "again"}, {"spec", "self", "conditions"}}
MCWorld == EditWorld \cup [had : {"nothing"}, on : Pairs \cup Threes]

(* An asset that one file renders and another imports, where only elements count. *)
MCAssetsWorld == {[had |-> "nothing", on |-> {"tsx", "svg", "jsx"}]}

MCEdited(v, w) ==
    /\ {v, w} \subseteq EditWorld /\ v.had = w.had
    /\ Cardinality((v.on \ w.on) \cup (w.on \ v.on)) = 1

Had(rule) == rule.name :> rule
MCInitBuild(w) ==
    [d \in MCDirs |->
        CASE d = a /\ w.had = "pinned" ->
                Had([NewRule("ts_project", "{dirname}") EXCEPT !.pin = "glob", !.glob = {"ts"}])
          [] d = a /\ w.had = "kept" ->
                Had([NewRule("ts_project", "{dirname}") EXCEPT
                        !.srcs = {Ts("index.spec"), Ts("gone")}, !.kept = {Ts("index.spec")}])
          [] d = a /\ w.had = "foreign" -> Had(NewRule("genrule", "{dirname}_tests"))
          [] OTHER -> <<>>]
==============================================================================
