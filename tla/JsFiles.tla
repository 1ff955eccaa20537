------------------------------ MODULE JsFiles ------------------------------
(***************************************************************************)
(* The files of the JavaScript extension (generate.go): what the extension *)
(* of a name says, the names a file can be imported by, and the path an    *)
(* import statement stands for.  "dts" is the extension of a name that     *)
(* ends in .d.ts, "dmts" of one in .d.mts, "dcts" of one in .d.cts.        *)
(***************************************************************************)
EXTENDS Paths, TLC

\* What is compiled, what may have imports, what may be imported without its
\* extension, and what only declares.
Transpiled == {"ts", "cts", "mts", "tsx", "jsx"}
SourceExt == Transpiled \cup {"js", "cjs", "mjs"}
Declarations == {"dts", "dcts", "dmts"}
Implicit == {"ts", "tsx", "js", "jsx", "dts"}
TsxExt == {"tsx", "jsx"}
DataExt == {"json"}

IsTranspiled(f) == f.ext \in Transpiled
IsDeclaration(f) == f.ext \in Declarations
IsSource(f) == f.ext \in SourceExt \cup Declarations
IsSourceOrData(f) == IsSource(f) \/ f.ext \in DataExt

JsExt == [e \in Transpiled \cup Declarations |->
            CASE e \in {"mts", "dmts"} -> "mjs" [] e \in {"cts", "dcts"} -> "cjs" [] OTHER -> "js"]
DtsExt == [e \in Transpiled |-> CASE e = "mts" -> "dmts" [] e = "cts" -> "dcts" [] OTHER -> "dts"]

\* toImportPaths: what the compiler makes of a file, or the file itself; the name
\* without the extension; the directory of an index file.
Index == "index"

Outputs(f) ==
    CASE IsTranspiled(f)  -> {[f EXCEPT !.ext = JsExt[@]], [f EXCEPT !.ext = DtsExt[@]]}
      [] IsDeclaration(f) -> {f, [f EXCEPT !.ext = JsExt[@]]}
      [] OTHER            -> {f}

ImportPaths(f) ==
    Outputs(f)
    \cup (IF f.ext \in Implicit THEN {[f EXCEPT !.ext = ""]} ELSE {})
    \cup (IF IsSource(f) /\ f.stem = Index /\ f.dir # <<>> THEN {DirName(f.dir)} ELSE {})

\* toImportSpecPath: the workspace path of an import of the file from.  An URL, with
\* the base Here, is relative to the file however it is written; the base is the
\* directory that absolute names are below, otherwise.
UrlBase == <<Here>>

ToImportSpecPath(base, from, n) ==
    CASE IsAbs(n.dir) -> InDir(IF base = UrlBase THEN from.dir ELSE base,
                               [n EXCEPT !.dir = Tail(@)])
      [] ~IsAbs(n.dir) /\ (IsRelative(n.dir) \/ base = UrlBase) -> InDir(from.dir, n)
      [] OTHER -> [n EXCEPT !.dir = Clean(@)]

------------------------------------------------------------------------------
(* Labels. The name of a rule is one part, that of a file has several. *)

RuleLabel(pkg, name) == [pkg |-> pkg, name |-> <<name>>]
FileLabel(pkg, f) == [pkg |-> pkg, name |-> f.dir \o <<f.stem, f.ext>>]
DeclarationLabel(label) == Last(label.name) \in Declarations

\* addFileLabel: a declaration stays, anything else is overwritten.  Two
\* declarations of one name in different places end the program.
AddFileLabel(labels, path, label) ==
    CASE path \in DOMAIN labels.of /\ DeclarationLabel(labels.of[path]) ->
            [labels EXCEPT !.duplicate =
                @ \/ (DeclarationLabel(label) /\ labels.of[path] # label)]
      [] OTHER -> [labels EXCEPT !.of = (path :> label) @@ @]

\* collectFileLabels: of the generated files of a package, then of the others.
CollectFileLabels(labels, pkg, generated, regular) ==
    LET OfFile(acc, f) ==
            FoldSet(LAMBDA path, l : AddFileLabel(l, path, FileLabel(pkg, f)), acc,
                    ImportPaths(InDir(pkg, f)))
    IN  FoldLeft(OfFile, labels, generated \o regular)

------------------------------------------------------------------------------
(* The srcs of a rule that is there. *)

\* srcsArePinned: srcs that are not a list, or kept as a whole, stay.
IsPinned(rule) == rule.pin # ""

\* ExpandSrcs: the files a glob matches, or those that are listed, without labels.
ExpandSrcs(files, rule) ==
    IF rule.pin = "glob" THEN {f \in files : f.ext \in rule.glob} ELSE rule.srcs
==============================================================================
