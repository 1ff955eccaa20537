----------------------------- MODULE NodePackage -----------------------------
(***************************************************************************)
(* The node package of the JavaScript extension: what an import names, and *)
(* what a package.json says of the files of its package.                   *)
(*                                                                         *)
(* A package.json has the fields name, main (the files that 'main',        *)
(* 'types' and 'typings' name), exports and imports (mappings of Paths;    *)
(* the conditions of a key are several targets of it) and files.  Its      *)
(* patterns with a "*" are left out of the entries: addPackageRule skips   *)
(* them.                                                                   *)
(***************************************************************************)
EXTENDS Paths, TLC

\* The scopes of packages, without their "@".
Scope == ("@s" :> "s") @@ ("@types" :> "types")
IsScope(s) == s \in DOMAIN Scope

\* ParseImportPath: the package an import names, or none, and the rest.
PackagePart(n) ==
    LET p == Append(n.dir, n.stem) IN
    CASE IsRelative(p) \/ IsAbs(p) -> <<>>
      [] IsScope(Head(p)) -> IF Len(p) = 1 THEN <<>> ELSE SubSeq(p, 1, 2)
      [] OTHER -> <<Head(p)>>
SubPart(n) == Beyond(PackagePart(n), Append(n.dir, n.stem))

\* The rest as a name; an import of the package itself has none.
Blank == Name(<<>>, "", "")
SubName(n) == IF SubPart(n) = <<>> THEN Blank ELSE Name(Front(SubPart(n)), n.stem, n.ext)

\* IsSubpathImport: the import is mapped by the importing package.
Subpath == "#"
IsSubpath(n) == n.dir # <<>> /\ Head(n.dir) = Subpath

\* ToAtTypesPackage.
ToAtTypesPackage(pkg) ==
    IF IsScope(Head(pkg)) THEN Name(<<"@types">>, Scope[pkg[1]] \o "__" \o pkg[2], "")
    ELSE Name(<<"@types">>, Head(pkg), "")

\* IsNodeImport.
NodeScheme == "node:"
NodeModules == {"fs", "path"}
IsNodeImport(n) ==
    \/ n.dir # <<>> /\ Head(n.dir) = NodeScheme
    \/ n.dir = <<>> /\ n.stem \in NodeModules /\ n.ext = ""

\* ParsePackageJson, addEntry: a target of 'imports' is an entry if it is a file of
\* the package ("./") and not another package.
IsFileTarget(n) == n.dir # <<>> /\ Head(n.dir) = Here

Targets(map) == UNION {ToSet(map.exact[k]) : k \in DOMAIN map.exact}

Entries(json) ==
    {[n EXCEPT !.dir = Clean(@)] :
        n \in json.main \cup Targets(json.exports)
              \cup {t \in Targets(json.imports) : IsFileTarget(t)}}

\* ResolveImport and ResolveExport: the targets, of which two conditions of a key may
\* give one twice.
ResolveImport(json, n) == MapName(json.imports, n)
ResolveExport(json, n) == MapName(json.exports, n)
==============================================================================
