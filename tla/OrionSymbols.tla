---------------------------- MODULE OrionSymbols ----------------------------
(***************************************************************************)
(* How the Orion host finds the labels of an import                        *)
(* (language/orion/resolver.go): overrides, the rule index with the        *)
(* symbols targets declare, and the database (plugin/database.go) with the *)
(* symbols analyses have added.                                            *)
(*                                                                         *)
(* Packages and symbol ids are paths, sequences of names; a label is       *)
(* [repo, pkg, name], a symbol of the database [id, provider, label], an   *)
(* entry of the index or of the overrides [lang, imp, label].              *)
(***************************************************************************)
EXTENDS Naturals, SequencesExt

MainRepo == ""   \* how a label writes the repository it is in
Label == [repo : STRING, pkg : Seq(STRING), name : STRING]
TargetSymbol == [id : Seq(STRING), provider : STRING, label : Label]

IsPkgAncestor(anc, pkg) == IsPrefix(anc, pkg)

Encloses(l, from) == l.repo = from.repo /\ IsPkgAncestor(l.pkg, from.pkg)

\* Some of the symbols of the database are a set of indices: their order is the one
\* they were added in.
First(matched) == CHOOSE i \in matched : \A j \in matched : i <= j

\* Mutant of NearestSymbol: the first symbol, however far.
FirstSymbol(db, matched, from) == db[First(matched)]

\* The symbol of the deepest package that encloses the importer, the first one
\* registered if no package does.
NearestSymbol(db, matched, from) ==
    LET near == {i \in matched : Encloses(db[i].label, from)}
        depth(i) == Len(db[i].label.pkg)
    IN IF near = {} THEN db[First(matched)]
       ELSE db[First({i \in near : \A j \in near : depth(j) <= depth(i)})]

LookupSymbols(db, id) == {i \in DOMAIN db : db[i].id = id}

\* Where an import is looked up: under its id and, for an ancestor import, first
\* under the id below the importing package and each package above it.
ImportSpecsToTry(impt, pkg) ==
    LET above == IF impt.ancestor THEN Len(pkg) ELSE 0
    IN [i \in 1..above + 1 |->
           [lang |-> impt.provider, imp |-> SubSeq(pkg, 1, above + 1 - i) \o impt.id]]

Found(entries, spec) == {e.label : e \in {x \in entries : x.lang = spec.lang /\ x.imp = spec.imp}}

Unresolved(type) == [type |-> type, labels |-> {}]
Resolved(labels) == [type |-> "Label", labels |-> labels]

\* The symbol database, for an import the rule index has not settled; of a multiple
\* import the index may have collected some labels, or none but the importer.
ResolveSymbol(impt, from, db, collected, matchedSelfOnly) ==
    LET symbols == LookupSymbols(db, impt.id)
        matched == {i \in symbols : db[i].provider = impt.provider}
        all == collected \cup {db[i].label : i \in matched}
    IN IF impt.multiple
       THEN IF all # {} THEN Resolved(all)
            ELSE Unresolved(IF matchedSelfOnly THEN "None" ELSE "NotFound")
       ELSE IF symbols = {} THEN Unresolved("NotFound")
            ELSE LET rivals == IF matched = {} THEN symbols ELSE matched
                 IN Resolved({NearestSymbol(db, rivals, from).label})

\* resolveImport: the first place that settles the import does so.  A match with
\* nothing but the importer itself settles an import unless it looks further up.
ResolveImport(impt, from, overrides, index, db) ==
    LET specs == ImportSpecsToTry(impt, from.pkg)
        override(i) == Found(overrides, specs[i])
        matches(i) == Found(index, specs[i])
        filtered(i) == matches(i) \ {from}
        settles(i) == \/ override(i) # {} \/ filtered(i) # {}
                      \/ matches(i) # {} /\ (impt.multiple \/ ~impt.ancestor)
        i == CHOOSE n \in DOMAIN specs : settles(n) /\ \A k \in 1..n - 1 : ~settles(k)
    IN CASE \A n \in DOMAIN specs : ~settles(n) -> ResolveSymbol(impt, from, db, {}, FALSE)
         [] OTHER ->
            CASE override(i) # {} -> Resolved(override(i))
              [] override(i) = {} /\ impt.multiple ->
                     ResolveSymbol(impt, from, db, filtered(i), filtered(i) = {})
              [] override(i) = {} /\ ~impt.multiple /\ filtered(i) = {} -> Unresolved("None")
              [] OTHER -> IF Cardinality(filtered(i)) > 1 THEN Unresolved("Error")
                          ELSE Resolved(filtered(i))

\* LabelSet.Add: an empty repository is the importer's own.
Qualified(l, from) == IF l.repo = MainRepo THEN [l EXCEPT !.repo = from.repo] ELSE l

\* resolveImports: an ambiguous import, or one nobody provides and that is not
\* optional, fails the attribute; the importer never depends on itself.
ResolveImports(imports, from, overrides, index, db) ==
    LET result(impt) == ResolveImport(impt, from, overrides, index, db)
        fails(impt) == \/ result(impt).type = "Error"
                       \/ result(impt).type = "NotFound" /\ ~impt.optional
    IN [ok |-> \A impt \in imports : ~fails(impt),
        deps |-> {Qualified(l, from) : l \in UNION {result(impt).labels : impt \in imports}} \ {from}]
==============================================================================
