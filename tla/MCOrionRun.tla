----------------------------- MODULE MCOrionRun -----------------------------
(* OrionRun on a root package and the packages a and c: the plugin K declares *)
(* a target where it has sources, M only adds symbols to the database, as the *)
(* maven plugin does for lock files; both read the file fa.                   *)
EXTENDS OrionRun

root == <<>>
a == <<"a">>
c == <<"c">>
MCVisits == <<a, c, root>>
MCPluginIds == <<"K", "M">>
MCFile == {"fa", "fc", "fr"}
MCPkgOf == [f \in MCFile |-> CASE f = "fa" -> a [] f = "fc" -> c [] f = "fr" -> root]
MCSources == [p \in {"K", "M"} |-> IF p = "K" THEN MCFile ELSE {"fa", "fr"}]
MCHash == [p \in {"K", "M"} |-> p]
MCSharedHash == [p \in {"K", "M"} |-> "h"]

x == <<"x">>
lib == <<"lib">>
conf == <<"conf">>
all == <<"all">>

(* The database has x in a, and twice from the file of the root package; K adds *)
(* a member to what all imports of "all" collect.                              *)
Symbol(id, p, repo, pkg) ==
    [id |-> id, provider |-> p, label |-> [repo |-> repo, pkg |-> pkg, name |-> "x"]]
MCAdded(p, f) == IF p = "K" THEN {}
                 ELSE CASE f = "fa" -> {Symbol(x, "M", "main", a)}
                        [] f = "fr" -> {Symbol(x, "M", "main", root), Symbol(x, "M", "lock", root)}
                        [] OTHER -> {}
MCAddedIn(p, pkg) == IF p = "K" /\ pkg = root THEN <<Symbol(all, "K", MainRepo, root)>> ELSE <<>>

MCDeclaring == {"K"}
MCSymbols(p, pkg) ==
    {[lang |-> "K", imp |-> imp] : imp \in CASE pkg = root -> {lib, all, conf}
                                             [] pkg = a -> {all, a \o conf}
                                             [] pkg = c -> {all}}

Import(id, provider) == [id |-> id, provider |-> provider, optional |-> FALSE,
                         multiple |-> FALSE, ancestor |-> FALSE]
MCImportsOf(p, pkg) ==
    CASE pkg = root -> {}
      [] pkg = a -> {Import(x, "M"), [Import(conf, "K") EXCEPT !.ancestor = TRUE]}
      [] pkg = c -> {[Import(x, "M") EXCEPT !.optional = TRUE], Import(lib, "K"),
                     [Import(all, "K") EXCEPT !.multiple = TRUE],
                     [Import(conf, "K") EXCEPT !.ancestor = TRUE]}

Directive(pkg, p, value) == [pkg |-> pkg, plugin |-> p, value |-> value]
NoM == Directive(root, "M", "disabled")
AgainM == Directive(a, "M", "enabled")
NoKInA == Directive(a, "K", "disabled")
MCConfiguration == {{}, {NoM}, {NoM, AgainM}, {NoKInA}, {NoM, NoKInA}, {NoM, AgainM, NoKInA}}
==============================================================================
