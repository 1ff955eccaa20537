------------------------------ MODULE OrionRun ------------------------------
(***************************************************************************)
(* Runs of gazelle with the Orion host as their language: the walk of      *)
(* runFixUpdate over all packages (runner/vendored/gazelle/fix-update.go), *)
(* the stages of generateRules (language/orion/generate.go) with one       *)
(* goroutine per file or plugin, the generation that Imports asks for in   *)
(* packages the run does not update (resolver.go), the symbol database,    *)
(* resolution, and the errors of a run (common/error.go).                  *)
(*                                                                         *)
(* Between two runs the user changes directives and the next run is given  *)
(* other packages; BUILD files and the cache of query results persist.     *)
(* Sources do not change (the caches are the matter of DiskCache), but any *)
(* of them may be unreadable.                                              *)
(***************************************************************************)
EXTENDS OrionSymbols

CONSTANTS Visits,        \* the packages, in the order the walk calls back
          PluginIds,     \* the plugins, in the order they were loaded
          File,
          PkgOf,         \* the package of each file
          Sources,       \* the files each plugin asks for
          Hash,          \* the hash of each plugin's queries
          Added(_, _),   \* what the analysis of a file by a plugin adds to the database
          AddedIn(_, _), \* what declaring in a package adds to it, in order
          Declaring,     \* the plugins that declare a target where they have sources
          Symbols(_, _), \* the index entries (lang, imp) of a plugin's target in a package
          ImportsOf(_, _),   \* and its imports
          RepoName,      \* the name of the repository
          Configuration, \* directives a user may write: sets of [pkg, plugin, value]
          IndexedByRules \* whether a package with sources also has rules, if not updated

Pkg == ToSet(Visits)
Plugin == ToSet(PluginIds)
Target == Pkg \X Declaring
LabelOf(t) == [repo |-> RepoName, pkg |-> t[1], name |-> t[2]]
SymbolsOf(t) == {[lang |-> s.lang, imp |-> s.imp, label |-> LabelOf(t)] : s \in Symbols(t[2], t[1])}

ASSUME OrionAssumption ==
    /\ Visits \in Seq(Pkg) /\ IsInjective(Visits)
    /\ PluginIds \in Seq(Plugin) /\ IsInjective(PluginIds)  \* AddPlugin reports duplicates
    /\ PkgOf \in [File -> Pkg] /\ Sources \in [Plugin -> SUBSET File]
    /\ Plugin = DOMAIN Hash /\ Declaring \subseteq Plugin
    /\ \A p \in Plugin : \A f \in Sources[p] : IsFiniteSet(Added(p, f))
    /\ Pkg \subseteq Seq(STRING) /\ RepoName \in STRING
    /\ \A p \in Plugin : /\ \A f \in File : Added(p, f) \subseteq TargetSymbol
                         /\ \A pkg \in Pkg : AddedIn(p, pkg) \in Seq(TargetSymbol)
    /\ IndexedByRules \in BOOLEAN

VARIABLES directives,  \* the directives of all BUILD files: [pkg, plugin, value]
          rules,       \* the generated targets each BUILD file has
          foreign,     \* targets whose name a rule of another kind has taken
          cache,       \* query results: [file, key, results], results a set of plugins
          walk,        \* [phase, update, pos, pending, failed, qres], the run:
                       \*   pos indexes Visits, then gen; pending is what the
                       \*   goroutines of a stage have yet to do; qres the query
                       \*   results of this package's files
          host,        \* [db, index, gen, removed, deps], what the host and the run
                       \*   have collected
          errs,        \* [acc, surfaced, walk]: errors were reported, were handed on,
                       \*   are the walk's to return
          outcome      \* how the last run has ended

user == <<directives, foreign>>
vars == <<user, rules, cache, walk, host, errs, outcome>>

None == "none"

\* getRawValue: the directive of the nearest package; without one, plugins are enabled.
Enabled(p, pkg) ==
    LET set == {d \in directives : d.plugin = p /\ IsPkgAncestor(d.pkg, pkg)}
    IN \A d \in set : (\A e \in set : Len(e.pkg) <= Len(d.pkg)) => d.value = "enabled"

EnabledIn(pkg) == {p \in Plugin : Enabled(p, pkg)}
SourcesIn(p, pkg) == {f \in Sources[p] : PkgOf[f] = pkg}
PluginsOf(f) == {p \in EnabledIn(PkgOf[f]) : f \in Sources[p]}
Declares(p, pkg) == p \in Declaring /\ Enabled(p, pkg) /\ SourcesIn(p, pkg) # {}

cur == Visits[walk.pos]
Updating == cur \in walk.update

\* A function with the value at x as well.
With(f, x, value) == [y \in DOMAIN f \cup {x} |-> IF y = x THEN value ELSE f[y]]

Phase == {"idle", "walk", "query", "analyze", "declare", "resolve"}
Addition == UNION {{<<p, f, s>> : s \in Added(p, f)} : p \in Plugin, f \in File}

TypeOK ==
    /\ directives \in Configuration
    /\ rules \in [Pkg -> SUBSET Declaring]
    /\ foreign \subseteq Target
    /\ \A row \in cache : row.file \in File /\ row.results \subseteq Plugin
    /\ walk.phase \in Phase /\ walk.update \subseteq Pkg /\ walk.pos \in Nat \ {0}
    /\ walk.failed \in BOOLEAN
    /\ walk.pending \subseteq CASE walk.phase = "query" -> File
                                [] walk.phase = "analyze" -> Addition
                                [] OTHER -> Plugin
    /\ DOMAIN walk.qres \subseteq File
    /\ ToSet(host.gen) \subseteq Target /\ IsInjective(host.gen)
    /\ host.removed \subseteq Target /\ DOMAIN host.deps \subseteq ToSet(host.gen)
    /\ errs \in [acc : BOOLEAN, surfaced : BOOLEAN, walk : BOOLEAN]
    /\ outcome \in {None, "ok", "error", "panic"}

\* A run has a host and an error accumulator of its own.
NewWalk(phase, U) == [phase |-> phase, update |-> U, pos |-> 1, pending |-> {},
                      failed |-> FALSE, qres |-> <<>>]
NewHost == [db |-> <<>>, index |-> {}, gen |-> <<>>, removed |-> {}, deps |-> <<>>]
NoErrors == [acc |-> FALSE, surfaced |-> FALSE, walk |-> FALSE]

Init ==
    /\ directives \in Configuration
    /\ rules = [p \in Pkg |-> {}]
    /\ foreign \in {{}} \cup {{t} : t \in Target}
    /\ cache = {}
    /\ walk = NewWalk("idle", {})
    /\ host = NewHost
    /\ errs = NoErrors
    /\ outcome = None

------------------------------------------------------------------------------
(* Between runs. *)

\* The user edits directives of BUILD files.
EditDirectives(D) ==
    /\ walk.phase = "idle"
    /\ D # directives
    /\ directives' = D
    /\ outcome' = None
    /\ UNCHANGED <<foreign, rules, cache, walk, host, errs>>

\* A run over the packages U.  The others are as a full run would leave them.
UpToDate(pkg) == rules[pkg] = {p \in Declaring : Declares(p, pkg)}
Indexed(pkg) == (\E p \in EnabledIn(pkg) : SourcesIn(p, pkg) # {}) => rules[pkg] # {}

\* Mutant of FreshHost: what the previous run has collected is still there.
SameHost == host

FreshHost == NewHost

Start(U) ==
    /\ walk.phase = "idle"
    /\ \A pkg \in Pkg \ U : UpToDate(pkg) /\ (IndexedByRules => Indexed(pkg))
    /\ walk' = NewWalk("walk", U)
    /\ host' = FreshHost
    /\ errs' = NoErrors
    /\ outcome' = None
    /\ UNCHANGED <<user, rules, cache>>

------------------------------------------------------------------------------
(* The walk's callback, one package after the other. *)

AtPackage == walk.phase = "walk" /\ walk.pos <= Len(Visits)

\* Imports generates a package the run does not update, once, when a rule of it is
\* added to the index: a package without rules is passed by.
Skip ==
    /\ AtPackage /\ ~Updating /\ rules[cur] = {}
    /\ walk' = [walk EXCEPT !.pos = @ + 1]
    /\ UNCHANGED <<user, rules, cache, host, errs, outcome>>

\* Stage 1: the files of each plugin; one goroutine per file follows.
Collect ==
    /\ AtPackage /\ (Updating \/ rules[cur] # {})
    /\ walk' = [walk EXCEPT !.phase = "query", !.failed = FALSE, !.qres = <<>>,
                            !.pending = {f \in File : PkgOf[f] = cur /\ PluginsOf(f) # {}}]
    /\ UNCHANGED <<user, rules, cache, host, errs, outcome>>

\* Mutant of QueriesKey: only the first hash.
FirstHashKey(f) == [h \in {Hash[CHOOSE p \in PluginsOf(f) : TRUE]} |-> 1]

\* The sorted and joined hashes of the plugins with queries for the file: a bag.
QueriesKey(f) ==
    [h \in {Hash[p] : p \in PluginsOf(f)} |-> Cardinality({p \in PluginsOf(f) : Hash[p] = h})]

\* Stage 2: the queries of all plugins on one file, or what the cache has under
\* their key.
Query(f) ==
    LET hits == {row \in cache : row.file = f /\ row.key = QueriesKey(f)}
        results == IF hits = {} THEN PluginsOf(f) ELSE (CHOOSE row \in hits : TRUE).results
    IN /\ walk.phase = "query" /\ f \in walk.pending
       /\ cache' = cache \cup {[file |-> f, key |-> QueriesKey(f), results |-> results]}
       /\ walk' = [walk EXCEPT !.pending = @ \ {f}, !.qres = With(@, f, results)]
       /\ UNCHANGED <<user, rules, host, errs, outcome>>

QueryFails(f) ==
    /\ walk.phase = "query" /\ f \in walk.pending
    /\ walk' = [walk EXCEPT !.pending = @ \ {f}, !.failed = TRUE]
    /\ UNCHANGED <<user, rules, cache, host, errs, outcome>>

\* The group is waited for before its error is looked at.
Waited(phase) == walk.phase = phase /\ walk.pending = {}

\* Results carry the plugin they are for; one that has not asked for the file has
\* no place to put them.
Misplaced == \E f \in DOMAIN walk.qres : walk.qres[f] \ PluginsOf(f) # {}

Analyses == {job \in Addition : /\ job[2] \in DOMAIN walk.qres
                                /\ job[1] \in PluginsOf(job[2]) \cap walk.qres[job[2]]}

AssignResults ==
    /\ Waited("query") /\ ~walk.failed
    /\ IF Misplaced
       THEN /\ outcome' = "panic"
            /\ walk' = [walk EXCEPT !.phase = "idle"]
       ELSE /\ walk' = [walk EXCEPT !.phase = "analyze", !.pending = Analyses]
            /\ UNCHANGED outcome
    /\ UNCHANGED <<user, rules, cache, host, errs>>

\* Stage 3: each analysis adds its symbols to the database.
Analyze(job) ==
    /\ walk.phase = "analyze" /\ job \in walk.pending
    /\ host' = [host EXCEPT !.db = Append(@, job[3])]
    /\ walk' = [walk EXCEPT !.pending = @ \ {job}]
    /\ UNCHANGED <<user, rules, cache, errs, outcome>>

EndAnalyze ==
    /\ Waited("analyze")
    /\ walk' = [walk EXCEPT !.phase = "declare", !.pending = EnabledIn(cur)]
    /\ UNCHANGED <<user, rules, cache, host, errs, outcome>>

\* Stage 4: each plugin declares its targets, and may add symbols as well.
Declare(p) ==
    /\ walk.phase = "declare" /\ p \in walk.pending
    /\ host' = [host EXCEPT !.db = @ \o AddedIn(p, cur)]
    /\ walk' = [walk EXCEPT !.pending = @ \ {p}]
    /\ UNCHANGED <<user, rules, cache, errs, outcome>>

\* What a package that is updated leaves behind: its rules to be resolved, and in
\* the index.  An error not handed on yet is the walk's instead; the walk may go on
\* after it or stop.
Updated(targets, gone, failing) ==
    IF failing /\ ~errs.surfaced
    THEN /\ errs' = [acc |-> TRUE, surfaced |-> TRUE, walk |-> TRUE]
         /\ \E next \in {walk.pos + 1, Len(Visits) + 1} :
                walk' = [walk EXCEPT !.phase = "walk", !.pos = next]
         /\ UNCHANGED host
    ELSE /\ host' = [host EXCEPT !.gen = @ \o targets, !.removed = @ \cup gone,
                                 !.index = @ \cup UNION {SymbolsOf(t) : t \in ToSet(targets)}]
         /\ errs' = [errs EXCEPT !.acc = failing]
         /\ walk' = [walk EXCEPT !.phase = "walk", !.pos = @ + 1]

\* And what Imports takes from a package that is not: the symbols of its rules.
Imported(targets, failing) ==
    /\ host' = [host EXCEPT !.index = @ \cup
                    UNION {SymbolsOf(t) : t \in {u \in ToSet(targets) : u[2] \in rules[u[1]]}}]
    /\ errs' = [errs EXCEPT !.acc = failing]
    /\ walk' = [walk EXCEPT !.phase = "walk", !.pos = @ + 1]

Generated(targets, gone, error) ==
    /\ IF Updating THEN Updated(targets, gone, errs.acc \/ error)
                   ELSE Imported(targets, errs.acc \/ error)
    /\ UNCHANGED <<user, rules, cache, outcome>>

\* Nothing is generated in a package with an unreadable file.
AbortGenerate == Waited("query") /\ walk.failed /\ Generated(<<>>, {}, TRUE)

\* The targets of the plugins in S, in the order of the plugins.
TargetsIn(pkg, S) ==
    LET upTo[i \in 0..Len(PluginIds)] ==
            IF i = 0 THEN <<>>
            ELSE upTo[i - 1] \o IF PluginIds[i] \in S THEN <<<<pkg, PluginIds[i]>>>> ELSE <<>>
    IN upTo[Len(PluginIds)]

\* Stage 5: the declarations.  A name that is taken is an error and leaves the
\* target out.
Convert ==
    LET declared == {p \in Plugin : Declares(p, cur)}
        collides == {p \in declared : <<cur, p>> \in foreign}
    IN /\ Waited("declare")
       /\ Generated(TargetsIn(cur, declared \ collides),
                    {t \in Target : t[1] = cur /\ t[2] \in EnabledIn(cur) \ declared},
                    collides # {})

------------------------------------------------------------------------------
(* After the walk. *)

End(how) ==
    /\ outcome' = how
    /\ walk' = [walk EXCEPT !.phase = "idle"]

EndWalk ==
    /\ walk.phase = "walk" /\ walk.pos > Len(Visits)
    /\ IF errs.walk THEN End("error")
       ELSE /\ walk' = [walk EXCEPT !.phase = "resolve", !.pos = 1]
            /\ UNCHANGED outcome
    /\ UNCHANGED <<user, rules, cache, host, errs>>

Resolution(t) == ResolveImports(ImportsOf(t[2], t[1]), LabelOf(t), {}, host.index, host.db)

\* Mutant of ResolveFails: the run is not cancelled.
ResolveGoesOn == FALSE

\* An import that fails, or an error nobody has handed on, ends the run.
ResolveFails == errs.acc \/ ~Resolution(host.gen[walk.pos]).ok

Resolve ==
    /\ walk.phase = "resolve" /\ walk.pos <= Len(host.gen)
    /\ LET t == host.gen[walk.pos]
       IN IF ResolveFails
          THEN /\ errs' = [errs EXCEPT !.acc = TRUE, !.surfaced = TRUE]
               /\ End("error")
               /\ UNCHANGED host
          ELSE /\ host' = [host EXCEPT !.deps = With(@, t, Resolution(t).deps)]
               /\ walk' = [walk EXCEPT !.pos = @ + 1]
               /\ UNCHANGED <<errs, outcome>>
    /\ UNCHANGED <<user, rules, cache>>

Emit ==
    /\ walk.phase = "resolve" /\ walk.pos > Len(host.gen)
    /\ rules' = [pkg \in Pkg |-> (rules[pkg] \cup {p \in Declaring : <<pkg, p>> \in ToSet(host.gen)})
                                 \ {p \in Declaring : <<pkg, p>> \in host.removed}]
    /\ End("ok")
    /\ UNCHANGED <<user, cache, host, errs>>

Next ==
    \/ \E D \in Configuration : EditDirectives(D)
    \/ \E U \in SUBSET Pkg : Start(U)
    \/ Skip \/ Collect
    \/ \E f \in File : Query(f) \/ QueryFails(f)
    \/ AbortGenerate \/ AssignResults
    \/ \E job \in walk.pending : Analyze(job)
    \/ EndAnalyze
    \/ \E p \in Plugin : Declare(p)
    \/ Convert \/ EndWalk \/ Resolve \/ Emit

Spec == Init /\ [][Next]_vars

------------------------------------------------------------------------------
(* Properties. *)

\* Every plugin analyses the results of its own queries, all of them: none are
\* missing and none of another plugin are mixed in, whatever the cache holds from
\* runs with other plugins enabled (generate.go:79-137).
OwnResults ==
    walk.phase = "query" => \A f \in DOMAIN walk.qres : walk.qres[f] = PluginsOf(f)

\* What a full run would resolve against: the symbols of all packages.
FullIndex == UNION {SymbolsOf(t) : t \in {u \in Target : Declares(u[2], u[1])}}
FullSymbols ==
    (UNION {UNION {Added(p, f) : p \in PluginsOf(f)} : f \in File})
    \cup UNION {UNION {ToSet(AddedIn(p, pkg)) : p \in EnabledIn(pkg)} : pkg \in Pkg}
Absolute(s) == [s EXCEPT !.label.repo = IF @ = MainRepo THEN RepoName ELSE @]
FullDatabase == SetToSeq({Absolute(s) : s \in FullSymbols})

\* A run that succeeds has resolved the imports of its targets as a run over the
\* whole workspace would, in whatever order goroutines have added symbols and
\* whichever packages it has updated (resolver.go:83-96).
SameDeps ==
    outcome = "ok" =>
        \A t \in ToSet(host.gen) :
            host.deps[t] = ResolveImports(ImportsOf(t[2], t[1]), LabelOf(t), {},
                                          FullIndex, FullDatabase).deps

\* A run that has met an error succeeds only if it had nothing to resolve: the
\* errors of packages it does not update are looked at nowhere else
\* (error.go:32-43, fix-update.go:413, fix-update.go:552).
ErrorsFail == outcome = "ok" /\ errs.acc => host.gen = <<>>

\* No import depends on the order of symbols that have the same id: all of them have
\* one label, or one package around the importer has one of them.  A symbol without
\* a repository is not around anything (resolver.go:346).
Rivals(symbols, impt) ==
    LET named == {s \in symbols : s.id = impt.id}
        matched == {s \in named : s.provider = impt.provider}
    IN IF matched = {} THEN named ELSE matched

Decided(rivals, from) ==
    LET labels == {s.label : s \in rivals}
        near == {l \in labels : Encloses(l, from)}
    IN \/ \A l, m \in labels : Qualified(l, from) = Qualified(m, from)
       \/ /\ near # {} /\ \A l, m \in near : l.pkg = m.pkg => l = m
          /\ \A l \in labels : l.repo = MainRepo => RepoName = MainRepo

Unambiguous ==
    \A t \in ToSet(host.gen) : \A impt \in ImportsOf(t[2], t[1]) :
        impt.multiple \/ Decided(Rivals(FullSymbols, impt), LabelOf(t))
==============================================================================
