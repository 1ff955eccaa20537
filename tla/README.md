# A verification project for aspect-gazelle

This directory holds TLA+ models of the core of aspect-gazelle, the TLC runs that
check them, and theorems about them checked by TLAPS. The repository is a Go
program: a runner that drives Gazelle with JavaScript, Kotlin and plugin-defined
(Orion) languages over a source tree, once or in a watch session.

`PROJECT.json` lists every definition with the lines it models, every run with its
properties, a mutant per property, the hazards and the findings.

## The system

What runs, and who talks to whom:

    host (bazel watcher)                     watchman daemon
        |  runner/pkg/ibp over                    |  runner/pkg/watchman
        |  runner/pkg/socket                      |
        v                                         v
    runner/runner.go  --->  vendored fix-update pipeline  --->  cache (one of four)
      (watch loop)            configure, walk, generate,           LoadOrStoreFile
                              resolve, emit, DoneGeneratingRules        ^
                                    |                                   |
                                    v                                   |
                              language extensions (js, kotlin, orion) --+
                                    goroutines of common/worker.go

| Component | State | Operations | Hard behaviour | What makes it correct | Status |
|---|---|---|---|---|---|
| Disk cache (`common/cache/disk.go`, `filecompute.go`, `cache.go`) | rows per file and lookup key, a content hash per file, one cache file | `LoadOrStoreFile`, `Persist`, load at start | goroutines of a batch, a lookup in five steps over two maps, crash while rewriting the file, other builds and modes writing the same file | an answer is what the loader makes of the content read; hash and rows never part | modelled, proved |
| Watch-session cache (`common/cache/watch.go`) | verified marks on top | `LoadOrStoreFile`, `Invalidate`, `InvalidateAll` | rows served without reading the file, reports that arrive late | never serves a content from before the last report | modelled, proved |
| Watchman cache (`runner/pkg/watchman/cache.go`) | rows, symlink map, the daemon's clock, walk cache | read with diff, lookups by real path, persist | clock and rows persisted together, daemon restart, first run, links that move | a surviving row agrees with its file | modelled, proved; its walk cache is pruned by the rule of the watch loop's (`WatchCycle`) |
| Watchman client (`watch.go`) | socket, clock | `Start`, `GetDiff`, `Subscribe` | duplicate notifications dropped by hash, state enter/leave, cancellation | every change reaches the subscriber | `Start` and `GetDiff` modelled as the cache uses them; nothing but a test calls `Subscribe` |
| Incremental build protocol (`runner/pkg/ibp`, `runner/pkg/socket`) | connection, version, capabilities, cycle id | `Connect`, `AwaitCycle`, `Serve`, `Cycle`, `CycleReset`, `Exit`, `Close` | two processes and a handshake goroutine, any of them dying at any point, versions of different ages | both ends agree; each cycle is handled at most once, and the call that waits for it returns | modelled, safety proved |
| Watch loop (`runner/runner.go`) | directories to invalidate, walk cache | first run, one run per cycle | a cycle's change set decides what is invalidated and which directories are updated | nothing stale is used, nothing changed is left out but what the walk cache hides | modelled for runs over the whole workspace, safety proved |
| Parallel batches (`common/worker.go`) | two bounded channels | `Parallelize` | a caller that stops reading | every value once; no goroutine left over | modelled, safety proved |
| Fix/update pipeline (`runner/vendored/gazelle/fix-update.go`, `common/error.go`) | visits, rule index, accumulated errors | configure, walk, generate, resolve, emit | errors that must stop the run and appear once | a failed run emits nothing; running again changes nothing | modelled for one language at a time |
| Source discovery (`common/walk.go`, `glob.go`, `runner/pkg/git`) | none | walk, match, ignore | packages nested in packages, update_only | each file belongs to one package | not modelled, see below |
| JavaScript configuration (`language/js/config.go`, `configure.go`, `typescript`, `pnpm`, `node`) | settings per directory, tsconfig files loaded on demand, projects of the lockfile | directives, inheritance, `FindConfig`, `extends`, `ExpandPaths`, exports and imports | a cache filled by the first to ask, cycles of `extends`, groups with files of their own | a directory's settings depend on the directories above it only | modelled but for the syntax of files |
| JavaScript generation and resolution (`generate.go`, `resolve.go`, `kinds.go`, `target.go`) | file labels, declared modules, the imports of each rule | classify, parse, generate, index, resolve | files parsed in any order, data files shared between groups, directories in any order, two merges | same tree, same result; one owner for each file; every import a rule can provide is resolved to it | modelled but for protocol buffers |
| Orion plugin host (`language/orion`) | plugins, symbol database, cached query results | configure, query, analyze, declare, resolve | concurrent analyses filling one database, packages generated from within `Imports`, cached results of other plugins | a partial run resolves as a full one, in every schedule | modelled, safety proved |
| Kotlin extension, Starlark bridge, parsers, BUILD helpers, progress, command line | | | | | not modelled, see below |

## Modules

| Module | Models | Role |
|---|---|---|
| `FileCompute` | rows and values of `filecompute.go` | data shared by the caches |
| `ContentLookup` | the `Cache` interface | abstract specification: an answer is computed from a content the file has had since the cache last had reason to know it |
| `DiskCache` | `disk.go` over `filecompute.go` | component |
| `WatchCache` | `watch.go` | component; extends `DiskCache` and reuses its steps |
| `WatchmanCache` | `watchman/cache.go` and the two calls it makes on `watch.go` | component |
| `IbpProtocol` | `ibp/protocol.go`, `ibp/client.go`, `socket/json.go` | both ends and the connection between them |
| `CycleFeed` | the interface `IncrementalBazel` | abstract specification of the cycles |
| `Parallelize` | `worker.go` and its two kinds of callers | component |
| `Batch` | what a caller of `Parallelize` relies on | abstract specification |
| `WatchCycle` | the loop of `runner.go`, its walk cache and the walk it starts, over a tree of directories | component |
| `OrionSymbols` | `orion/resolver.go`, `orion/plugin/database.go`: what an import resolves to | operators |
| `OrionRun` | `orion/generate.go`, the callback of `fix-update.go`, `error.go`: a run over the packages, and runs after it | component; extends `OrionSymbols` |
| `Paths` | slash-separated paths, mappings with a `*` | operators |
| `Pnpm` | `js/pnpm`: the projects of a lockfile and what they link | operators |
| `NodePackage` | `js/node`: import paths, `package.json` | operators |
| `TsConfig` | `js/typescript`: loading, merging, the nearest configuration, `paths` | operators |
| `JsConfig` | `js/config.go`, `js/configure.go`: settings and directives | operators |
| `JsFiles` | file kinds, import paths and labels of `js/generate.go`, `common/rule/glob.go` | operators |
| `JsGenerate` | `GenerateRules` of `js/generate.go` | operators; extends `TsConfig`, `JsConfig`, `JsFiles` |
| `JsResolve` | `js/resolve.go` | operators; extends `JsGenerate` |
| `JsRun` | runs over a workspace that is edited in between: `fix-update.go`, `js/configure.go`, `js/kinds.go`, the merger | component; extends `JsResolve` |
| `MCDiskCache`, `MCWatchCache`, `MCWatchmanCache`, `MCIbpProtocol`, `MCWatchCycle`, `MCOrionRun`, `MCJsRun` | | small instances |
| `CacheProofs` | | theorems about `DiskCache` and `WatchCache` |
| `WatchmanCacheProofs`, `IbpProofs`, `ParallelizeProofs`, `WatchCycleProofs`, `OrionRunProofs`, `JsRunProofs` | | theorems about the component each is named after |
| `Iteration` | loops over a sequence | what each step keeps holds in the end; instantiated by `JsRunProofs` for directives, groups, tsconfigs and merges |

### How state and actions correspond to the code

*Caches.* `entries` is the `sync.Map` of `fileEntry`; a row that does not exist and
a row without values are the same row. `hashes` is `contentHashes`, `verified` the
map of `WatchCache`, `symlinks` that of the watchman cache, `disk` the one file all
modes share, with the header that says which mode and build wrote it. A lookup is
a goroutine with a program counter named after the call that comes next, so the
steps of two lookups, a persist, a crash and an edit interleave at every access to
shared state. `write()` copies one map after the other and truncates the file
before it writes it; a crash or a failed write in between leaves a file no decoder
accepts. `Invalidate` deletes a row, a hash and a mark, of one path after the other
(`DropHash`, `DropMark`), and a crash may come in between; no lookup runs meanwhile, since
the loop calls it between two runs. A computed value is the triple of key, content and build it was computed
from; that is exactly what staleness is about, and the loaders are left out.

*Watchman.* A clock is represented by the set of names the daemon would report for
it, so edits are unbounded and no counter is needed; a restart of the daemon turns
every clock into one that yields a fresh instance. `WatchmanCache` reads the
changed names in the same order as `read()`: no file, no answer, fresh instance,
diff.

*Protocol.* A connection is a pair of queues with an open flag per end. The
handshake of the host is its own goroutine (`acceptNegotiation`), the host calls
`Cycle`, `CycleReset`, `Exit` and `Close` one at a time; the client is one
goroutine. Either process may die in any state. `handled` is the history of the cycles the
client has handled, in order and with repetitions, so that a cycle handled twice is a step
`CycleFeed` does not have. `EndEvents` are the three kinds that `awaitCycleResponse` takes for
the end of a cycle; no client in the repository sends `CYCLE_ABORTED` or `CYCLE_FAILED`.

*Watch cycles.* A directory has one source and may have a BUILD file, which is
represented by the version of the source it was generated from. `update` is what
`computeUpdatedDirs` selects with everything below, `walkCache` the walker's map of
listings, carried from run to run when `useCache` (`ASPECT_GAZELLE_WALK_CACHE`) and
pruned as `walkCacheEntryInvalidated` says. The walker belongs to a library: it is
modelled from the patch that hands out its map and from the callback it is given.
A listing may be read well before the directory is visited, and everything may
change in between. Directories come and go with what is in them, under a walk cache too:
`Hidden` are those that are not visited because a listing above them is older than they are. `runFixUpdate` appears as its effect on the BUILD files: visit
each directory, then write them all.

*Orion.* A run visits the packages in the order in which the walk calls back; `update`
is the set it generates rules for. In a package, the stages of `generateRules` follow
one another, `pending` being what the goroutines of a stage have yet to do, in any
order. A package that is not updated goes through the same stages when a rule of it
is added to the index, but leaves behind only the symbols of the rules it has.
`errs.acc` is the accumulator of `common/error.go`, `errs.surfaced` its flag,
`errs.walk` an error the walk will return. The results of a query are represented by
the plugin it was asked for, and the key they are cached under by the bag of the
plugins' hashes; plugins themselves are constants: the files they ask for, the
symbols they add, the targets and imports they declare. Their analyses do not fail
(the Starlark proxy logs an error and returns none). Between runs BUILD files and the
cache stay as the last run left them, and directives change.

*JavaScript.* A directory is the sequence of the names on the way to it, a file and what
an import names are a directory, a stem and an extension; an import may lack the
extension. A glob is the set of stems and extensions it matches. What is parsed (source
files, tsconfigs, `package.json`, the lockfile) is given as the record it is parsed into.
A tsconfig is a record of its options; those that are inherited as they are share one
function, `plain`; `baseUrl`, `paths` and `rootDirs`, which are relative to a directory,
are rebased as the code does. `Load` threads the cache of parsed files through, with the
slot that is reserved while a file is loaded; the calls of `parseTsConfigJSONFile` that are
under way are a stack in it, and `LoadSteps` bounds the steps, since a file is opened once. A rule is a record: its srcs without labels,
the labels among them (`refs`), the ones with `# keep`, the attributes that follow the
tsconfig, its deps. Names of rules are the templates they are rendered from
(`{dirname}`).

`JsRun` goes through the steps of `Walk`: configure each directory after the one it is in,
generate each after those in it and merge the result, then build the index of all rules
and resolve directory by directory, with the second merge, then write everything.
`lang` is the state of the extension object (file labels, declared modules, projects,
tsconfigs), created anew by `instantiateLanguages` for each run; `file` is the BUILD files
in memory, `made` what was generated. The files of a directory are parsed by concurrent
workers: the order they finish in is any permutation. An error that the code reports to
the accumulator ends the run at the next check, here the end of the step, and nothing is
written. Between runs the workspace may be edited; the BUILD files are those the last
successful run has left. The merger and the index are Gazelle's: a generated rule is
matched by name, then by the attributes or kind `kinds.go` lists, mergeable attributes are
overwritten, missing ones added, kept srcs stay, and a rule that matches nothing is
inserted as the object that is resolved later.

What an import is resolved to is a list in the code, of which `resolveExplicitImportFromIndex`
counts the members: a rule that two targets of a `package.json` lead to is in it twice. A match
is therefore a label with the places of the targets that led to it (`AtEach`).

*Batches.* Sender, workers, closer and caller of `Parallelize`, one step per
channel operation.

## Runs

| Run | Instance | Shows |
|---|---|---|
| `disk_cache` | one file, two keys, two contents, two builds, one worker | types; persisted hashes and rows agree; answers are fresh; only stale rows are dropped; refinement of `ContentLookup` |
| `disk_cache_early_return` | two workers, a run may persist while lookups still run | the finding below |
| `watch_cache` | one file, two keys, two contents, any change sets and resets | hash and rows agree at each step of an invalidation; the fast path answers from a content not older than the last report; refinement of `ContentLookup` |
| `watchman_cache` | a file and a name that may be a link to it | surviving rows are recent, the persisted rows agree with the persisted clock, keys are real paths, refinement of `ContentLookup` |
| `watchman_blank_clock` | two files, no assumption on what happens between two runs | finding |
| `ibp` | two connections, clients of three builds and three requests, two cycles | agreement, no unexpected message, failures only on loss, calls return, refinement of `CycleFeed` |
| `watch_cycle` | a workspace with packages `a` and `a/b`, sources and BUILD files that come and go at any time | incremental runs end with the BUILD files of a full run, and a change is reflected in the end, but for hidden directories; no listing outlives a change of its directory's source, and none at all a run without a walk cache |
| `orion` | packages root, `a` and `c`, a plugin that declares targets and one that only adds symbols, six sets of directives, runs over any packages | a plugin gets the results of its own queries; a partial run resolves as a full one; an error is lost only if there is nothing to resolve |
| `orion_shared_queries` | both plugins have the same queries | finding |
| `js` | a workspace with the pnpm projects `a` and `b`, of which `a` links `b`, with every pair of 51 features and five groups of three, some 80 of these workspaces edited up to twice | a run that is repeated succeeds and changes nothing, in whatever order files are parsed, where two files import a thing in one way (`OneWay`); no file is in two rules that are generated for a directory; an import of a file that a rule provides is resolved to that rule; the directories a rule asks to have indexed hold every rule it is resolved to |
| `js_assets` | a file renders the asset that another imports | finding |
| `parallelize` | six values, two workers, two failing values | each value in one place, drained batches end, abandoned batches end exactly if the rest fits the buffer, refinement of `Batch` |

*Why the bounds are enough.* Rows of two files never meet: every operation works
on one path, or on all of them alike, so one file shows what can happen to a row,
and the theorems of the three caches hold for any number of files, keys, contents,
builds and workers. Two contents tell stale from fresh, two keys tell a row from a
value, two builds tell a cache file of this build from another's. Edits, runs and
crashes are not bounded. The watchman run needs two names, a link and its target;
it has one lookup at a time (with two the same configuration holds, in 3.2 million
states). Two cycles show an answer meeting the next cycle, two connections show a
client that comes back; `MaxCycle` and `MaxConnect` are the only bounds of
`IbpProtocol`. In `Parallelize` the buffers have the size of the worker count, so
six values over two workers fill both channels, both workers and the caller's hand,
with values left over. Three
directories in a chain give a change a parent to climb to, a package below that is
updated with it, and a listing that must stay; changes and cycles are unbounded.
In `orion` one file is read by both plugins, so that each of their subsets has a key;
one symbol has a provider in the package, one above it, and two from one file, so
that the nearest differs from the first; `c` imports by the index, by the database, by
both, and by its ancestors; runs, directives and failures are unbounded.

In `js` a workspace has up to two features, any two of them together, or one of five groups of
three: test files and data
files, a package's own imports, exports and subpaths, tsconfigs with several bases, a base
in a linked package, a cycle, `paths`, `baseUrl`, `rootDirs`, `outDir` and references, each
directive, generated files, declarations, JSX, kept and pinned srcs, rules of other kinds in
the way. Those that bear on each other (`Together`), and those with one feature or none, are
edited: two edits lead from any of them to one next to it and on or back, so that every run
finds the rules of another workspace. Where several files of one group import the same data
file or asset (`again`, `tsx` with `svg` or `url`), the order in which they are parsed decides
which statement is kept; a rule that looked for assets only among imports would differ from
run to run there, which the mutant of `Stable` shows. In one workspace of the instance, that
of the finding, the order decides what is written (`{"tsx", "svg", "jsx"}`); it is the only one
`OneWay` excludes, and `Stable` fails on it without that premise. Three directories are a parent, one below it that is
generated first and one that depends on a directory configured after it. `MaxEdits` is the
only bound on the behaviour; runs are not bounded. Some workspaces make the run fail, as
they should: an unsupported or missing lockfile, a directive that is refused, an unreadable
`package.json`, an import nobody provides, one name declared twice, a rule of another kind
with the name of a new one.

`CHECK_DEADLOCK FALSE` is set where the system may stop for good: after a batch,
and when the host has ended and no connection may be dialled any more.

## Fairness

`Parallelize` and `IbpProtocol` assume that a goroutine that can take a step takes
one in the end (weak fairness per goroutine; Go's scheduler is preemptive and
channel and socket operations wake their waiter), that the function a worker calls
returns, and that the body of the watch loop returns. Nobody has to dial, issue a
cycle, edit, crash or close. The caches have no liveness properties: every lookup
is a straight line. `WatchCycle` assumes that the loop, its walk and the host go on
(weak fairness of all their steps together: a run ends, and a host with a change to
report issues a cycle); which of a cycle and a reset comes is left open.

## What is proved

Every theorem holds for all values of the constants that satisfy the named assumptions of
its module, and for the hypotheses given here. Each rests on an inductive invariant, whose
parts are named definitions of the proof module.

| Module | Theorems | Hypotheses |
|---|---|---|
| `CacheProofs`, of `DiskCache` | `InvariantHolds`; `TypesHold`; `CoherenceHolds`: in memory and in every cache file it would load, the hash of a file is the hash of the content its rows were computed from; `FreshnessHolds`: an answer is computed from the content the lookup read, for the key asked and by this build; `EvictionIsJustified`: a row is dropped only for a content it was not computed from; `RefinesLookup`: it implements `ContentLookup` | `~EarlyReturn`; refinement: `Stamped` |
| `CacheProofs`, of `WatchCache` | `WatchInvariantHolds`, `WatchTypesHold`, `WatchCoherenceHolds`, `VerifiedRecentHolds`: what is served without reading the file is of a content since the last report; `RefinesWatchLookup` | the same |
| `WatchmanCacheProofs` | `WatchmanInvariantHolds`, `WatchmanTypesHold`, `EntriesRecentHolds`, `DiskSoundHolds`, `KeysAreRealHolds`, `RefinesWatchmanLookup` | `~Dangling`, `QuietStart`; refinement: `Stamped` |
| `IbpProofs` | `IbpInvariantHolds`, `IbpTypesHold`, `AgreementHolds`, `InStepHolds`, `FailsOnlyOnLossHolds`, `ImplementsFeed`: it implements `CycleFeed` | none |
| `ParallelizeProofs` | `BatchInvariantHolds`, `ParallelizeTypesHold`, `OnePlaceHolds`, `ImplementsBatch` | none |
| `WatchCycleProofs` | `CycleTypesHold`, `ReadInvariantHolds`, `CacheTrueHolds`, `ConvergedHolds` | the last: `RootBuild` |
| `OrionRunProofs` | `RunInvariantHolds`, `OrionTypesHold`, `ErrorsFailHolds`, `ResultsInvariantHolds`, `OwnResultsHolds` | the last two: `DistinctHashes` |
| `OrionRunProofs` | `CollectedInvariantHolds`; `SameDepsHolds`: a run that succeeds has resolved the imports of its targets as a run over the whole workspace would | `DistinctHashes`, `IndexedByRules`, `AddedWithSources`; the last: in states with `Unambiguous` |
| `JsRunProofs` | `JsTypesHold`; `OneOwnerHolds`: no file is in two rules of a directory that a run has generated, but where the user put it | none; the last speaks of directories where no two generated rules have one name (`NamesApart`) |

The hypotheses are the assumptions below; the runs that find a violation show that
`~EarlyReturn`, `QuietStart` and `DistinctHashes` cannot be left out.

*Caches.* None of the properties is inductive by itself. While a lookup has dropped a row
and not yet stored the new hash, hash and row agree only because the row is empty
and because no other lookup of that path runs (`Exclusive`); a value about to be
stored is the right one only because of what the lookup has done before it
(`JobInv`: at each stage, what is known of the content, the stored hash and the
row); and the file written is coherent only because, when the first of the two
maps is copied, no lookup runs until both have been (`PhaseInv`, `SnapInv`). `IInv`
is the conjunction of these parts; it does not hold without `~EarlyReturn`. Refinement
assumes `Stamped`: an unstamped build loads the rows of any other build.
A session adds `SeenInv`: what a lookup holds while it is on its way is of a content since
the last report, so that marking its file verified is sound.

The watchman cache has neither hashes nor exclusive lookups. `ClockInv` says what the
daemon would still report for the clock of the process, `MemoryInv` that a row or a value
under way is of a content since that clock, `FileInv` that the cache file pairs its rows with
a clock at least as old as they are. That the persisted rows are sound (`DiskSound`) needs
all three, since `Persist` takes rows, links and clock together.

*Protocol.* `AgreementHolds` speaks of the two ends alone, but it depends on what travels
between them: `VersionInv` ties what each end knows to the messages in the pipes of the
connection, `StepInv` says for every pair of program counters what the pipes hold (never more
than two messages), `UpInv` what remains of it when the client has gone or is on another
connection. `InStepHolds` and `FailsOnlyOnLossHolds` follow, and `HandledInv` gives the
refinement of `CycleFeed`: the cycle the host waits for is the only one not yet handled, and
no id is in the history of handled cycles twice.

*Batches.* `OnePlace` counts a value in five places; the proof shows that each channel
operation moves one value from one place to the next. `OrderInv` is the order in which the
channels are closed, from which it follows that the caller's range ends only when nothing is left.

*Watch loop.* `ReadInv` says which cached listings and generated rules agree with the tree: what
a listing says of its directory's source is right unless that has an unreported change
(`SrcInv`); a listing of a run without a walk cache names the directories there are, if
nothing has changed since the run began (`SubdirsInv`); what is generated comes from the
sources (`VisitInv`); and that the walk, although it follows listings it reads ahead, has a way
to each directory without an unreported change, unless a walk cache may hide it (`PathInv`).
`PhaseInv` adds that during a run the directories it is not to update are up to date or hidden,
and that between runs all are, but for unreported changes: a directory without a BUILD file of its
own is up to date because that of the nearest package is. Trees are arbitrary:
`TreeAssumption` includes that any set of directories with the root and with every child of its
members has them all, from which the facts about `AncestorsOf` are derived. `NoneAssumption` keeps the mark of a missing listing apart from
listings.

*Orion.* `RunInv` relates the position of the walk to what has been collected, from which
each target is generated once and resolved at most once (`TypeOK`), and tracks an error from
where it occurs to where it is returned (`PassedInv`, `EndInv`); `ResultsInv` reads each row of the query
cache back into the plugins its key stands for, which `DistinctHashes` makes possible.
`OrionAssumption` includes that the walk visits a package once and that plugins have
different names (`host.go:179` reports a duplicate).

`SameDeps` compares a database filled in any order with one that has the same symbols in
another. `CollectedInv` says, package by package, that what the database and the index hold,
together with what the goroutines of the current stage have yet to add, is what the packages
passed so far add in a full run (`DbInv`, `IndexInv`); a package that is passed by adds
nothing, since packages that are not updated are as a full run leaves them (`KeptInv`) and
plugins add symbols only where they have sources (`AddedWithSources`); after the walk it
is what all packages add (`FullInv`). The rest is about the operators of `OrionSymbols`: two databases with
the same symbols, whatever their order, give the same dependencies (`NearestSame`,
`ResolveImportsSame`), unless the order decides between rivals, which `Unambiguous`
excludes: of the symbols an import may be given, all have one label, or each package around the
importer has one of them at most and there is one that has. The order does decide in the code
otherwise: `nearestSymbol` takes the first of its matches, and goroutines add them.
`Unambiguous` holds in every successful run of the `orion` instance, where three symbols share id
and provider: two in packages around the importer, one in another repository.

*JavaScript.* `IInv` says that a step of the walk finds the settings and the generated rules of
exactly the directories that were gone through (`Phases`, from which `JsTypesHold`), that rules
in BUILD files are found under their names (`FilesOK`), and, for each directory that was
generated (`DirOK`): generated rules have nothing of the user's; a rule is inserted only where
the user has none; no two generated rules hold the same file, but where the srcs are the
user's (`Disjoint`); and a rule of the BUILD file that is a generated one has no file that
this one does not hold, unless the user keeps it (`AllOwned`, which needs names that are apart:
a rule that two are merged into has the files of both). `Disjoint` is what
the code has to work for: `addSourceRules` fills one group after the other and takes from
the data files what a group has imported. The invariant of that loop, `Grouped`, says that
what the rules hold so far are files of the groups gone through or data files
that are no longer to be had (`Used`). Rules are merged twice; what the user has pinned or keeps is the
same before and after each merge (`SameUser`), and the second takes srcs of no rule that the
first has left without its own.
`WalkAssumption` says that the walk goes through each directory once for each of
its three passes, after those it depends on; `WorldAssumption` that a workspace has a
BUILD file in each directory, whose rules have the fields of a rule and are found under their names,
and its directives in sequence. Nothing is assumed of files, tsconfigs, lockfiles, packages or edits.

The operators of `JsGenerate` go through sequences by recursive functions. `Iteration` states
once what a loop keeps (`Invariance`), from which the lemmas about directives, groups,
tsconfigs and merges are instances.

Induction on naturals is used in the form of sets (a set of naturals that has 0 and the
successors of its members has all of them, `NatSetInduction`), which follows from the well-foundedness of
their order.

Only model-checked:

* the properties that need fairness (`DrainedEnds` and `Abandoned` of `Parallelize`;
  `CycleReturns`, `ConnectReturns` and `HostEndReleases` of `IbpProtocol`; `Reflected` of
  `WatchCycle`) and what is ENABLED, out of the prover's reach;
* `Complete`, `LazyReached` and `Stable` of `JsRun`, for the workspaces of `js`. The first two
  follow an import from the file it is in through an index that all directories have filled. They
  do not hold of every workspace: directives that give two groups one name leave a rule with the
  deps of the group merged last, and a rule whose `out_dir` leads into another directory
  provides, for itself, the files another rule has there. A theorem would need
  hypotheses about names and outputs, which the instance meets. `Stable` compares two
  whole runs, of which every operator of `JsGenerate` and `JsResolve` is a part.

## Assumptions

* `HashOf` is injective: the digest of `computeCacheKey` has no collisions.
* The files of a batch are distinct and batches follow one another, so no two
  lookups of the disk cache share a path (`Call`). Callers pass the source files of
  one package at a time.
* Copying one map is one step. A copy that overlaps a lookup is covered by the
  order in which the two maps are copied; with no lookup running it cannot overlap.
* One process at a time uses the cache file.
* A change that is made while a watch cycle runs is reported by the host in a later
  cycle; the model allows any report at any cycle, and the properties speak of what
  was reported (`seen`).
* In `WatchmanCache`, `QuietStart` excludes the finding below, links point to
  regular files and are resolved in one step, and `Dangling` excludes links without
  a target: one that gets its target in the middle of a run is cached under its own
  name.
* In `WatchCycle` the host reports a change in the first cycle after it, BUILD files
  can be written, and the workspace has a BUILD file at its root (`RootBuild`).
  Without one, a changed file with no BUILD file above it is updated by a run over
  the whole workspace if it is alone in its change set and not at all if another
  changed file has a BUILD file above it.
* In `OrionRun` the plugins' queries have distinct hashes (`DistinctHashes`), a package that
  is not updated is as a full run leaves it and has a rule if it has sources
  (`IndexedByRules`), a plugin that adds symbols while it declares the targets of a package
  has sources there (`AddedWithSources`), one importer is enclosed by at most one provider
  per package (`Unambiguous`), libraries are indexed (`-index=all`), and BUILD files can
  be written. The finding shows what happens without the first; `SameDeps` fails on variants of
  the instance without any of the next three. Without `IndexedByRules` or `AddedWithSources`, a
  package where plugins only add symbols to the database (`AddSymbol`) and that is not
  updated is never analyzed, since `Imports` is called once per rule, and imports of its
  symbols are resolved without them (`orion/resolver.go:86` speaks of generating such packages
  "manually"). A symbol with an empty repository is never the nearest
  (`orion/resolver.go:346`); the instance has none that competes with another.
* `Converged` and `Reflected` except the directories the walk cache hides (`Hidden`). A
  change drops the listings of its directory and of those below; that of the parent stays
  (`runner.go:451`), although the watchman cache, which has the same rule, speaks of the path
  "and its parents" (`runner/pkg/watchman/cache.go:156`). A directory that appears in a session
  with `ASPECT_GAZELLE_WALK_CACHE` is not visited before something above it changes or the
  cache is reset, and its BUILD file is not written. Without that setting nothing is hidden.
* `Stable` speaks of workspaces where the files of a directory that import one thing do so in the
  same words, and all in a way that collects assets or none (`OneWay`). Where they do not, the
  order in which workers finish decides, and two runs over the same tree may write different BUILD
  files: fourth finding.
* In `JsRun` tsconfig files and lockfiles lie in the directory that names them, each
  directory is a package of its own, runs are full ones and index every rule
  (`-index=all`), and the walk follows one order. `LazyReached` states what an index made on
  demand has to offer; it excludes inherited `rootDirs`, which `ExpandPaths` joins
  without the directory of the tsconfig (`tsconfig.go:748`). Gazelle's own `resolve`
  directive, mapped kinds, protocol buffer rules and embedded rules are left out. Deprecated
  directives and invalid values of single directives, which end the process, are not
  modelled.
* Both ends of the protocol speak this code; older builds differ in the versions
  they list. Malformed JSON is not modelled.

## Findings

1. *An abandoned batch corrupts the disk cache* (`disk_cache_early_return`). The
   JavaScript extension leaves a batch at the first unreadable file, the run fails,
   the cache is persisted all the same, and a lookup still running may have its
   value copied without its hash. A later process has no hash to compare and
   answers from the old content.
2. *The first run's watchman cache has no clock* (`watchman_blank_clock`). `read()`
   returns before it has a clock whenever there is no usable cache file; the rows of
   that run are persisted with an empty clock, and the next process takes an empty
   clock to mean its own start. Files edited between the two runs are served from
   before the edit.
3. *Plugins with the same queries* (`orion_shared_queries`). The key of cached query
   results is made of the hashes of the plugins' queries, the results are named after
   the plugins. When one plugin is disabled and another with the same queries enabled,
   the results of an unchanged file are those of the first: assigning them panics.
4. *Assets named in two ways* (`js_assets`). The imports of a rule are a set ordered by path:
   of two statements that name the same file the one added last stays, and files are
   parsed concurrently. Where only assets of elements are collected
   (`# gazelle:js_assets jsx`), an asset that one file renders and another imports becomes
   part of the rule or of no rule, depending on which file is parsed last: a run that is repeated
   may write another BUILD file.

## Plan

What is left, in this order:

1. Lemmas about the operators of `JsFiles` and `JsConfig`: what a file can be imported as
   holds the file or its output, a directive changes the settings of its own directory
   and those below.
2. Several languages in one run, and kind mappings.
3. The Starlark thread that concurrent analyses of one plugin share.

## Not modelled, and why

The Starlark bridge, the tree-sitter parsers and the queries are pure conversions
without state of their own. The Kotlin extension uses the batches and lookups modelled
here; its generation makes one library per directory and a binary per file with a
main, its resolution looks imports up in the index and in what the Maven lockfile
names, and neither keeps state from one directory to the next. Source discovery is one pass over
a listing; the models take the files of a directory as given. `Subscribe` of the watchman
client is called by nothing in the repository but its test. Protocol buffer rules of the
JavaScript extension follow another extension's rules and need its model. Helpers on labels and
BUILD file syntax, progress output, command-line flags, packaging, prebuilt
binaries and examples have no behaviour that needs a model. Generated grammars and
third-party code are left out.

Seen while modelling: when the last transpiled source of a rule is removed, `addProjectRule`
changes the kind of the existing rule in place (`generate.go:959`) and generates a `js_library`
without assets; `assets` is merged for `ts_project` only (`kinds.go:45`), so it stays in the
BUILD file, although "js_library has no `assets` attribute" (`generate.go:982`), and no
later run removes it. TLC shows it in two runs with an edit between them (features `badge` and
`dts`); `OneOwner` leaves such assets out.

Seen while modelling: an import of a package by its own name, where two conditions of its
`exports` lead to files of one rule or to one file, "resolved to multiple targets"
(`resolve.go:616`), though the targets are one; the subpath imports of `imports` are exempt. The
workspace `{"spec", "self", "conditions"}` of `js` fails so.

Seen while modelling, and left out of the instances: `b.d.ts` beside `b/index.d.ts` ends
the program (`generate.go:1368`), since both can be imported as `b`; a package generated as a
`js_library` gets the files its `package.json` names and no rule provides when it is
inserted, and loses them when it is generated again: `Resolve` sets its srcs
(`resolve.go:409`), which `kinds.go` lets be merged only before resolution (so no workspace of
`js` has such a file together with `js_package_rule_kind js_library`); `mergeBaseConfigs`
takes over a `baseUrl` without rebasing it, unlike `paths`; which of the files in a cycle of
`extends` misses its base depends on which is asked for first; a directory that becomes
a linked package keeps the library that had the package's name, and importers see two
rules (`generate.go:394`).
