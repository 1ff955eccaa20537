------------------------------ MODULE TsConfig ------------------------------
(***************************************************************************)
(* typescript/tsconfig.go and typescript/config.go: tsconfig files, the    *)
(* options they inherit through 'extends', the cache they are loaded into  *)
(* on demand, the nearest one of a directory, and what it makes of an      *)
(* import.                                                                 *)
(*                                                                         *)
(* J maps the path of each tsconfig file to its contents:                  *)
(*   valid       whether it can be read and parsed                         *)
(*   extends     names of the files it extends, later ones first in line   *)
(*   plain       the options that are inherited as they are (declaration,  *)
(*               outDir, jsx, ...), each with its value or Unset           *)
(*   baseUrl     a relative directory, or Unset                            *)
(*   paths       a mapping of Paths, or Unset                              *)
(*   rootDirs    a sequence of relative directories, or Unset              *)
(*   types, references                                                     *)
(***************************************************************************)
EXTENDS Pnpm, NodePackage

CONSTANTS Unset,    \* of an option: not there
          Invalid,  \* a file being loaded, or one that failed to
          NoConfig  \* where no tsconfig is found

Dir(f) == Front(f)

Or(a, b) == IF a # Unset THEN a ELSE b

\* Directories relative to the configuration of base, seen from dir.
Rebase(dir, base, p) == Join(RelTo(dir, base.dir), p)
RebasePaths(dir, base) ==
    IF base.paths = Unset THEN Unset
    ELSE [base.paths EXCEPT !.rel = Rebase(dir, base, @)]
RebaseRootDirs(dir, base) ==
    IF base.rootDirs = Unset THEN Unset
    ELSE [i \in DOMAIN base.rootDirs |-> Rebase(dir, base, base.rootDirs[i])]

\* mergeBaseConfigs: right over left, both seen from dir.  baseUrl is taken over as
\* it is.
MergeBaseConfigs(left, right, dir) ==
    [left EXCEPT
        !.dir = dir,
        !.plain = [o \in DOMAIN @ |-> Or(right.plain[o], left.plain[o])],
        !.baseUrl = Or(right.baseUrl, left.baseUrl),
        !.paths = Or(RebasePaths(dir, right), RebasePaths(dir, left)),
        !.rootDirs = Or(RebaseRootDirs(dir, right), RebaseRootDirs(dir, left))]

\* The defaulted "." of baseUrl.
BaseUrl(c) == IF c.baseUrl = Unset THEN <<>> ELSE c.baseUrl

\* A reference is a file, or a directory with a tsconfig.json.
Reference(dir, r) ==
    IF r.ext = "json" THEN InDir(dir, r)
    ELSE Name(Join(dir, Append(r.dir, r.stem)), "tsconfig", "json")

\* What f extends, seen from its directory: its bases, the later ones over the earlier.
Inherited(own, dir, bases) ==
    IF bases # <<>>
    THEN FoldLeft(LAMBDA l, r : MergeBaseConfigs(l, r, dir), Head(bases), Tail(bases))
    ELSE [dir |-> dir, plain |-> [o \in DOMAIN own.plain |-> Unset],
          baseUrl |-> Unset, paths |-> Unset, rootDirs |-> Unset]

\* What f says over what it inherits. Its own paths are relative to the baseUrl they
\* come with.
Plain(own, base) == [o \in DOMAIN own.plain |-> Or(own.plain[o], base.plain[o])]

OwnBaseUrl(own, dir, base) ==
    CASE own.baseUrl # Unset -> Clean(own.baseUrl)
      [] own.baseUrl = Unset /\ base.baseUrl # Unset -> Rebase(dir, base, base.baseUrl)
      [] OTHER -> Unset

OwnPaths(own, dir, base) ==
    LET baseUrl == OwnBaseUrl(own, dir, base)
    IN  IF own.paths = Unset THEN RebasePaths(dir, base)
        ELSE [rel |-> IF baseUrl = Unset THEN <<>> ELSE baseUrl, map |-> own.paths]

OwnRootDirs(own, dir, base) ==
    IF own.rootDirs # Unset THEN own.rootDirs ELSE RebaseRootDirs(dir, base)

\* parseTsConfigJSON, of what f says and what it inherits.
Config(own, f, base) ==
    [dir        |-> Dir(f),
     name       |-> Last(f),
     plain      |-> Plain(own, base),
     baseUrl    |-> OwnBaseUrl(own, Dir(f), base),
     paths      |-> OwnPaths(own, Dir(f), base),
     rootDirs   |-> OwnRootDirs(own, Dir(f), base),
     extends    |-> own.extends,
     types      |-> own.types,
     references |-> {Reference(Dir(f), r) : r \in own.references}]

------------------------------------------------------------------------------
(* Loading, with the files loaded so far. *)

\* tsConfigResolver: the files an entry of 'extends' may name: one relative to
\* dir, or one of a directory that the project of dir links as a package.
Potential(projects, dir, n) ==
    LET path == n.dir \o <<n.stem>>
        project == GetProject(projects, dir)
    IN  IF IsRelative(n.dir) THEN <<Join(dir, path)>>
        ELSE IF HasProject(projects, dir) /\ PackagePart(n) \in References(projects, project)
        THEN <<Join(projects[project].packages[PackagePart(n)], SubPart(n))>>
        ELSE <<>>

\* parseTsConfigJSONFile, where l has the files loaded so far, the stack of those being
\* loaded, and what the last one that was asked for is until it is taken as a base.  The
\* slot of a file is reserved while it is loaded, so that a cycle of 'extends' ends, and
\* stays reserved when it cannot be loaded.
Open(J, l, f) ==
    LET reserved == [l EXCEPT !.configs = @ @@ (f :> Invalid)] IN
    CASE f \in DOMAIN l.configs ->
            [l EXCEPT !.answer = <<IF l.configs[f] = Invalid THEN NoConfig ELSE l.configs[f]>>]
      [] f \notin DOMAIN l.configs /\ (f \notin DOMAIN J \/ ~J[f].valid) ->
            [reserved EXCEPT !.answer = <<NoConfig>>]
      [] OTHER -> [reserved EXCEPT
                      !.stack = Append(@, [file |-> f, left |-> J[f].extends, bases |-> <<>>])]

\* What the topmost file extends is found, or it is opened; the file is done when
\* nothing is left.  An entry names one file at most.
TakeBase(l) ==
    [l EXCEPT !.stack[Len(l.stack)].bases = @ \o SelectSeq(l.answer, LAMBDA c : c # NoConfig),
              !.answer = <<>>]
NextBase(J, projects, l, f, n) ==
    FoldLeft(LAMBDA m, g : Open(J, m, g), [l EXCEPT !.stack[Len(l.stack)].left = Tail(@)],
             Potential(projects, Dir(f), n))
Close(l, f, config) ==
    [configs |-> [l.configs EXCEPT ![f] = config], stack |-> Front(l.stack), answer |-> <<config>>]

LoadStep(J, projects, l) ==
    LET top == Last(l.stack) IN
    CASE l.stack = <<>> -> l
      [] l.stack # <<>> /\ l.answer # <<>> -> TakeBase(l)
      [] l.stack # <<>> /\ l.answer = <<>> /\ top.left # <<>> ->
            NextBase(J, projects, l, top.file, Head(top.left))
      [] OTHER -> Close(l, top.file, Config(J[top.file], top.file,
                                            Inherited(J[top.file], Dir(top.file), top.bases)))

\* A file is opened once, and takes two steps for each of its entries and one to close.
LoadSteps(J) == MapThenSumSet(LAMBDA f : 2 * Len(J[f].extends) + 1, DOMAIN J)

LoadAll(J, projects, l) ==
    IF l.stack = <<>> THEN l
    ELSE FoldLeft(LAMBDA m, i : LoadStep(J, projects, m), l, [i \in 1..LoadSteps(J) |-> i])

Loaded(l) == [configs |-> l.configs, config |-> Head(l.answer)]
Load(J, projects, configs, f) ==
    Loaded(LoadAll(J, projects,
                   Open(J, [configs |-> configs, stack |-> <<>>, answer |-> <<>>], f)))

------------------------------------------------------------------------------
(* The nearest configuration of a directory. *)

\* SetTsConfigFile: files maps directories to the file of each group there, "" for
\* every other group.  The first declaration of a file counts.
SetTsConfigFile(files, dir, group, name) ==
    LET here == IF dir \in DOMAIN files THEN files[dir] ELSE <<>>
    IN  (dir :> (here @@ (group :> name))) @@ files

HasFile(files, dir, group) == dir \in DOMAIN files /\ group \in DOMAIN files[dir]

\* GetTsConfigFile.
GetTsConfigFile(J, projects, files, configs, dir, group) ==
    IF HasFile(files, dir, group) THEN Load(J, projects, configs, Append(dir, files[dir][group]))
    ELSE [configs |-> configs, config |-> NoConfig]

\* FindConfig: the configuration of the group in the nearest directory that has one,
\* or else the nearest of no group; anchor is the nearest directory with a
\* package.json (packageJsonDirs) at or below it.  Each directory is asked for the group
\* first, and for the default until there is one.
Probes(dir, group) ==
    FlattenSeq([i \in DOMAIN UpFrom(dir) |->
        <<[dir |-> UpFrom(dir)[i], group |-> group, slot |-> "config"],
          [dir |-> UpFrom(dir)[i], group |-> "", slot |-> "default"]>>])

Wanted(walk, slot) == walk.config = NoConfig /\ walk[slot] = NoConfig
WithFound(walk, slot, found) ==
    [walk EXCEPT !.configs = found.configs, ![slot] = found.config]

WithAnchor(packageJsonDirs, configs, dir, found) ==
    LET below == {d \in packageJsonDirs : found # NoConfig /\ IsPrefix(found.dir, d)}
    IN  [configs |-> configs,
         config  |-> found,
         anchor  |-> CASE found = NoConfig -> <<>>
                       [] HasNearest(below, dir) -> Nearest(below, dir)
                       [] OTHER -> found.dir]

NearestConfig(packageJsonDirs, dir, walk) ==
    WithAnchor(packageJsonDirs, walk.configs, dir,
               IF walk.config # NoConfig THEN walk.config ELSE walk.default)

FindConfig(J, projects, files, packageJsonDirs, configs, dir, group) ==
    LET Probe(walk, p) ==
            IF Wanted(walk, p.slot)
            THEN WithFound(walk, p.slot,
                           GetTsConfigFile(J, projects, files, walk.configs, p.dir, p.group))
            ELSE walk
    IN  NearestConfig(packageJsonDirs, dir,
                      FoldLeft(Probe, [configs |-> configs, config |-> NoConfig,
                                       default |-> NoConfig], Probes(dir, group)))

\* ExpandPaths: what an import may stand for under a configuration, in order: exact
\* and wildcard 'paths', the longest first, the baseUrl unless it is relative, and
\* each of the rootDirs.
Anchored(c, rel, n) ==
    IF IsAbs(n.dir) THEN InDir(rel, [n EXCEPT !.dir = Tail(@)])
    ELSE InDir(Join(c.dir, rel), n)

ExpandPaths(c, n) ==
    LET map == IF c.paths = Unset THEN NoMap ELSE c.paths.map
        mapped == (IF n \in DOMAIN map.exact THEN map.exact[n] ELSE <<>>)
                  \o FlattenSeq([i \in DOMAIN Wildcards(map, n) |->
                                    Substitute(map, Wildcards(map, n)[i], n)])
    IN  [i \in DOMAIN mapped |-> Anchored(c, c.paths.rel, mapped[i])]
        \o (IF IsRelative(n.dir) THEN <<>> ELSE <<Anchored(c, BaseUrl(c), n)>>)
        \o (IF c.rootDirs = Unset THEN <<>>
            ELSE [i \in DOMAIN c.rootDirs |-> InDir(c.rootDirs[i], n)])
==============================================================================
