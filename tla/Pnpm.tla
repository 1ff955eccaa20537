-------------------------------- MODULE Pnpm --------------------------------
(***************************************************************************)
(* The pnpm package of the JavaScript extension: the projects of a         *)
(* lockfile, the packages each depends on, and those of them that are      *)
(* directories of the workspace.                                           *)
(*                                                                         *)
(* A lockfile has a version and, for each of its importers (a directory    *)
(* relative to its own), the sections of its dependencies: dependencies,   *)
(* devDependencies, peerDependencies and optionalDependencies, each a      *)
(* function from packages to versions.  A package is the path of its name. *)
(* A version is [kind |-> "link" or "file", dir |-> ...] for a directory   *)
(* of the workspace, and of the kind "registry" otherwise.                 *)
(***************************************************************************)
EXTENDS Paths, TLC

Supported == {"v5", "v6", "v9"}

\* mergeDependenciesV5 and V6: the section that is merged last counts.
MergeDependencies(sections) == FoldLeft(LAMBDA merged, s : s @@ merged, <<>>, sections)

\* ParsePnpmLockFileDependencies.  Without importers there is one, the directory of
\* the lockfile.
Readable(lock) == lock.version \in Supported
Dependencies(lock) ==
    IF lock.importers # <<>> THEN [i \in DOMAIN lock.importers |->
                                      MergeDependencies(lock.importers[i])]
    ELSE <<>> :> MergeDependencies(lock.sections)

\* AddPackage: the directory a package is a reference to, or Registry.  A link is
\* relative to the project, a file to the lockfile.
Registry == <<Up>>

LocalDir(lockdir, project, version) ==
    CASE version.kind = "link" -> Join(project, version.dir)
      [] version.kind = "file" -> Join(lockdir, version.dir)
      [] OTHER -> Registry

\* NewWorkspace and AddProject, for every importer of the lockfile in lockdir.
PnpmProjects(lockdir, lock) ==
    LET deps == Dependencies(lock)
        Importer(project) == CHOOSE i \in DOMAIN deps : Join(lockdir, i) = project
    IN  [project \in {Join(lockdir, i) : i \in DOMAIN deps} |->
            [lockdir  |-> lockdir,
             packages |-> [pkg \in DOMAIN deps[Importer(project)] |->
                              LocalDir(lockdir, project, deps[Importer(project)][pkg])]]]

IsProject(projects, d) == d \in DOMAIN projects

\* PnpmProjectMap.GetProject: the project a directory belongs to.
HasProject(projects, d) == HasNearest(DOMAIN projects, d)
GetProject(projects, d) == Nearest(DOMAIN projects, d)

\* GetLocalReferences: the packages of a project that are in the workspace.
References(projects, p) ==
    {pkg \in DOMAIN projects[p].packages : projects[p].packages[pkg] # Registry}
LocalReferences(projects, p) == {projects[p].packages[pkg] : pkg \in References(projects, p)}

\* IsReferenced: a project of the same lockfile links the directory.
IsReferenced(projects, d) ==
    \E p \in DOMAIN projects :
        projects[p].lockdir = projects[d].lockdir /\ d \in LocalReferences(projects, p)

\* PnpmProject.Get and Parent: the package, below the node_modules of the nearest
\* project at or above d that depends on it.
Depending(projects, pkg) == {p \in DOMAIN projects : pkg \in DOMAIN projects[p].packages}

LinkAll == "node_modules"

FindPackage(projects, d, pkg) ==
    IF ~HasNearest(Depending(projects, pkg), d) THEN {}
    ELSE {[pkg |-> Nearest(Depending(projects, pkg), d), name |-> <<LinkAll>> \o pkg]}
==============================================================================
