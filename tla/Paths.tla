------------------------------- MODULE Paths -------------------------------
(***************************************************************************)
(* Slash-separated paths, as the Go packages path and filepath treat them. *)
(* A directory is the sequence of the names on the way to it: <<>> is the  *)
(* workspace, a relative path may start with "." or "..", an absolute one  *)
(* starts with "/".  A file, and what an import names, is a record of a    *)
(* directory, a stem and an extension; an import may have no extension.    *)
(***************************************************************************)
EXTENDS Integers, Sequences, SequencesExt

Up == ".."
Here == "."
Slash == "/"

\* path.Clean.
Clean(p) ==
    FoldLeft(LAMBDA q, s : CASE s = Here -> q
                             [] s = Up /\ q # <<>> /\ Last(q) # Up -> Front(q)
                             [] OTHER -> Append(q, s), <<>>, p)

Join(p, q) == Clean(p \o q)

\* filepath.Rel, of two directories of the workspace.
RelTo(from, to) ==
    LET same == Len(LongestCommonPrefix({from, to}))
    IN  [i \in 1..(Len(from) - same) |-> Up] \o SubSeq(to, same + 1, Len(to))

\* d without the directories of p on the way to it.
Beyond(p, d) == SubSeq(d, Len(p) + 1, Len(d))

IsRelative(p) == p # <<>> /\ Head(p) \in {Here, Up}
IsAbs(p) == p # <<>> /\ Head(p) = Slash

Name(dir, stem, ext) == [dir |-> dir, stem |-> stem, ext |-> ext]

\* A name seen from a directory, and a directory as what an import may name.
InDir(dir, n) == [n EXCEPT !.dir = Join(dir, @)]
DirName(d) == Name(Front(d), Last(d), "")

\* The directories at or above d, the nearest first.
UpFrom(d) == [i \in 1..(Len(d) + 1) |-> SubSeq(d, 1, Len(d) + 1 - i)]

\* The nearest of D at or above d, if there is one.
HasNearest(D, d) == \E p \in D : IsPrefix(p, d)
Nearest(D, d) == CHOOSE p \in D : IsPrefix(p, d) /\ \A q \in D : IsPrefix(q, d) => IsPrefix(q, p)

(***************************************************************************)
(* Mappings of names, as tsconfig 'paths' and package.json 'exports' and   *)
(* 'imports' have them: exact names, and directories with a "*" for what   *)
(* they hold.                                                              *)
(***************************************************************************)
NoMap == [exact |-> <<>>, wild |-> <<>>]

\* The wildcards n is below, the longest first.
Wildcards(map, n) ==
    SetToSortSeq({p \in DOMAIN map.wild : IsPrefix(p, n.dir)}, LAMBDA p, q : Len(p) > Len(q))

\* What the targets of the wildcard p make of n.
Substitute(map, p, n) ==
    [i \in DOMAIN map.wild[p] |-> [n EXCEPT !.dir = map.wild[p][i] \o Beyond(p, n.dir)]]

\* The targets of the most specific mapping of n.
MapName(map, n) ==
    IF n \in DOMAIN map.exact THEN map.exact[n]
    ELSE IF Wildcards(map, n) = <<>> THEN <<>>
    ELSE Substitute(map, Head(Wildcards(map, n)), n)
==============================================================================
