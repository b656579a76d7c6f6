------------------------------- MODULE DirGroups -------------------------------
(***************************************************************************)
(* src/fapolicyd/analyze.rs, --dir-min: rules that share a perm, an exe    *)
(* and a parent directory become one dir= rule, which allows more than the *)
(* log showed.  No state.                                                  *)
(***************************************************************************)
EXTENDS RuleText, Policy

CONSTANTS
    Shared,        \* the directories the system shares, by their bytes
    WorldWritable  \* the prefixes every user can write below

ASSUME SplitAssumption ==
    \A v \in DOMAIN Spelling \ Split : At(Spelling[v], {Space}) = {}

DirRule(perm, exe, dir, replaced) ==
    [kind |-> "dir", perm |-> perm, exe |-> exe, path |-> dir, replaced |-> replaced]

IsShared(dir) ==
    \/ SubSeq(dir, 1, Len(dir) - 1) \in Shared
    \/ \E w \in WorldWritable : IsPrefix(w, dir)

\* MUTANT: the directory loses the slash it ends in.
DirOfBare(path, system) ==
    LET bytes == BytesOf(path)
        cuts  == At(bytes, {Slash})
        dir   == SubSeq(bytes, 1, CHOOSE k \in cuts : \A j \in cuts : j <= k)
    IN  IF cuts \subseteq {1} \/ (~system /\ IsShared(dir)) THEN None
        ELSE Spelt(SubSeq(dir, 1, Len(dir) - 1))

\* dir_of: the parent of a path, its last slash included, None when nothing
\* may be grouped under it: the root, and what the system or everybody shares.
DirOf(path, system) ==
    LET bytes == BytesOf(path)
        cuts  == At(bytes, {Slash})
        dir   == SubSeq(bytes, 1, CHOOSE k \in cuts : \A j \in cuts : j <= k)
    IN  IF cuts \subseteq {1} \/ (~system /\ IsShared(dir)) THEN None ELSE Spelt(dir)

\* A rule with no exe is never grouped.
GroupKey(s, system) ==
    IF s.kind # "rule" \/ s.exe = None THEN None
    ELSE IF DirOf(s.path, system) = None THEN None
    ELSE <<s.perm, s.exe, DirOf(s.path, system)>>

\* group_dirs: each group of `min` or more rules is one rule in the place of
\* its first.
GroupDirs(accepted, min, system) ==
    LET key(i)     == GroupKey(accepted[i], system)
        group(i)   == {j \in DOMAIN accepted : key(j) = key(i)}
        grouped(i) == key(i) # None /\ Cardinality(group(i)) >= min
        paths(i)   == {accepted[j].path : j \in group(i)}
        written(i) == IF ~grouped(i) THEN <<accepted[i]>>
                      ELSE IF i # Smallest(group(i)) THEN << >>
                      ELSE <<DirRule(accepted[i].perm, accepted[i].exe,
                                     DirOf(accepted[i].path, system), paths(i))>>
    IN  FlattenSeq([i \in DOMAIN accepted |-> written(i)])
================================================================================
