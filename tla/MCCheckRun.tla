------------------------------- MODULE MCCheckRun -------------------------------
(***************************************************************************)
(* Instances of CheckRun for TLC: three file names, two paths of which one *)
(* lies under a dir=, one %set over two media types, and accesses that     *)
(* differ in what the log shows of them and in the uid it does not show.   *)
(***************************************************************************)
EXTENDS CheckRun

CONSTANTS p1, p2, px, e1, f1, f2, u1, u2, dir, systemdirs, set

MCSetNames == {set}
MCUnder == (dir :> {p1, px}) @@ (systemdirs :> {p2})
MCNameOrder == <<"00", "10", "50">>

attr(how, field, tokens) == [how |-> how, field |-> field, tokens |-> tokens]
anyPerm == attr("is", "perm", {"any"})
onPath(p) == attr("is", "path", {p})
rule(dec, attrs) == [dec |-> dec, attrs |-> attrs]
content(rules, sets) == [rules |-> rules, sets |-> sets]
define(members, before) == [name |-> set, members |-> members, before |-> before]

bySet == rule("deny", {anyPerm, attr("is", "ftype", {set})})
denyAll == rule("deny_audit", {anyPerm})
allowPath == rule("allow", {anyPerm, onPath(p1)})
allowExe == rule("allow", {attr("is", "perm", {"execute"}), attr("is", "exe", {e1})})
allowDir == rule("allow_audit", {anyPerm, attr("under", "path", {dir})})
allowKeyword == rule("allow", {anyPerm, attr("under", "path", {systemdirs, dir})})
denyUid == rule("deny", {anyPerm, attr("is", "uid", {u1})})
allowUid == rule("allow", {anyPerm, attr("is", "uid", {u1})})
noPerm == rule("allow", {onPath(p1)})
broken == rule("allow", {anyPerm, attr("never", "path", {})})
misspelt == rule("alow", {anyPerm, onPath(p2)})

Patterns == content(<<bySet>>, <<define({f1}, 0)>>)
LastWord == content(<<denyAll>>, << >>)

MCStart == ("10" :> Patterns) @@ ("50" :> LastWord)

\* What the operator writes: a restored file, an edited set, an allow or a
\* deny ahead of the last word, a set that is gone.
MCEdited ==
    { Patterns, LastWord,
      content(<<bySet>>, <<define({f2}, 0)>>),
      content(<<denyUid, allowPath>>, << >>),
      content(<<bySet>>, <<define({f1}, 1)>>),
      content(<<bySet>>, << >>),
      content(<< >>, <<define({f2}, 0)>>) }

\* And what is proposed besides: every way a rule can match, or not be decided
\* by the record, and every way a proposal's sets can fail its reload.
MCContents == MCEdited \cup
    { content(<<allowPath>>, << >>),
      content(<<allowDir, denyAll>>, << >>),
      content(<<allowKeyword>>, << >>),
      content(<<broken, allowExe>>, << >>),
      content(<<allowPath, noPerm>>, << >>),
      content(<<bySet>>, <<define({f1, f2}, 1)>>),
      content(<<rule("allow", {anyPerm, attr("is", "ftype", {set})})>>, << >>),
      content(<<allowUid>>, << >>),
      content(<<allowPath>>, <<define({f2}, 1)>>) }

MisspeltContents == {content(<<allowPath>>, << >>), content(<<misspelt, allowPath>>, << >>)}

access(perm, exe, path, ftype, uid, spelt) ==
    [perm |-> perm, exe |-> exe, path |-> path, ftype |-> ftype, trust |-> None,
     uid |-> uid, spelt |-> spelt]

MCEvents ==
    { access("open", e1, p1, f1, u1, TRUE), access("open", e1, p2, f2, u2, TRUE),
      access("execute", e1, p1, f2, u2, TRUE), access("execute", None, p2, f2, u1, TRUE),
      access("open", e1, px, f2, u2, TRUE), access("open", e1, px, f2, u2, FALSE) }
================================================================================
