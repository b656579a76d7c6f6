------------------------------- MODULE MCRulesRun -------------------------------
(***************************************************************************)
(* Instances of RulesRun for TLC: rules.d/ directories of two files under  *)
(* the names that are hard to sort, and one of three files whose last word *)
(* denies accesses all over a small tree.                                  *)
(***************************************************************************)
EXTENDS RulesRun

CONSTANTS e, f, ef, ax, ay, abz, abx, ux, uy, uz, tx, ty, tz, rx, sp,
          dA, dB, dAb, dU, dT, bA, bB, bAb, bU, bT, set, u1, u2

\* /a/x /a/y /a/b/z /ab/x /u/x /u/y /u/z /t/q/x /t/q/y /t/q/z /x "/a/s p", the programs /e
\* and /f and the list of both, the directories, and those without a slash.
MCSpelling ==
    ax :> <<47, 97, 47, 120>> @@ ay :> <<47, 97, 47, 121>> @@
    abz :> <<47, 97, 47, 98, 47, 122>> @@ abx :> <<47, 97, 98, 47, 120>> @@
    ux :> <<47, 117, 47, 120>> @@ uy :> <<47, 117, 47, 121>> @@
    tx :> <<47, 116, 47, 113, 47, 120>> @@ ty :> <<47, 116, 47, 113, 47, 121>> @@
    uz :> <<47, 117, 47, 122>> @@ tz :> <<47, 116, 47, 113, 47, 122>> @@
    rx :> <<47, 120>> @@ sp :> <<47, 97, 47, 115, 32, 112>> @@
    e :> <<47, 101>> @@ f :> <<47, 102>> @@ ef :> <<47, 101, 44, 47, 102>> @@
    dA :> <<47, 97, 47>> @@ dB :> <<47, 97, 47, 98, 47>> @@ dAb :> <<47, 97, 98, 47>> @@
    dU :> <<47, 117, 47>> @@ dT :> <<47, 116, 47, 113, 47>> @@
    bA :> <<47, 97>> @@ bB :> <<47, 97, 47, 98>> @@ bAb :> <<47, 97, 98>> @@
    bU :> <<47, 117>> @@ bT :> <<47, 116, 47, 113>>
MCUnder ==
    [d \in {dA, dB, dAb, dU, dT, bA, bB, bAb, bU, bT} |->
        {v \in DOMAIN MCSpelling : IsPrefix(MCSpelling[d], MCSpelling[v])}]
MCShared == {<<47, 117>>}
MCWorldWritable == {<<47, 116, 47>>}
MCSetNames == {set}

\* The names that are hard to sort, and two files that are not merged.
named(bytes) == bytes \o RulesSuffix
n9a == <<57, 45, 97>>
n10b == <<49, 48, 45, 98>>
n010b == <<48, 49, 48, 45, 98>>
n00d == <<48, 48, 45, 100>>
na == <<97>>
nAb == <<65, 46, 98>>
n1000e == <<49, 48, 48, 48, 45, 101>>
n999f == <<57, 57, 57, 45, 102>>
n1 == <<49>>
n01 == <<48, 49>>
nx == <<45, 120>>
Hidden == named(<<46, 53>>)
Backup == <<53, 45, 97>>

skip == [kind |-> "skip", words |-> << >>]
define == [kind |-> "set", words |-> <<Word(set, ef)>>]
rule(words) == [kind |-> "rule", words |-> words]
sided(dec, subject, object) == rule(<<Bare(dec)>> \o subject \o <<Bare(":")>> \o object)
anyPerm == Word("perm", "any")
everything == <<Bare("all")>>

denyX == <<sided("deny", <<anyPerm, Bare("all")>>, <<Word("path", ax)>>)>>
denyExec == <<skip, sided("deny", <<Word("perm", "execute"), Bare("all")>>, everything)>>
denyAll == <<sided("deny_audit", <<anyPerm, Bare("all")>>, everything)>>
denyUser == <<sided("deny", <<anyPerm, Word("uid", u2)>>, everything)>>
allowUser == <<define, sided("allow", <<anyPerm, Word("uid", u1), Word("exe", set)>>, everything)>>
allowX == <<sided("allow", <<anyPerm, Bare("all")>>, <<Word("path", ax)>>)>>

pair(a, b) == (named(a) :> denyX) @@ (named(b) :> denyExec)
three == (named(n9a) :> denyUser) @@ (named(n10b) :> allowUser) @@ (named(na) :> denyAll)
MCHosts ==
    { [dir |-> d, edits |-> 0] : d \in
        { pair(n10b, n9a), pair(n10b, n01), pair(n9a, na), pair(n010b, n10b), pair(n00d, n10b),
          pair(na, n9a), pair(nAb, n1000e), pair(n1000e, n9a), pair(n1000e, nx), pair(nx, n1000e),
          pair(na, n999f), pair(n999f, n1000e), pair(n01, n1), pair(n1, n01), pair(n1, n00d),
          pair(nx, n01), pair(n1, n9a) @@ (Hidden :> denyUser) @@ (Backup :> denyUser), three } }
    \cup {[dir |-> pair(n9a, n10b), edits |-> 1]}

MCUnreadable == {named(n10b), named(n9a)}
MCLegacies == {denyX, <<skip>>}
MCContents == {denyAll, allowX}
MCNames == {named(n00d), named(n10b)}

access(perm, exe, path, trust, uid) ==
    [perm |-> perm, exe |-> exe, path |-> path, ftype |-> None, trust |-> trust,
     uid |-> uid, spelt |-> TRUE]
MCTried ==
    { access("execute", e, ax, "1", u2),
      access("open", f, ay, None, Unencoded), access("open", e, ay, "1", Unencoded),
      access("open", e, ux, "1", Unencoded), access("open", e, uy, "1", Unencoded),
      access("open", e, tx, "1", Unencoded), access("open", e, ty, "1", Unencoded),
      access("execute", sp, ay, "1", Unencoded), access("open", e, sp, "1", Unencoded),
      access("open", e, ax, "1", Unencoded) }
MCAccesses == MCTried \cup
    { access("open", e, ax, "1", u1), access("open", e, abz, "1", Unencoded), access("open", e, abx, "1", Unencoded),
      access("open", e, uz, "1", Unencoded), access("open", e, tz, "1", Unencoded),
      access("open", e, rx, "1", Unencoded), access("open", f, ax, "1", Unencoded),
      access("open", e, ay, "0", Unencoded) }

command(action, format, conf, noConf, follow, dirMin, dirSystem) ==
    [action |-> action, format |-> format, conf |-> conf, noConf |-> noConf,
     follow |-> follow, dirMin |-> dirMin, dirSystem |-> dirSystem]
MCFlags ==
    { command("rules", "text", FALSE, FALSE, FALSE, None, FALSE),
      command("rules", "text", TRUE, FALSE, TRUE, None, FALSE),
      command("rules", "json", FALSE, FALSE, FALSE, 2, FALSE),
      command("rules", "text", FALSE, FALSE, FALSE, 2, TRUE),
      command("rules", "text", FALSE, TRUE, FALSE, None, FALSE),
      command("rules", "text", TRUE, TRUE, FALSE, None, FALSE),
      command("check", "text", FALSE, TRUE, FALSE, None, FALSE),
      command("rules", "json", FALSE, FALSE, TRUE, None, FALSE),
      command("rules", "text", FALSE, FALSE, TRUE, 2, FALSE),
      command("rules", "text", FALSE, FALSE, FALSE, None, TRUE),
      command("rules", "text", FALSE, FALSE, FALSE, 1, FALSE) }
================================================================================
