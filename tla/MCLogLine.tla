------------------------------- MODULE MCLogLine -------------------------------
(***************************************************************************)
(* Instances of LogLine for TLC: paths and programs made of the bytes that *)
(* some step treats apart, and the formats, cuts and frames that matter.   *)
(***************************************************************************)
EXTENDS LogLine

\* Backslash, space, `:`, `=`, `]`, both quotes, newline, a byte that is not
\* UTF-8, `#`, and a letter.
Odd == {Backslash, Space, 58, Equals, 93, Apostrophe, Quote, Newline, 255, Hash, 97}

\* "/" and two of them, and what takes more than two: an octal form that is
\* the name's own, the anchor, the separator, a record within the path, one
\* noise word, a C1 control, DEL, and a path longer than a record.
Special ==
    {<<47, Backslash, 48, 52, 48>>, <<47, Backslash, 48, 49, 50>>, <<47, 93, 58, 32>>,
     <<47, 32, 58, 32>>, <<47, 93, 58>>, <<47, 32>> \o Path \o <<Equals, 97>>,
     <<47, 83, 83>>, <<47, 194, 155>>, <<47, 195, 169>>, <<47, 127>>, <<63, 63>>,
     <<47>> \o [k \in 1..20 |-> 97]}
Plainly == <<47, 97>>
Strings2 == {<<47, a, b>> : a, b \in Odd}

ev(dec, perm, exe, path, trust) ==
    [dec |-> dec, perm |-> Mode[perm], exe |-> exe, path |-> path, trust |-> <<trust>>]
denied == Deny \o <<97>>

MCEvents ==
    {ev(denied, "open", Plainly, path, trust) : path \in Strings2 \cup Special, trust \in {48, 49}}
    \cup {ev(denied, "execute", exe, Plainly, 49) : exe \in Strings2 \cup Special}
    \cup {ev(dec, "open", Plainly, Plainly, trust) : dec \in {denied, <<111>>}, trust \in {49, 57}}

\* A backslash in an audit record has a run of its own.
NoBackslash(bytes) == At(bytes, {Backslash}) = {}
MCAuditEvents ==
    {e \in MCEvents : NoBackslash(e.path) /\ NoBackslash(e.exe) /\ IsPrefix(Deny, e.dec)}
BackslashEvents == {ev(denied, "open", Plainly, <<47, 97, Backslash, 98>>, 48)}

\* The shipped format, the compiled one, one whose colon is past the cap.
Ftype == <<102>>
Shipped == <<Rule, Dec, Perm, Exe, Colon, Path, Trust>>
Compiled == <<Dec, Perm, Exe, Colon, Path, Ftype>>
LateColon == <<Dec, Perm, Exe, Rule, Dec, Perm, Exe, Colon, Path, Trust>>
MCFormats == {Shipped, Compiled, LateColon}

key(names) == [key |-> "syslog_format", names |-> names]
comment == [key |-> Absent, names |-> <<Path>>]
MCConfs ==
    {<<comment, key(Shipped)>>, <<key(<<Dec, Perm, << >>, Exe, Colon, Path, Ftype>>)>>,
     <<key(LateColon)>>, <<key(<<Dec, Colon, Path>>), key(Shipped)>>,
     <<[key |-> "permissive", names |-> <<Path>>]>>, <<key(<< >>)>>}

Syslog == <<104, 91, 49, 93, 58, 32>>
Debug == <<91, 32, 27, 68, 93, 58, 32>>
MCFrames == {<< >>, Syslog, Debug}
MCGarbage == {<<200>>, <<7>>, <<65>>}

\* The notice, prose, a blank line, and a comment that quotes a record.
MCNoise == {<<83, 83>>, <<68, 68>>}
record == Joined(<<Dec \o <<Equals>> \o denied, Colon, Path \o <<Equals>> \o Plainly>>)
MCChatter ==
    {frame \o text : frame \in MCFrames,
                     text \in {<<83, 83, 32, 68, 68>>, <<99, 32, 111>>, << >>, <<32>>,
                               Joined(<<Rule \o <<Equals, 48>>, Dec \o <<Equals, 111>>>>)}}
    \cup {<<32, Hash, 32>> \o Anchor \o record}

MCEnrichments == {<< >>, <<GroupSeparator, 85, Equals, Quote, 114, Quote, 32>> \o Path \o <<Equals, 98>>}
================================================================================
