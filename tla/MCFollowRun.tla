------------------------------ MODULE MCFollowRun ------------------------------
(***************************************************************************)
(* Values for TLC: the lines a daemon log and an audit log hold, as what   *)
(* feeding each of them returns.                                           *)
(***************************************************************************)
EXTENDS FollowRun

L(notes, text, corrupt, inContent, inParsed, opens) ==
    [notes |-> notes, text |-> text, corrupt |-> corrupt,
     content |-> inContent, parsed |-> inParsed, opens |-> opens]

\* The daemon route: a denial with a rule and its note, one with the same
\* note and a second that only the other action sees, a record that is
\* corrupt, and prose.
Denial  == L(<<"absent">>, TRUE, FALSE, TRUE, TRUE, FALSE)
Noted   == L(<<"absent", "other">>, FALSE, FALSE, TRUE, TRUE, FALSE)
Corrupt == L(<< >>, FALSE, TRUE, TRUE, TRUE, FALSE)
Prose   == L(<< >>, FALSE, FALSE, TRUE, FALSE, FALSE)
DaemonLines == {Denial, Noted, Corrupt, Prose}

\* The audit route: a line that opens an event, and one of another type.
Opening == L(<<"absent">>, TRUE, FALSE, FALSE, FALSE, TRUE)
Skipped == L(<< >>, FALSE, FALSE, FALSE, FALSE, FALSE)
AuditLines == {Opening, Skipped}

OneNote == <<"host">>
NoNotes == << >>
KeptMessages == {"host", "absent", "placement"}
Placement == <<"placement">>
AuditTotals == <<"absent">>
================================================================================
