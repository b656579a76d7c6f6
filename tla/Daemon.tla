--------------------------------- MODULE Daemon ---------------------------------
(***************************************************************************)
(* External: fapolicyd, as the tool relies on it.  The daemon takes the    *)
(* first rule of the merged order that matches the event it sees, which    *)
(* holds more than the line it logs.  No state: `CheckRun` and `RulesRun`  *)
(* hold what it loaded.                                                    *)
(***************************************************************************)
EXTENDS Verdict

\* A constraint whose value the event could not supply is skipped.  Whether
\* a prefix covers a value the daemon escapes is not known: ev.spelt decides.
Holds(a, ev, defs) ==
    /\ a.how # "never"
    /\ \/ ev[a.field] = None
       \/ \E t \in UNION {Expand(t, defs) : t \in a.tokens} :
             IF a.how = "under"
             THEN ev[a.field] \in Under[t] /\ (ev[a.field] \in Escaped => ev.spelt)
             ELSE ev[a.field] = t \/ (a.field = "perm" /\ t = "any")

Fires(rule, ev, defs) == \A a \in rule.attrs : Holds(a, ev, defs)

\* The number of the first rule that matches, 0 for none.
FirstMatch(files, ev) ==
    LET all    == Flat(files)
        defs   == Defined(files)
        firing == {at \in DOMAIN all : Fires(all[at], ev, defs)}
    IN  IF firing = {} THEN 0 ELSE Smallest(firing)

\* The decisions the daemon knows.
Decisions == (Allowing \cup Denying) \ {"allowed", "denied"}

\* The daemon reads the merged order from the top: a set has one definition
\* and it comes before the first rule that names it, every rule has a perm=
\* and a decision it knows.
Loads(files) ==
    LET defs == Defined(files)
        Above(name, at) == {i \in DOMAIN defs : defs[i].name = name /\ defs[i].place < at}
    IN  /\ \A i, j \in DOMAIN defs : defs[i].name = defs[j].name => i = j
        /\ \A at \in DOMAIN Flat(files) :
              LET r == Flat(files)[at]
              IN  /\ HasPerm(r) /\ r.dec \in Decisions
                  /\ \A name \in References(r) : Above(name, at) # {}

\* Would the daemon deny the event once told to load these files?  A ruleset
\* it does not load leaves it with the one that denied.
DeniesAfter(files, ev) ==
    IF ~Loads(files) THEN TRUE
    ELSE FirstMatch(files, ev) # 0 /\ Flat(files)[FirstMatch(files, ev)].dec \in Denying

\* What a record of the event carries.
RecordOf(ev) == [f \in Logged |-> ev[f]]
================================================================================
