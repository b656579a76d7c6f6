--------------------------------- MODULE Policy ---------------------------------
(***************************************************************************)
(* src/fapolicyd/policy.rs: what one denial calls for, as a function of    *)
(* the record and of the image the pid map says to scope its rule to.  No  *)
(* state: `Analyzer` and `RulesRun` call it.                               *)
(***************************************************************************)
EXTENDS Verdict

CONSTANTS
    Control,   \* values holding a control byte
    Split,     \* values holding a space or a colon
    Unencoded  \* the value the daemon writes for one it could not encode

TrustFile(path) == [kind |-> "trust", perm |-> None, exe |-> None, path |-> path]
RuleFor(perm, exe, path) == [kind |-> "rule", perm |-> perm, exe |-> exe, path |-> path]
Explain == [kind |-> "explain"]

\* MUTANT: an exe that cannot be written falls back to the logged one.
ScopeLogged(r, stale) ==
    IF stale # None /\ stale \notin Control \cup Split THEN stale
    ELSE IF r.exe \in Control \cup Split \cup {Unencoded} THEN None ELSE r.exe

\* The exe of the rule: the substituted one when there is one, and no
\* constraint when that cannot be written.
Scope(r, stale) ==
    LET exe == IF stale # None THEN stale ELSE r.exe
    IN  IF exe \in Control \cup Split \cup {Unencoded} THEN None ELSE exe

\* policy::rule, for a path trusted already or of unknown trust.
RuleArm(r, stale, absent) ==
    IF r.path \in Control THEN Explain
    ELSE IF r.path \in Split THEN IF absent THEN TrustFile(r.path) ELSE Explain
    ELSE IF r.perm \notin {"open", "execute"} THEN Explain
    ELSE RuleFor(r.perm, Scope(r, stale), r.path)

\* MUTANT: an unavailable trust is read as untrusted.
DecideUnavailable(r, stale) ==
    IF r.path = None \/ r.path = Unencoded THEN Explain
    ELSE IF r.trust = "1" THEN RuleArm(r, stale, FALSE)
    ELSE IF r.trust = None THEN RuleArm(r, stale, TRUE)
    ELSE IF r.path \in Control THEN Explain ELSE TrustFile(r.path)

\* policy::decide
Decide(r, stale) ==
    IF r.path = None \/ r.path = Unencoded THEN Explain
    ELSE IF r.trust = "0" THEN IF r.path \in Control THEN Explain ELSE TrustFile(r.path)
    ELSE IF r.trust = "1" THEN RuleArm(r, stale, FALSE)
    ELSE IF r.trust = None THEN RuleArm(r, stale, TRUE)
    ELSE Explain
================================================================================
