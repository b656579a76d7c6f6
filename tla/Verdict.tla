-------------------------------- MODULE Verdict --------------------------------
(***************************************************************************)
(* src/fapolicyd/check.rs: would a proposed rules.d/ have allowed this     *)
(* denial?  The walk over a merged listing, with the parts of rules.rs and *)
(* rules_d.rs it stands on.  No state: `Policy` and `Daemon` extend it.    *)
(*                                                                         *)
(* A rule is [dec, attrs]: its decision word and its attributes, `all`     *)
(* being none.  Two rules have the same text when they are the same value. *)
(* An attribute is [how, field, tokens]: how its value is compared ("is",  *)
(* the "under" prefix test of dir=, or "never" for a token without `=`),   *)
(* the field, and the members of its value: literals, dir= keywords and    *)
(* %set names.  A file is [name, rules, sets], a set definition            *)
(* [name, members, before] with the rules of its file ahead of it.         *)
(***************************************************************************)
EXTENDS Bytes

CONSTANTS
    None,      \* a field the record lacks, or one that names nothing
    SetNames,  \* the %set names
    Under,     \* the values below a dir= member, keywords included
    Keywords,  \* the dir= members this tool cannot enumerate
    Escaped    \* the values the daemon had to escape when it logged them

ASSUME UnderAssumption == Keywords \subseteq DOMAIN Under
ASSUME NoneAssumption == None \notin SetNames /\ None \notin Escaped

--------------------------------------------------------------------------------
(* A merged listing                                                        *)

\* Every rule of the listing in the order the daemon reads it.
Flat(files) == FlattenSeq([i \in DOMAIN files |-> files[i].rules])

\* The number of rules in the files ahead of file i.
Ahead(files, i) == Len(Flat(SubSeq(files, 1, i - 1)))

\* Every set definition, with its place among the merged rules.
Defined(files) ==
    FlattenSeq([i \in DOMAIN files |->
        [j \in DOMAIN files[i].sets |->
            [name |-> files[i].sets[j].name, members |-> files[i].sets[j].members,
             place |-> Ahead(files, i) + files[i].sets[j].before]]])

References(rule) == UNION {a.tokens \cap SetNames : a \in rule.attrs}

Named(defs, name) ==
    FlattenSeq([i \in DOMAIN defs |-> IF defs[i].name = name THEN <<defs[i]>> ELSE << >>])

\* rules_d::locate: the file holding the daemon's rule n, 0 when rules.d/ and
\* compiled.rules disagree about it.
Locate(files, compiled, n) ==
    LET holds == {i \in DOMAIN files : n \in Ahead(files, i) + 1 .. Ahead(files, i + 1)}
    IN  IF holds = {} \/ n \notin DOMAIN compiled THEN 0
        ELSE IF Flat(files)[n] = compiled[n] THEN Smallest(holds) ELSE 0

\* The decision words, by what they start with: the tool looks no further.
\* The daemon does not know the last of each; any other starts with neither.
Allowing == {"allow", "allow_audit", "allow_syslog", "allow_log", "allowed"}
Denying == {"deny", "deny_audit", "deny_syslog", "deny_log", "denied"}

\* Rule::refuses: a deny that constrains the process and not the file.
SubjectFields == {"perm", "exe", "uid"}
Refuses(rule) ==
    /\ rule.dec \in Denying
    /\ \A a \in rule.attrs : a.field \in SubjectFields
    /\ \E a \in rule.attrs : a.field # "perm"

--------------------------------------------------------------------------------
(* What the daemon will not load                                           *)

\* MUTANT: a definition anywhere in the listing will do.
RefusedLate(files) ==
    LET defs == Defined(files)
        all  == Flat(files)
    IN  \/ \E i, j \in DOMAIN defs : i # j /\ defs[i].name = defs[j].name
        \/ \E at \in DOMAIN all : \E name \in References(all[at]) : Named(defs, name) = << >>

\* check::refused: a set defined twice, used and not defined, or used before
\* its definition.
Refused(files) ==
    LET defs == Defined(files)
        all  == Flat(files)
    IN  \/ \E i, j \in DOMAIN defs : i # j /\ defs[i].name = defs[j].name
        \/ \E at \in DOMAIN all : \E name \in References(all[at]) :
              \/ Named(defs, name) = << >>
              \/ Named(defs, name)[1].place > at - 1

HasPerm(rule) ==
    \E a \in rule.attrs :
       a.field = "perm" /\ a.how = "is" /\ Cardinality(a.tokens) = 1 /\ a.tokens \cap SetNames = {}

\* missing_perm: a rule the host did not have that fails the reload.
MissingPerm(files, compiled) ==
    \E r \in ToSet(Flat(files)) \ ToSet(compiled) : ~HasPerm(r)

\* MUTANT: the definitions are not compared.
ChangedSetsNever(files, loaded) == {}

\* changed_sets: the names whose definitions are not the loaded ones.
ChangedSets(files, loaded) ==
    {name \in SetNames :
        LET mine == Named(Defined(files), name)
            theirs == Named(loaded, name)
        IN  [i \in DOMAIN mine |-> mine[i].members] # [i \in DOMAIN theirs |-> theirs[i].members]}

--------------------------------------------------------------------------------
(* Does a rule fire on a record?  "yes", "no", or "open": no answer.       *)

Open == "open"
Logged == {"perm", "exe", "path", "ftype", "trust"}

Answer(p) == IF p THEN "yes" ELSE "no"

\* One member of a value, as subject_matches and object_matches compare it.
\* A value the record lacks, a field it never carries, a keyword, a set
\* nested in a set and a prefix of an escaped value have no answer.
Literal(a, token, rec) ==
    IF a.field \notin Logged \/ token \in SetNames \cup {None} THEN Open
    ELSE IF rec[a.field] = None THEN Open
    ELSE IF a.how = "under"
         THEN IF token \in Keywords \/ rec[a.field] \in Escaped THEN Open
              ELSE Answer(rec[a.field] \in Under[token])
    ELSE IF a.field = "perm" /\ token = "any" THEN "yes"
    ELSE Answer(rec[a.field] = token)

\* expand: a set's own members; one without members cannot be compared.
Expand(token, defs) ==
    IF token \notin SetNames THEN {token}
    ELSE IF Named(defs, token) = << >> \/ Named(defs, token)[1].members = {} THEN {None}
    ELSE Named(defs, token)[1].members

Among(answers) ==
    IF "yes" \in answers THEN "yes" ELSE IF Open \in answers THEN Open ELSE "no"

\* any_member
AttrMatches(a, rec, defs) ==
    IF a.how = "never" THEN "no"
    ELSE Among({Literal(a, t, rec) : t \in UNION {Expand(t, defs) : t \in a.tokens}})

\* matches: one attribute that does not match settles the rule.
Matches(rule, rec, defs) ==
    LET answers == {AttrMatches(a, rec, defs) : a \in rule.attrs}
    IN  IF "no" \in answers THEN "no" ELSE IF Open \in answers THEN Open ELSE "yes"

--------------------------------------------------------------------------------
(* The verdict                                                             *)

\* MUTANT: every rule is evaluated, the host's own as well.
SkippedNone(rule, n, compiled, changed) == FALSE

\* D3: the daemon walked past this rule to reach N, and means by it what it
\* meant then.
Skipped(rule, n, compiled, changed) ==
    References(rule) \cap changed = {} /\ rule \in ToSet(SubSeq(compiled, 1, n - 1))

\* The rule of the listing standing for N, 0 when it is no longer there: in
\* the file of that name, or anywhere when there is no host listing.
Limit(rule, from, files) ==
    LET all  == Flat(files)
        own  == {i \in DOMAIN files : from = None \/ files[i].name = from}
        here == {at \in DOMAIN all : /\ all[at] = rule
                                     /\ \E i \in own : at \in Ahead(files, i) + 1 .. Ahead(files, i + 1)}
    IN  IF here = {} THEN 0 ELSE Smallest(here)

\* What rule `at` of the listing makes of the record, were it reached.
Settled(rule, answer) ==
    IF answer = "yes" /\ rule.dec \in Allowing THEN "allowed"
    ELSE IF answer = "yes" /\ rule.dec \in Denying THEN "denied" ELSE "unknown"

\* The walk up to N, and N itself when nothing ahead of it stops the walk.
Walk(rec, n, compiled, changed, files, limit) ==
    LET all    == Flat(files)
        defs   == Defined(files)
        stops  == {at \in 1..limit - 1 : /\ ~Skipped(all[at], n, compiled, changed)
                                         /\ Matches(all[at], rec, defs) # "no"}
        target == compiled[n]
    IN  IF stops # {}
        THEN Settled(all[Smallest(stops)], Matches(all[Smallest(stops)], rec, defs))
        ELSE IF References(target) \cap changed # {} /\ Matches(target, rec, defs) # "yes"
        THEN "unknown"
        ELSE "denied"

\* Where rule n came from: None when there is no host listing to ask.
From(host, compiled, n) ==
    IF host = None THEN None
    ELSE IF Locate(host, compiled, n) = 0 THEN "drift" ELSE host[Locate(host, compiled, n)].name

\* check::verdict.  n is 0 without a rule=, compiled and host None when they
\* were not read.
CheckVerdict(rec, n, stale, compiled, host, changed, files) ==
    IF \/ Refused(files)
       \/ stale # None
       \/ n = 0 \/ compiled = None
    THEN "unknown"
    ELSE IF n \notin DOMAIN compiled \/ From(host, compiled, n) = "drift" THEN "unknown"
    ELSE IF MissingPerm(files, compiled) THEN "unknown"
    ELSE LET limit == Limit(compiled[n], From(host, compiled, n), files)
         IN  IF limit = 0 THEN "unknown"
             ELSE Walk(rec, n, compiled, changed, files, limit)
================================================================================
