------------------------------- MODULE MCAnalyzer -------------------------------
(***************************************************************************)
(* Instances of Analyzer for TLC: two rules.d/ files of a rule each, one   *)
(* of which constrains the process only, and logs of up to four lines over *)
(* the records the pass tells apart.                                       *)
(***************************************************************************)
EXTENDS Analyzer

CONSTANTS e1, e2, p1, q, sp, ct, u1, pid1, pid2

attr(how, field, tokens) == [how |-> how, field |-> field, tokens |-> tokens]
anyPerm == attr("is", "perm", {"any"})
bySubject == [dec |-> "deny", attrs |-> {anyPerm, attr("is", "uid", {u1})}]
byPath == [dec |-> "deny_audit", attrs |-> {anyPerm, attr("is", "path", {p1, q, sp, ct})}]
byTrust == [dec |-> "deny", attrs |-> {anyPerm, attr("is", "trust", {"1"})}]
fallback == [dec |-> "allow", attrs |-> {anyPerm}]
allowPath == [dec |-> "allow", attrs |-> {anyPerm, attr("is", "path", {p1})}]

file(name, rules) == [name |-> name, rules |-> rules, sets |-> << >>]

MCRulesD == <<file("10", <<bySubject>>), file("20", <<byTrust>>),
              file("30", <<byPath>>), file("90", <<fallback>>)>>
MCRules == Flat(MCRulesD)
MCProposal == [merged |-> TRUE, changed |-> {},
               files |-> <<file("05", <<allowPath>>)>> \o MCRulesD]
MCUnder == << >>

rec(rule, perm, exe, pid, path, trust) ==
    [corrupt |-> FALSE, denial |-> TRUE, cut |-> FALSE, rule |-> rule, perm |-> perm,
     exe |-> exe, pid |-> pid, path |-> path, ftype |-> None, trust |-> trust]
line(r) == [kind |-> "record", rec |-> r]
bare(kind) == [kind |-> kind, rec |-> None]
good == rec(3, "open", e1, pid1, p1, "1")
passed == [good EXCEPT !.denial = FALSE]

\* Every kind of line, and a record of every standing.
RouteLines ==
    { bare("blank"), bare("framing"), bare("noise"), bare("prose"),
      [kind |-> "audit", rec |-> passed],
      line(good), line(passed), line([good EXCEPT !.corrupt = TRUE]),
      line([good EXCEPT !.cut = TRUE]), line(rec(1, "open", e1, pid1, p1, "1")) }

LogReleases == {<< >>, <<good>>, <<rec(1, "open", e2, pid1, q, "0"), good>>}

\* Every arm of the decision table, under rules of every standing.
LogLines == RouteLines \cup
    { line(rec(4, "execute", e1, pid1, p1, "1")), line(rec(9, "open", e1, pid1, p1, "0")),
      line(rec(1, "open", e1, pid1, p1, "0")), line(rec(0, "open", Unencoded, pid1, q, None)),
      line(rec(3, "open", e1, pid1, sp, None)), line(rec(3, "open", e1, pid1, sp, "1")),
      line(rec(3, "open", e1, pid1, ct, "0")), line(rec(3, None, e1, pid1, q, "1")),
      line(rec(3, "open", e1, pid1, p1, "9")), line(rec(3, "open", sp, pid1, q, "1")),
      line(rec(2, "open", e1, pid1, Unencoded, "1")) }

\* Two processes of two images, execs among their opens.
ExecLines ==
    { line(rec(3, "execute", e1, pid1, q, "1")), line(rec(3, "execute", e2, pid1, sp, "1")),
      line(rec(3, "execute", e1, pid1, None, "1")),
      line(rec(3, "open", e1, pid1, p1, "1")), line(rec(3, "open", e2, pid1, p1, "1")),
      line(rec(3, "open", e1, pid2, p1, "1")), line(rec(2, "open", q, pid2, p1, "1")),
      line(rec(3, "execute", e1, "0", q, "1")), line(rec(3, "open", e1, "0", p1, "1")),
      line(rec(3, "open", e1, pid1, q, "1")), line(rec(1, "open", e1, pid1, q, "1")) }

NoReleases == {<< >>}
================================================================================
