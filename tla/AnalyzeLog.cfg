SPECIFICATION Spec
CONSTANTS
    None = None
    Unencoded = Unencoded
    e1 = e1
    e2 = e2
    p1 = p1
    q = q
    sp = sp
    ct = ct
    u1 = u1
    pid1 = pid1
    pid2 = pid2
    SetNames = {}
    Under <- MCUnder
    Keywords = {}
    Escaped = {}
    Control = {ct}
    Split = {sp}
    Lines <- LogLines
    Releases <- LogReleases
    MaxLines = 3
    RulesD <- MCRulesD
    Rules <- MCRules
    Proposal = None
INVARIANTS TypeOK ExitTwo Justified Answered Counts LiveIsReport
