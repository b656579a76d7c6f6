SPECIFICATION Spec
CONSTANTS
    A = A
    B = B
    Keys <- TwoKeys
    LogLines <- FollowAndBatch
    MaxLines = 5
    Never = Never
    RuleDec <- TwoRules
    None = None
INVARIANTS TypeOK IndexMatches Bounded OnceEach Faithful Totals FirstSeenOrder
