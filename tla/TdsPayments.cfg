SPECIFICATION Spec
CONSTANTS
    Workers = {w1, w2}
    Challans = {c1, c2}
    Txns = {t1}
    c1 = c1
    c2 = c2
    t1 = t1
    Amounts = {4, 10, 15}
    TdsAmounts = {1, 2}
    Alone <- TwoChallans
    Contended <- OneChallan
INVARIANT TypeOK
INVARIANT AllocationsWithinBalance
INVARIANT SettledMeansAllocated
PROPERTY SettledOnEvidence
PROPERTY DeductionFrozen
PROPERTY FindingsExact
SYMMETRY RequestSymmetry
CHECK_DEADLOCK FALSE
