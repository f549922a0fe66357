SPECIFICATION Spec
CONSTANTS
    Workers = {w1, w2}
    Txns = {t1, t2}
    Amount <- TwoAndOne
    Opening <- ReceiptAndDraft
    w1 = w1
    w2 = w2
    t1 = t1
    t2 = t2
    Alone <- Roomy
    Contended <- Narrow
INVARIANT TypeOK
INVARIANT NeverOverMatched
INVARIANT StatusExplained
INVARIANT MatchFits
PROPERTY MatchesPermanent
PROPERTY FiguresFrozen
PROPERTY ImplementsReview
CHECK_DEADLOCK FALSE
