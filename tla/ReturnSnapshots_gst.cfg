SPECIFICATION Spec
CONSTANTS
    Tax = "GST"
    Workers = {w1, w2}
    Types <- GstReturns
    Alone <- TwoVersions
    Contended <- OneVersion
INVARIANT TypeOK
INVARIANT PeriodFinalizedWithReturns
INVARIANT PeriodHasReview
PROPERTY ImplementsReview
PROPERTY OnlyLatestReviewed
PROPERTY SummariesFrozen
SYMMETRY RequestSymmetry
CHECK_DEADLOCK FALSE
