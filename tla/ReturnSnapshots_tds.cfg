SPECIFICATION Spec
CONSTANTS
    Tax = "TDS"
    Workers = {w1}
    Types <- TdsForms
    Alone <- ThreeVersions
    Contended <- OneVersion
INVARIANT PeriodFollowsReview
CHECK_DEADLOCK FALSE
