SPECIFICATION FairSpec
CONSTANTS
    None = None
    N = 2
    Every = 1
    MaxRetries = 2
    Launches = 2
    Overlap = FALSE
    Limits <- SomeLimits
PROPERTIES Settled OkMeansEvaluable JobEnds EvaluatesPrefix
CHECK_DEADLOCK FALSE
