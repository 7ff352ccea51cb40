SPECIFICATION FairSpec
CONSTANTS
    Parts <- TwoSlugs
    BatchSize = 2
    Containers = {w1, w2}
    Callers = {"baseline", "regional"}
    Blanks <- LastOfASlug
    MaxAttempts = 2
INVARIANTS NoDuplicates FullCoverage
PROPERTIES OutputsKept AttemptEnds
CHECK_DEADLOCK FALSE
