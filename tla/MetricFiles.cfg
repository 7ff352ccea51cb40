SPECIFICATION FairSpec
CONSTANTS
    None = None
    Slugs = {1, 2}
    Metrics = {digits}
    Scoped = {digits}
    Baseline = baseline
    Containers = {c1, c2}
    MaxAttempts = 2
    MaxStarts = 2
    Settings <- SomeSettings
INVARIANTS OneRecordPerStart
PROPERTIES OwnRecordsKept StageEnds
CHECK_DEADLOCK FALSE
