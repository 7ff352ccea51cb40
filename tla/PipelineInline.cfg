SPECIFICATION Spec
CONSTANTS
    Slugs = {s1, s2}
    Orch = orch0
    StopAt = "done"
    RemoteFn = FALSE
    SkipModel = FALSE
    MaxLaunches = 3
INVARIANT SourceOfTruth
PROPERTIES ReportGrows NoRework
CHECK_DEADLOCK FALSE
