SPECIFICATION Spec
CONSTANTS
    Slugs = {s1, s2}
    Orch = orch0
    StopAt = "report"
    RemoteFn = TRUE
    SkipModel = TRUE
    MaxLaunches = 1
PROPERTY ReportGrows
CHECK_DEADLOCK FALSE
