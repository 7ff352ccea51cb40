SPECIFICATION FairSpec
CONSTANTS
    Slugs = {s1, s2}
    Orch = orch0
    StopAt = "light_metrics"
    RemoteFn = TRUE
    SkipModel = TRUE
    MaxLaunches = 2
PROPERTIES LaunchEnds
CHECK_DEADLOCK FALSE
