SPECIFICATION Spec
CONSTANTS
    Slugs = {s1, s2}
    Orch = orch0
    StopAt = "report"
    RemoteFn = TRUE
    SkipModel = TRUE
    MaxLaunches = 2
SYMMETRY Languages
INVARIANTS ReportBacked BaselineFirst OutcomeBacked ResumeSkips
PROPERTIES OutcomeFinal RefinesRunOutcome
CHECK_DEADLOCK FALSE
