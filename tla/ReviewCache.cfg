SPECIFICATION Spec
CONSTANTS
    r1 = r1
    r2 = r2
    q1 = q1
    q2 = q2
    None = None
    Torn = Torn
    Runs <- TwoRuns
    Slugs = {1, 2}
    Requests <- TwoRequests
    Reported = {r1}
    MaxFull = 3
    Settings <- SomeSettings
INVARIANTS CopiesAgree PageOfItsSlug OneRowPerRun
PROPERTIES RefreshKeeps
