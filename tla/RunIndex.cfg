SPECIFICATION Spec
CONSTANTS
    None = None
    Runs = {r1, r2}
    Slugs = {s1}
    Drivers = {d1, d2}
    Checkers = {k1}
    MaxLaunches = 2
SYMMETRY Symmetry
INVARIANTS IndexInOrder ReportedIsFound
PROPERTIES NothingTakenBack
CHECK_DEADLOCK FALSE
