SPECIFICATION Spec
CONSTANTS
    Containers = {c1, c2}
    Models = {m1}
    Hardware = {}
    Metrics = {}
    Tasks <- OneTask
    HasTemplate = {m1}
    MaxRuns = 1
SYMMETRY Symmetry
INVARIANTS UniqueKeys
PROPERTIES LifecycleInCopy DeprecatedIsTerminal
CHECK_DEADLOCK FALSE
