SPECIFICATION Spec
CONSTANTS
    None = None
    Slugs = {1}
    Prompts = {1, 2}
    Dims = {1}
    SwapRuns = 2
    Limit = 1
    Containers = {c1, c2}
    Habits = {"first", "regional", "gemma4"}
    MaxAttempts = 2
SYMMETRY Symmetry
INVARIANTS JudgedOnce PreferenceRead PositionCancels
CHECK_DEADLOCK FALSE
