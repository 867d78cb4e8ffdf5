SPECIFICATION Spec
CONSTANTS
    r1 = r1
    r2 = r2
    r3 = r3
    Runs <- ThreeRuns
    None = None
SYMMETRY Symmetry
INVARIANTS
    CommandsRun
CHECK_DEADLOCK FALSE
