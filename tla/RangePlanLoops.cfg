SPECIFICATION Spec
CONSTANTS
    Starts <- MCStarts
    Targets <- MCTargets
    Steps <- MCSteps
    Matched = {2, 3, 5, 8}
INVARIANTS PlanAgrees PrefixAgrees
CHECK_DEADLOCK FALSE
