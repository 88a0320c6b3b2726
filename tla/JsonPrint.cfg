CONSTANTS
    JsonValues <- MCValues
SPECIFICATION Spec
INVARIANTS LoopsInside DepthIsNesting PrintedParses
CHECK_DEADLOCK FALSE
