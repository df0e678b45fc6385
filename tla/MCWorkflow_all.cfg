CONSTANTS
    Instances <- AllInstances
    Definition <- AllDefinitions
SPECIFICATION Spec
INVARIANTS TypeOK NothingBehindClosedGate CompletedIsWhole OneGateRunsOnce
PROPERTIES NoStepAfterStop RunEnds
CHECK_DEADLOCK FALSE
