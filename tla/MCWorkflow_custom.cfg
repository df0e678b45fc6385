CONSTANTS
    Instances <- CustomInstances
    Definition <- CustomDefinition
SPECIFICATION Spec
INVARIANTS NoStepTwice
CHECK_DEADLOCK FALSE
