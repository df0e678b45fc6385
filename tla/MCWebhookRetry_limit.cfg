CONSTANTS
    Webhooks = {w1}
    Jobs = {j1}
    Operators = {o1}
    MaxAttempts = 5
SPECIFICATION Spec
INVARIANTS AtMostMaxAttempts
CHECK_DEADLOCK FALSE
