CONSTANTS
    Webhooks = {w1, w2}
    Jobs = {j1, j2}
    Operators = {o1}
    MaxAttempts = 2
SPECIFICATION Spec
INVARIANTS NothingForgotten
PROPERTIES OnlyAcceptedLeave EventuallyAnswered
CHECK_DEADLOCK FALSE
