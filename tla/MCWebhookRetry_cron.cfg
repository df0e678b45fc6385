CONSTANTS
    Webhooks = {w1, w2, w3}
    Jobs = {j1}
    Operators = {}
    MaxAttempts = 5
SPECIFICATION Spec
SYMMETRY Interchangeable
INVARIANTS TypeOK OnePostAtATime DeadLettersExhausted
PROPERTIES NoPostAfterAccept
CHECK_DEADLOCK FALSE
