CONSTANTS
    Nodes = {n1, n2}
    HeartbeatTimeout = 1
    MaxFailures = 3
    FailoverCooldown = 2
SPECIFICATION HASpec
PROPERTIES FailoverHappens
CHECK_DEADLOCK FALSE
