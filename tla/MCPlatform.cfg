CONSTANTS
    Nodes = {n1, n2}
    HeartbeatTimeout = 1
    MaxFailures = 2
    FailoverCooldown = 1
    FailureThreshold = 3
    SuccessThreshold = 2
    RecoveryTimeout = 2
    Backends = {b1, b2}
    Flights = {f1, f2, f3}
    MaxConnections = 2
    Algorithm = "least_connections"
    DatabaseNodes = {d1, d2, d3}
    Keys = {k1}
    Rates = {1}
    Bursts = {1, 2}
    Windows = {2}
    Costs = {1, 2}
    Longest = 2
    Workers = {w1, w2}
    Calls = {c1}
    Processes = {s1, s2}
    MaxTurns = 2
    Users = {u1}
    Purposes = {p1, p2}
    Unlimited = {p2}
    MaxRecords = 4
    ArticleIds = {a1, a2}
    Words = {v1, v2}
SPECIFICATION PlatformSpec
INVARIANTS PlatformTypeOK CountIsOfFlights AllowanceKept QuietIsIdle SpeechCanBeInterrupted ReadsFollowReport WriterLostUnheard HistoryKept LeftoverIsLate WithdrawalHolds FoundByItsWords
PROPERTIES SilentIsReported RecoversWithComponent DrainEmpties
CHECK_DEADLOCK FALSE
