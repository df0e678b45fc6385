--------------------------- MODULE CircuitBreaker ---------------------------
(***************************************************************************)
(* The circuit breaker around a component's health check, and the checker  *)
(* that calls it (src/src/infrastructure/health_check_advanced.py).  Time  *)
(* passes in ticks.  The component is external: it is up or down, and a    *)
(* call to it raises when it is down.                                      *)
(***************************************************************************)
EXTENDS Naturals

CONSTANTS
    FailureThreshold,   \* failure_threshold
    SuccessThreshold,   \* success_threshold
    RecoveryTimeout     \* recovery_timeout_s, in ticks

ASSUME CircuitAssumption ==
    /\ FailureThreshold \in Nat \ {0}
    /\ SuccessThreshold \in Nat \ {0}
    /\ RecoveryTimeout \in Nat \ {0}

VARIABLES
    circuit,            \* _state
    failureCount,       \* _failure_count, not told apart beyond the threshold
    successCount,       \* _success_count
    sinceFailure,       \* ticks since _last_failure_time; RecoveryTimeout: that, more or never
    componentUp,        \* external: what a call finds
    forced              \* auxiliary: opened by force_open, and neither closed nor failing enough since

circuitVars == <<circuit, failureCount, successCount, sinceFailure, componentUp, forced>>

CircuitTypeOK ==
    /\ circuit \in {"closed", "open", "half_open"}
    /\ failureCount \in 0..FailureThreshold
    /\ successCount \in 0..SuccessThreshold - 1
    /\ sinceFailure \in 0..RecoveryTimeout
    /\ componentUp \in BOOLEAN /\ forced \in BOOLEAN

Closed ==
    /\ circuit' = "closed" /\ failureCount' = 0 /\ successCount' = 0
    /\ forced' = FALSE

CircuitInit ==
    /\ circuit = "closed" /\ failureCount = 0 /\ successCount = 0
    /\ sinceFailure = RecoveryTimeout
    /\ componentUp = TRUE
    /\ forced = FALSE

\* call, past the breaker: closed, half open, or open for long enough.
Passes == circuit # "open" \/ sinceFailure >= RecoveryTimeout

\* MUTANT: a success while half open is forgotten unless it is the last.
MutantCallSucceeds ==
    /\ Passes /\ componentUp
    /\ IF circuit = "closed"
       THEN /\ failureCount' = IF failureCount > 0 THEN failureCount - 1 ELSE 0
            /\ UNCHANGED <<circuit, successCount, forced>>
       ELSE IF successCount + 1 >= SuccessThreshold THEN Closed
       ELSE /\ circuit' = "half_open" /\ successCount' = 0
            /\ UNCHANGED <<failureCount, forced>>
    /\ UNCHANGED <<sinceFailure, componentUp>>

\* call and _on_success.
CallSucceeds ==
    /\ Passes /\ componentUp
    /\ IF circuit = "closed"
       THEN /\ failureCount' = IF failureCount > 0 THEN failureCount - 1 ELSE 0
            /\ UNCHANGED <<circuit, successCount, forced>>
       ELSE IF successCount + 1 >= SuccessThreshold THEN Closed
       ELSE /\ circuit' = "half_open" /\ successCount' = successCount + 1
            /\ UNCHANGED <<failureCount, forced>>
    /\ UNCHANGED <<sinceFailure, componentUp>>

\* call and _on_failure: half open, the count of before the opening goes on.
CallFails ==
    LET n == IF failureCount < FailureThreshold THEN failureCount + 1 ELSE failureCount IN
    /\ Passes /\ ~componentUp
    /\ failureCount' = n
    /\ sinceFailure' = 0
    /\ IF n >= FailureThreshold
       THEN circuit' = "open" /\ successCount' = 0
       ELSE /\ circuit' = IF circuit = "open" THEN "half_open" ELSE circuit
            /\ UNCHANGED successCount
    /\ forced' = (forced /\ n < FailureThreshold)
    /\ UNCHANGED componentUp

ForceClose == Closed /\ UNCHANGED <<sinceFailure, componentUp>>
ForceOpen ==
    /\ circuit' = "open" /\ sinceFailure' = 0
    /\ forced' = (circuit = "closed" \/ forced)
    /\ UNCHANGED <<failureCount, successCount, componentUp>>

\* register_component again: a breaker of its own that never failed.
RegisterComponent == Closed /\ sinceFailure' = RecoveryTimeout /\ UNCHANGED componentUp

CircuitTick ==
    /\ sinceFailure < RecoveryTimeout /\ sinceFailure' = sinceFailure + 1
    /\ UNCHANGED <<circuit, failureCount, successCount, componentUp, forced>>
ComponentTurns ==
    /\ componentUp' = ~componentUp
    /\ UNCHANGED <<circuit, failureCount, successCount, sinceFailure, forced>>

Check == CallSucceeds \/ CallFails
CircuitNext ==
    Check \/ ForceClose \/ ForceOpen \/ RegisterComponent \/ CircuitTick \/ ComponentTurns

\* "Ejecuta checks periodicos": check is called again and again, and time passes.
CircuitFairness == WF_circuitVars(Check) /\ WF_circuitVars(CircuitTick)
CircuitSpec == CircuitInit /\ [][CircuitNext]_circuitVars /\ CircuitFairness

-----------------------------------------------------------------------------
(* Properties.                                                             *)

\* A circuit that opened on failures is not fooled while it tries: a single
\* failed call opens it again, however many succeeded before it.  (One that was
\* opened by hand has fewer failures to its count, and may let more through.)
OneFailureReopens ==
    [][CallFails /\ circuit # "closed" /\ ~forced => circuit' = "open"]_circuitVars

\* A component that works again gets its calls back: if nobody goes on opening
\* the circuit by hand it closes, however it was opened and half-way through
\* whatever counts.
RecoversWithComponent ==
    <>[]componentUp /\ <>[][~ForceOpen]_circuitVars => <>[](circuit = "closed")
=============================================================================
