---------------------------- MODULE LoadBalancer ----------------------------
(***************************************************************************)
(* The load balancer (src/src/infrastructure/load_balancer.py): backends   *)
(* that come, go, fail and are drained while requests are on them.  The    *)
(* balancer counts the connections of each; which available backend a      *)
(* counter or a hash picks is left open, least-connections is not.         *)
(***************************************************************************)
EXTENDS Naturals, FiniteSets

CONSTANTS
    Backends,
    Flights,            \* requests that may be under way at a time
    MaxConnections,     \* max_connections of each backend
    Algorithm           \* the algorithm of the balancer

ASSUME BalancerAssumption ==
    /\ MaxConnections \in Nat \ {0}
    /\ Algorithm \in {"round_robin", "least_connections", "weighted_round_robin", "ip_hash"}
    /\ "none" \notin Backends

VARIABLES
    backends,           \* _backends: status and active_connections
    flight,             \* external: the backend each request is on
    replaced            \* auxiliary: backends added while requests were on them

lbVars == <<backends, flight, replaced>>

Gone == [status |-> "absent", active |-> 0]

LBTypeOK ==
    /\ backends \in [Backends -> [status : {"absent", "up", "down", "maintenance"},
                                  active : 0..MaxConnections]]
    /\ flight \in [Flights -> Backends \cup {"none"}]
    /\ replaced \subseteq Backends

LBInit ==
    /\ backends = [b \in Backends |-> Gone]
    /\ flight = [f \in Flights |-> "none"]
    /\ replaced = {}

On(b) == {f \in Flights : flight[f] = b}

\* add_backend: a new object, also under an id there is already.
AddBackend(b) ==
    /\ backends' = [backends EXCEPT ![b] = [status |-> "up", active |-> 0]]
    /\ replaced' = IF On(b) = {} THEN replaced \ {b} ELSE replaced \cup {b}
    /\ UNCHANGED flight

RemoveBackend(b) ==
    /\ backends[b].status # "absent"
    /\ backends' = [backends EXCEPT ![b] = Gone]
    /\ UNCHANGED <<flight, replaced>>

\* MUTANT: a backend is full only above its limit.
MutantOverfull ==
    {b \in Backends : backends[b].status = "up" /\ backends[b].active <= MaxConnections}

\* MUTANT: a backend in maintenance still takes connections.
MutantOpenBackends ==
    {b \in Backends : backends[b].status \in {"up", "maintenance"}
                      /\ backends[b].active < MaxConnections}

\* The backends for which is_available holds.
OpenBackends ==
    {b \in Backends : backends[b].status = "up" /\ backends[b].active < MaxConnections}

Eligible ==
    IF Algorithm = "least_connections"
    THEN {b \in OpenBackends : \A c \in OpenBackends : backends[b].active <= backends[c].active}
    ELSE OpenBackends

SelectBackend(f) ==
    /\ flight[f] = "none"
    /\ \E b \in Eligible :
          /\ backends' = [backends EXCEPT ![b].active = @ + 1]
          /\ flight' = [flight EXCEPT ![f] = b]
    /\ UNCHANGED replaced

\* MUTANT: only a backend that is up is released.
MutantReleaseBackend(f) ==
    LET b == flight[f] IN
    /\ b # "none"
    /\ backends' = IF backends[b].status # "up" THEN backends
                   ELSE [backends EXCEPT ![b].active = IF @ > 0 THEN @ - 1 ELSE 0]
    /\ flight' = [flight EXCEPT ![f] = "none"]
    /\ UNCHANGED replaced

\* release_backend when the request ends: by id, on whatever object has it now.
ReleaseBackend(f) ==
    LET b == flight[f] IN
    /\ b # "none"
    /\ backends' = IF backends[b].status = "absent" THEN backends
                   ELSE [backends EXCEPT ![b].active = IF @ > 0 THEN @ - 1 ELSE 0]
    /\ flight' = [flight EXCEPT ![f] = "none"]
    /\ UNCHANGED replaced

\* mark_backend_down, mark_backend_up, drain_backend.
MarkBackend(b, status) ==
    /\ backends[b].status # "absent"
    /\ backends' = [backends EXCEPT ![b].status = status]
    /\ UNCHANGED <<flight, replaced>>

LBNext ==
    \/ \E b \in Backends :
          \/ AddBackend(b)
          \/ RemoveBackend(b)
          \/ \E status \in {"up", "down", "maintenance"} : MarkBackend(b, status)
    \/ \E f \in Flights : SelectBackend(f) \/ ReleaseBackend(f)

\* Every request ends and releases its backend.
LBFairness == \A f \in Flights : WF_lbVars(ReleaseBackend(f))
LBSpec == LBInit /\ [][LBNext]_lbVars /\ LBFairness

-----------------------------------------------------------------------------
(* Properties.                                                             *)

\* The count of a backend is never above the requests that are on it, whatever
\* was removed, added again and released meanwhile; and it is exactly theirs
\* unless an object was replaced under them.
CountIsOfFlights ==
    \A b \in Backends : backends[b].status # "absent" =>
        /\ backends[b].active <= Cardinality(On(b))
        /\ b \notin replaced => backends[b].active = Cardinality(On(b))

\* A backend that is drained, and left in maintenance, ends up with no request
\* on it ("vaciado graceful").
DrainEmpties ==
    \A b \in Backends :
        <>[](backends[b].status = "maintenance") => <>[](backends[b].active = 0 /\ On(b) = {})
=============================================================================
