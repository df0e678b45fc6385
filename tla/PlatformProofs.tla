--------------------------- MODULE PlatformProofs ---------------------------
(***************************************************************************)
(* Proofs about the managers that one thread calls: the pool of database   *)
(* nodes, the circuit breaker, the cluster manager, the load balancer and  *)
(* the rate limiter; and, last, about the platform that runs them, the     *)
(* calls and the office.                                                   *)
(***************************************************************************)
EXTENDS MCPlatform, CallsProofs, OfficeProofs, FiniteSetTheorems, TLAPS

-----------------------------------------------------------------------------
(* The pool of database nodes.                                             *)

PoolNode == DatabaseNode \cup {NotRegistered}

\* Only a node that is silent is disconnected, and a primary that is
\* disconnected came to be one so.
Disconnections ==
    /\ \A n \in DatabaseNodes : n \in silent <=> pool[n].status = "disconnected"
    /\ \A n \in DatabaseNodes :
          pool[n].role = "primary" /\ pool[n].status = "disconnected" => n \in blind
PoolInv == PoolTypeOK /\ Disconnections

LEMMA PoolStarts == PoolInit => PoolInv
  BY DEF PoolInit, PoolInv, PoolTypeOK, Disconnections, NotRegistered

LEMMA RegisterKeepsPool ==
  ASSUME PoolInv, NEW n \in DatabaseNodes, NEW node \in DatabaseNode, RegisterDatabase(n, node)
  PROVE  PoolInv'
  <1>1. pool' = [pool EXCEPT ![n] = node]
    BY DEF RegisterDatabase
  <1>2. PoolTypeOK'
    BY <1>1 DEF RegisterDatabase, PoolInv, PoolTypeOK
  <1>3. Disconnections'
    BY <1>1 DEF RegisterDatabase, PoolInv, PoolTypeOK, Disconnections
  <1> QED BY <1>2, <1>3 DEF PoolInv

LEMMA LagKeepsPool ==
  ASSUME PoolInv, NEW n \in DatabaseNodes, NEW behind \in BOOLEAN, UpdateLag(n, behind)
  PROVE  PoolInv'
  <1> DEFINE report == Reported(pool[n], behind)
  <1>1. pool[n] \in DatabaseNode /\ pool[n].role = "replica"
    BY DEF UpdateLag, PoolInv, PoolTypeOK, NotRegistered
  <1>2. /\ report \in DatabaseNode
        /\ report.role = pool[n].role
        /\ report.status # "disconnected"
    <2>1. CASE behind
      BY <1>1, <2>1 DEF Reported, DatabaseNode, ReplicationStatuses
    <2>2. CASE ~behind
      BY <1>1, <2>2 DEF Reported, DatabaseNode, ReplicationStatuses
    <2> QED BY <2>1, <2>2
  <1>3. pool' = [pool EXCEPT ![n] = report]
    BY DEF UpdateLag
  <1>4. report.role = "replica"
    BY <1>1, <1>2
  <1> HIDE DEF report
  <1>5. PoolTypeOK'
    BY <1>2, <1>3 DEF UpdateLag, PoolInv, PoolTypeOK
  <1>6. Disconnections'
    BY <1>2, <1>3, <1>4 DEF UpdateLag, PoolInv, PoolTypeOK, Disconnections
  <1> QED BY <1>5, <1>6 DEF PoolInv

\* A demoted primary joins the silent ones; the node promoted joins the blind
\* ones if it is disconnected, for then it is silent.
LEMMA PromoteKeepsPool ==
  ASSUME PoolInv, NEW n \in DatabaseNodes, Promote(n)
  PROVE  PoolInv'
  <1> DEFINE old == {m \in DatabaseNodes : pool[m].role = "primary"}
  <1>1. \A m \in DatabaseNodes : /\ pool[m] \in PoolNode
                                 /\ m \in old \/ m = n => pool[m] \in DatabaseNode
    BY DEF Promote, PoolInv, PoolTypeOK, PoolNode, NotRegistered
  <1>2. ASSUME NEW m \in DatabaseNodes
        PROVE  /\ pool'[m].role = IF m \in old THEN "replica"
                                  ELSE IF m = n THEN "primary" ELSE pool[m].role
               /\ pool'[m].status = IF m \in old THEN "disconnected" ELSE pool[m].status
               /\ pool'[m] \in PoolNode
    <2>1. CASE m \in old
      <3>1. pool'[m] = [pool[m] EXCEPT !.role = "replica", !.status = "disconnected"]
        BY <2>1 DEF Promote, Demoted
      <3> QED BY <1>1, <2>1, <3>1 DEF PoolNode, DatabaseNode, ReplicationRoles, ReplicationStatuses
    <2>2. CASE m \notin old /\ m = n
      <3>1. pool'[m] = [pool[m] EXCEPT !.role = "primary"]
        BY <2>2 DEF Promote
      <3> QED BY <1>1, <2>2, <3>1 DEF PoolNode, DatabaseNode, ReplicationRoles
    <2>3. CASE m \notin old /\ m # n
      BY <1>1, <2>3 DEF Promote
    <2> QED BY <2>1, <2>2, <2>3
  <1>3. pool' \in [DatabaseNodes -> PoolNode]
    BY <1>2 DEF Promote
  <1>4. silent' = silent \cup old /\ n \notin old
    BY DEF Promote
  <1>5. blind' = IF n \in silent THEN (blind \ old) \cup {n} ELSE blind \ old
    BY DEF Promote
  <1>6. PoolTypeOK'
    BY <1>3, <1>4, <1>5 DEF PoolInv, PoolTypeOK, PoolNode
  <1>7. Disconnections'
    BY <1>2, <1>4, <1>5 DEF PoolInv, PoolTypeOK, Disconnections
  <1> QED BY <1>6, <1>7 DEF PoolInv

LEMMA PoolIsInvariant == PoolSpec => []PoolInv
  <1>1. PoolInv /\ [PoolNext]_poolVars => PoolInv'
    <2> SUFFICES ASSUME PoolInv, [PoolNext]_poolVars PROVE PoolInv'
      OBVIOUS
    <2>1. CASE PoolNext
      BY <2>1, RegisterKeepsPool, LagKeepsPool, PromoteKeepsPool DEF PoolNext
    <2>2. CASE UNCHANGED poolVars
      BY <2>2 DEF poolVars, PoolInv, PoolTypeOK, Disconnections
    <2> QED BY <2>1, <2>2
  <1> QED BY PoolStarts, <1>1, PTL DEF PoolSpec

\* No read goes to a node that was demoted, or registered as disconnected, and
\* has not reported since, whatever the number of nodes and promotions
\* (promote_replica, get_read_node).
THEOREM ReadsAreReported == PoolSpec => []ReadsFollowReport
  <1>1. PoolInv => ReadsFollowReport
    BY DEF PoolInv, PoolTypeOK, Disconnections, ReadsFollowReport, ReadReplicas
  <1> QED BY PoolIsInvariant, <1>1, PTL

\* A pool with primaries and no node to write to has only primaries that came to
\* the role unheard: registered as disconnected, or promoted back before they
\* reported (register_node, promote_replica, get_write_node).
THEOREM WriterIsLostUnheardOnly == PoolSpec => []WriterLostUnheard
  <1>1. PoolInv => WriterLostUnheard
    BY DEF PoolInv, PoolTypeOK, Disconnections, WriterLostUnheard, Primaries, WriteNodes
  <1> QED BY PoolIsInvariant, <1>1, PTL

-----------------------------------------------------------------------------
(* The circuit breaker.                                                    *)

\* A circuit that failures opened keeps their count until it closes.
CircuitInv == CircuitTypeOK /\ (circuit # "closed" /\ ~forced => failureCount = FailureThreshold)

LEMMA CircuitStarts == CircuitInit => CircuitInv
  <1> SUFFICES ASSUME CircuitInit PROVE CircuitInv
    OBVIOUS
  <1>1. componentUp \in BOOLEAN /\ forced \in BOOLEAN
    BY Zenon DEF CircuitInit
  <1>2. /\ circuit = "closed" /\ failureCount \in 0..FailureThreshold
        /\ successCount \in 0..SuccessThreshold - 1 /\ sinceFailure \in 0..RecoveryTimeout
    BY CircuitAssumption DEF CircuitAssumption, CircuitInit
  <1> QED BY <1>1, <1>2 DEF CircuitInv, CircuitTypeOK

LEMMA CircuitKeeps ==
  ASSUME CircuitInv, [CircuitNext]_circuitVars
  PROVE  CircuitInv'
  <1> USE CircuitAssumption DEF CircuitAssumption, CircuitTypeOK
  <1>1. CASE CallSucceeds
    <2>1. forced' \in BOOLEAN /\ componentUp' \in BOOLEAN
      BY <1>1, Zenon DEF CircuitInv, CallSucceeds, Closed
    <2>2. /\ circuit' \in {"closed", "open", "half_open"}
          /\ failureCount' \in 0..FailureThreshold
          /\ successCount' \in 0..SuccessThreshold - 1
          /\ sinceFailure' \in 0..RecoveryTimeout
      BY <1>1 DEF CircuitInv, CallSucceeds, Closed
    <2>3. circuit' # "closed" /\ ~forced' => failureCount' = FailureThreshold
      BY <1>1 DEF CircuitInv, CallSucceeds, Closed, Passes
    <2> QED BY <2>1, <2>2, <2>3 DEF CircuitInv
  <1>2. CASE CallFails
    <2> DEFINE n == IF failureCount < FailureThreshold THEN failureCount + 1 ELSE failureCount
    <2>1. (forced' <=> forced /\ n < FailureThreshold) /\ forced' \in BOOLEAN
      BY <1>2, Zenon DEF CallFails
    <2>2. /\ failureCount' = n /\ n \in 0..FailureThreshold
          /\ n < FailureThreshold => (circuit' # "closed" => circuit # "closed")
          /\ circuit' \in {"closed", "open", "half_open"} /\ sinceFailure' = 0
          /\ successCount' \in 0..SuccessThreshold - 1 /\ componentUp' \in BOOLEAN
      BY <1>2 DEF CircuitInv, CallFails
    <2> QED BY <2>1, <2>2 DEF CircuitInv
  <1>3. CASE ForceClose \/ RegisterComponent
    <2>1. forced' \in BOOLEAN /\ componentUp' \in BOOLEAN
      BY <1>3, Zenon DEF CircuitInv, ForceClose, RegisterComponent, Closed
    <2>2. /\ circuit' = "closed" /\ failureCount' = 0 /\ successCount' = 0
          /\ sinceFailure' \in 0..RecoveryTimeout
      BY <1>3 DEF CircuitInv, ForceClose, RegisterComponent, Closed
    <2> QED BY <2>1, <2>2 DEF CircuitInv
  <1>4. CASE ForceOpen
    <2>1. (forced' <=> circuit = "closed" \/ forced) /\ forced' \in BOOLEAN
      BY <1>4, Zenon DEF ForceOpen
    <2>2. /\ circuit' = "open" /\ sinceFailure' = 0
          /\ UNCHANGED <<failureCount, successCount, componentUp>>
      BY <1>4 DEF ForceOpen
    <2> QED BY <2>1, <2>2 DEF CircuitInv
  <1>5. CASE CircuitTick
    BY <1>5 DEF CircuitInv, CircuitTick
  <1>6. CASE ComponentTurns
    <2>1. componentUp' \in BOOLEAN
      BY <1>6, Zenon DEF ComponentTurns
    <2> QED BY <1>6, <2>1 DEF CircuitInv, ComponentTurns
  <1>7. CASE UNCHANGED circuitVars
    BY <1>7 DEF CircuitInv, circuitVars
  <1> QED BY <1>1, <1>2, <1>3, <1>4, <1>5, <1>6, <1>7 DEF CircuitNext, Check

\* Whatever the thresholds, one failed call opens a circuit that failures had
\* opened before.
THEOREM OneFailureIsEnough == CircuitSpec => OneFailureReopens
  <1>1. CircuitInv => (CallFails /\ circuit # "closed" /\ ~forced => circuit' = "open")
    BY CircuitAssumption DEF CircuitAssumption, CircuitInv, CircuitTypeOK, CallFails
  <1>2. CircuitInv /\ [CircuitNext]_circuitVars
          => [CallFails /\ circuit # "closed" /\ ~forced => circuit' = "open"]_circuitVars
    BY <1>1
  <1>3. CircuitInv /\ [CircuitNext]_circuitVars => CircuitInv'
    BY CircuitKeeps
  <1> QED BY CircuitStarts, <1>2, <1>3, PTL DEF CircuitSpec, OneFailureReopens

-----------------------------------------------------------------------------
(* The cluster manager.                                                    *)

LEMMA CheckedIsNode ==
  ASSUME NEW node \in NodeType
  PROVE  Checked(node) \in NodeType
  <1> DEFINE more == IF node.failures < MaxFailures THEN node.failures + 1 ELSE node.failures
  <1>1. more \in 0..MaxFailures
    BY HighAvailabilityAssumption DEF HighAvailabilityAssumption, NodeType
  <1>2. [node EXCEPT !.status = "unhealthy", !.failures = more] \in NodeType
        /\ [node EXCEPT !.status = "degraded"] \in NodeType
    BY <1>1 DEF NodeType, NodeStatuses
  <1> QED BY <1>2 DEF Checked

LEMMA HeardIsNode ==
  ASSUME NEW node \in NodeType, NEW slow \in BOOLEAN
  PROVE  Heard(node, slow) \in NodeType
  BY HighAvailabilityAssumption
     DEF HighAvailabilityAssumption, NodeType, Heard, Roles, NodeStatuses

LEMMA NewIsNode ==
  /\ Unregistered \in NodeType
  /\ \A role \in Roles :
        [Unregistered EXCEPT !.role = role, !.status = "healthy"] \in NodeType
  <1>1. HeartbeatTimeout + 1 \in 0..HeartbeatTimeout + 1 /\ 0 \in 0..MaxFailures
    BY HighAvailabilityAssumption DEF HighAvailabilityAssumption
  <1>2. Unregistered \in NodeType
    BY <1>1, Zenon DEF NodeType, Unregistered, Roles, NodeStatuses
  <1> QED BY <1>2 DEF NodeType, NodeStatuses

LEMMA ClusterStarts == HAInit => HATypeOK
  <1>1. FailoverCooldown \in 0..FailoverCooldown
    BY HighAvailabilityAssumption DEF HighAvailabilityAssumption
  <1> QED BY <1>1, NewIsNode DEF HAInit, HATypeOK

\* A cycle leaves nodes; those it promotes were heard of in time, and it has found
\* another one to be dead.
Promoted(n) == nodes[n].role # "primary" /\ nodes'[n].role = "primary"
Dead(m) == nodes'[m].status = "unhealthy" /\ nodes'[m].failures >= MaxFailures

LEMMA CycleKeepsCluster ==
  ASSUME HATypeOK, HealthCycle
  PROVE  /\ HATypeOK'
         /\ \A n \in Nodes : Promoted(n) =>
               /\ Available(nodes'[n]) /\ nodes[n].silent <= HeartbeatTimeout
               /\ \E m \in Nodes \ {n} : Dead(m)
               /\ sinceFailover >= FailoverCooldown
               /\ \A m \in Nodes \ {n} : Promoted(m) => FailoverCooldown = 0
  <1> USE HighAvailabilityAssumption DEF HighAvailabilityAssumption
  <1> DEFINE table == [n \in Nodes |-> Checked(nodes[n])]
  <1>1. /\ table \in [Nodes -> NodeType]
        /\ \A n \in Nodes : table[n] = Checked(nodes[n])
    BY CheckedIsNode DEF HATypeOK
  <1>2. PICK chosen \in SUBSET Candidates(table) :
           /\ Promotes(table, chosen)
           /\ nodes' = [n \in Nodes |->
                 IF n \in chosen THEN [table[n] EXCEPT !.role = "primary"] ELSE table[n]]
           /\ sinceFailover' = IF chosen = {} THEN sinceFailover ELSE 0
    BY DEF HealthCycle
  <1>3. UNCHANGED alive
    BY DEF HealthCycle
  <1> HIDE DEF table
  <1>4. chosen \subseteq Nodes /\ \A n \in chosen : Available(table[n])
    BY <1>2 DEF Candidates
  <1>5. \A n \in Nodes :
           /\ nodes'[n] \in NodeType
           /\ nodes'[n].status = table[n].status /\ nodes'[n].failures = table[n].failures
           /\ n \notin chosen => nodes'[n].role = table[n].role
    BY <1>1, <1>2 DEF NodeType, Roles
  <1>6. HATypeOK'
    BY <1>2, <1>3, <1>5 DEF HATypeOK
  <1>7. \A n \in Nodes : /\ table[n].role = nodes[n].role
                         /\ Available(table[n]) => nodes[n].silent <= HeartbeatTimeout
    <2> SUFFICES ASSUME NEW n \in Nodes
                 PROVE  /\ table[n].role = nodes[n].role
                        /\ Available(table[n]) => nodes[n].silent <= HeartbeatTimeout
      OBVIOUS
    <2>1. nodes[n] \in NodeType /\ nodes[n].silent \in Nat
      BY DEF HATypeOK, NodeType
    <2>2. table[n].role = nodes[n].role
      BY <1>1, <2>1 DEF Checked, NodeType
    <2>3. ASSUME nodes[n].silent > HeartbeatTimeout PROVE ~Available(table[n])
      BY <1>1, <2>1, <2>3 DEF Checked, Available, NodeType
    <2>. QED  BY <2>1, <2>2, <2>3
  <1>8. ASSUME NEW n \in Nodes, Promoted(n)
        PROVE  /\ Available(nodes'[n]) /\ nodes[n].silent <= HeartbeatTimeout
               /\ \E m \in Nodes \ {n} : Dead(m)
               /\ sinceFailover >= FailoverCooldown
               /\ \A m \in Nodes \ {n} : Promoted(m) => FailoverCooldown = 0
    <2>1. n \in chosen
      BY <1>5, <1>7, <1>8 DEF Promoted
    <2>2. Available(nodes'[n]) /\ nodes[n].silent <= HeartbeatTimeout
      BY <1>4, <1>5, <1>7, <2>1 DEF Available
    <2>3. /\ Failing(table) # {} /\ sinceFailover >= FailoverCooldown
          /\ FailoverCooldown # 0 => Cardinality(chosen) <= 1
      <3>1. IsFiniteSet(chosen) /\ Cardinality(chosen) \in Nat /\ Cardinality(chosen) # 0
        BY <1>4, <2>1, FS_Subset, FS_EmptySet, FS_CardinalityType
      <3>2. Cardinality(chosen) <= Failovers(table)
        BY <1>2 DEF Promotes
      <3>3. sinceFailover \in Nat
        BY DEF HATypeOK
      <3>. QED  BY <3>1, <3>2, <3>3 DEF Failovers
    <2>4. PICK m \in Nodes : table[m].status = "unhealthy" /\ table[m].failures >= MaxFailures
      BY <2>3 DEF Failing
    <2>5. m # n
      BY <1>4, <2>1, <2>4 DEF Available
    <2>6. ASSUME NEW o \in Nodes \ {n}, Promoted(o) PROVE FailoverCooldown = 0
      <3>1. o \in chosen
        BY <1>5, <1>7, <2>6 DEF Promoted
      <3>2. IsFiniteSet({n, o}) /\ Cardinality({n, o}) = 2
        <4>1. IsFiniteSet({n}) /\ Cardinality({n}) = 1
          BY FS_Singleton
        <4>2. {n, o} = {n} \cup {o} /\ o \notin {n}
          BY <2>6
        <4>. QED  BY <4>1, <4>2, FS_AddElement
      <3>3. Cardinality(chosen) >= 2
        BY <1>4, <2>1, <3>1, <3>2, FS_Subset, FS_CardinalityType
      <3>. QED  BY <1>4, <2>3, <3>3, FS_Subset, FS_CardinalityType
    <2>. QED  BY <1>5, <2>2, <2>3, <2>4, <2>5, <2>6 DEF Dead
  <1>. QED  BY <1>6, <1>8

LEMMA OthersKeepCluster ==
  ASSUME HATypeOK, [HANext]_haVars, ~HealthCycle
  PROVE  HATypeOK'
  <1> USE HighAvailabilityAssumption DEF HighAvailabilityAssumption
  <1>1. ASSUME NEW n \in Nodes, NEW role \in Roles, RegisterNode(n, role)
        PROVE  HATypeOK'
    BY <1>1, NewIsNode DEF HATypeOK, RegisterNode
  <1>2. ASSUME NEW n \in Nodes, DeregisterNode(n)
        PROVE  HATypeOK'
    BY <1>2, NewIsNode DEF HATypeOK, DeregisterNode
  <1>3. ASSUME NEW n \in Nodes, NEW slow \in BOOLEAN, Heartbeat(n, slow)
        PROVE  HATypeOK'
    BY <1>3, HeardIsNode DEF HATypeOK, Heartbeat
  <1>4. ASSUME NEW n \in Nodes, NodeStops(n) \/ NodeReturns(n)
        PROVE  HATypeOK'
    BY <1>4 DEF HATypeOK, NodeStops, NodeReturns
  <1>5. ASSUME HATick
        PROVE  HATypeOK'
    <2>1. \A n \in Nodes : nodes'[n] \in NodeType
      BY <1>5 DEF HATypeOK, HATick, NodeType
    <2> QED BY <1>5, <2>1 DEF HATypeOK, HATick
  <1>6. CASE UNCHANGED haVars
    BY <1>6 DEF HATypeOK, haVars
  <1> QED BY <1>1, <1>2, <1>3, <1>4, <1>5, <1>6 DEF HANext

\* In a cluster of any size, and with any timeouts and any cooldown, zero too,
\* the node that a health cycle makes primary is available and had been heard of
\* in time, another one is counted as dead, the last failover is a cooldown ago,
\* and no other node is made primary with it unless the cooldown is zero
\* (run_health_check_cycle, _trigger_failover).
THEOREM PromotedIsUp == HASpec => FailoverGivesPrimary
  <1>1. HATypeOK /\ [HANext]_haVars
          => /\ HATypeOK'
             /\ [\A n \in Nodes :
                    HealthCycle /\ nodes[n].role # "primary" /\ nodes'[n].role = "primary" =>
                        /\ Available(nodes'[n]) /\ nodes[n].silent <= HeartbeatTimeout
                        /\ \E m \in Nodes \ {n} :
                              /\ nodes'[m].status = "unhealthy"
                              /\ nodes'[m].failures >= MaxFailures
                        /\ sinceFailover >= FailoverCooldown
                        /\ \A m \in Nodes \ {n} :
                              nodes[m].role # "primary" /\ nodes'[m].role = "primary"
                                  => FailoverCooldown = 0]_haVars
    BY CycleKeepsCluster, OthersKeepCluster DEF Promoted, Dead
  <1> QED BY <1>1, ClusterStarts, PTL DEF HASpec, FailoverGivesPrimary

-----------------------------------------------------------------------------
(* The load balancer.                                                      *)

\* However many requests there may be, those on one backend are finitely many.
FinitelyMany == \A b \in Backends : IsFiniteSet(On(b))
LBInv == LBTypeOK /\ FinitelyMany /\ CountIsOfFlights

LEMMA BalancerStarts == LBInit => LBInv
  <1> SUFFICES ASSUME LBInit PROVE LBInv
    OBVIOUS
  <1>1. \A b \in Backends : On(b) = {} /\ backends[b].status = "absent"
    BY BalancerAssumption DEF LBInit, On, Gone
  <1>2. FinitelyMany
    BY <1>1, FS_EmptySet DEF FinitelyMany
  <1>3. LBTypeOK
    BY BalancerAssumption DEF LBInit, LBTypeOK, Gone
  <1> QED BY <1>1, <1>2, <1>3 DEF LBInv, CountIsOfFlights

\* The three requests about a backend leave the flights alone.
LEMMA ManagersKeepBalancer ==
  ASSUME LBInv, NEW b \in Backends,
         \/ AddBackend(b)
         \/ RemoveBackend(b)
         \/ \E status \in {"up", "down", "maintenance"} : MarkBackend(b, status)
  PROVE  LBInv'
  <1> USE BalancerAssumption DEF LBInv, LBTypeOK
  <1>1. flight' = flight /\ \A c : On(c)' = On(c)
    BY DEF AddBackend, RemoveBackend, MarkBackend, On
  <1>2. FinitelyMany'
    BY <1>1 DEF FinitelyMany
  <1>3. \A c \in Backends : Cardinality(On(c)) \in Nat
    BY FS_CardinalityType DEF FinitelyMany
  <1>4. On(b) = {} => Cardinality(On(b)) = 0
    BY FS_EmptySet
  <1>5. CASE AddBackend(b)
    <2>1. LBTypeOK'
      BY <1>5 DEF AddBackend
    <2>2. CountIsOfFlights'
      BY <1>1, <1>3, <1>4, <1>5 DEF AddBackend, CountIsOfFlights
    <2> QED BY <1>2, <2>1, <2>2
  <1>6. CASE RemoveBackend(b)
    <2>1. LBTypeOK'
      BY <1>6 DEF RemoveBackend, Gone
    <2>2. CountIsOfFlights'
      BY <1>1, <1>6 DEF RemoveBackend, Gone, CountIsOfFlights
    <2> QED BY <1>2, <2>1, <2>2
  <1>7. ASSUME NEW status \in {"up", "down", "maintenance"}, MarkBackend(b, status) PROVE LBInv'
    <2>1. LBTypeOK'
      BY <1>7 DEF MarkBackend
    <2>2. CountIsOfFlights'
      BY <1>1, <1>7 DEF MarkBackend, CountIsOfFlights
    <2> QED BY <1>2, <2>1, <2>2
  <1> QED BY <1>5, <1>6, <1>7

\* A request adds itself to the requests of the backend selected for it.
LEMMA SelectionKeepsBalancer ==
  ASSUME LBInv, NEW f \in Flights, SelectBackend(f)
  PROVE  LBInv'
  <1> USE BalancerAssumption DEF LBInv, LBTypeOK
  <1>1. PICK b \in OpenBackends : /\ backends' = [backends EXCEPT ![b].active = @ + 1]
                                  /\ flight' = [flight EXCEPT ![f] = b]
    BY DEF SelectBackend, Eligible
  <1>2. b \in Backends /\ backends[b].status = "up" /\ backends[b].active < MaxConnections
    BY DEF OpenBackends
  <1>3. f \notin On(b) /\ On(b)' = On(b) \cup {f} /\ \A c \in Backends \ {b} : On(c)' = On(c)
    BY <1>1, <1>2 DEF SelectBackend, On
  <1>4. IsFiniteSet(On(b)') /\ Cardinality(On(b)') = Cardinality(On(b)) + 1
    BY <1>2, <1>3, FS_AddElement DEF FinitelyMany
  <1>5. Cardinality(On(b)) \in Nat
    BY <1>2, FS_CardinalityType DEF FinitelyMany
  <1>6. FinitelyMany'
    BY <1>3, <1>4 DEF FinitelyMany
  <1>7. LBTypeOK'
    BY <1>1, <1>2 DEF SelectBackend
  <1>8. CountIsOfFlights'
    <2> SUFFICES ASSUME NEW c \in Backends, backends'[c].status # "absent"
                 PROVE  /\ backends'[c].active <= Cardinality(On(c)')
                        /\ c \notin replaced => backends'[c].active = Cardinality(On(c)')
      BY DEF SelectBackend, CountIsOfFlights
    <2>1. CASE c # b
      BY <1>1, <1>3, <2>1 DEF CountIsOfFlights
    <2>2. CASE c = b
      <3>1. backends'[b].active = backends[b].active + 1 /\ backends[b].active \in Nat
        BY <1>1, <1>2
      <3>2. /\ backends[b].active <= Cardinality(On(b))
            /\ b \notin replaced => backends[b].active = Cardinality(On(b))
        BY <1>2 DEF CountIsOfFlights
      <3> QED BY <1>4, <1>5, <2>2, <3>1, <3>2
    <2> QED BY <2>1, <2>2
  <1> QED BY <1>6, <1>7, <1>8

\* A request that ends gives back the connection of the object it was counted
\* on, unless that object is gone: then another may be lowered, or none.
LEMMA ReleaseKeepsBalancer ==
  ASSUME LBInv, NEW f \in Flights, ReleaseBackend(f)
  PROVE  LBInv'
  <1> USE BalancerAssumption DEF LBInv, LBTypeOK
  <1>1. PICK b \in Backends : b = flight[f] /\ f \in On(b)
    BY DEF ReleaseBackend, On
  <1>2. On(b)' = On(b) \ {f} /\ \A c \in Backends \ {b} : On(c)' = On(c)
    BY <1>1 DEF ReleaseBackend, On
  <1>3. IsFiniteSet(On(b)') /\ Cardinality(On(b)') = Cardinality(On(b)) - 1
    BY <1>1, <1>2, FS_RemoveElement DEF FinitelyMany
  <1>4. Cardinality(On(b)) \in Nat
    BY <1>1, FS_CardinalityType DEF FinitelyMany
  <1>5. Cardinality(On(b)') \in Nat
    BY <1>3, FS_CardinalityType
  <1>6. FinitelyMany'
    BY <1>2, <1>3 DEF FinitelyMany
  <1>7. LBTypeOK'
    BY <1>1 DEF ReleaseBackend
  <1>8. CountIsOfFlights'
    <2> SUFFICES ASSUME NEW c \in Backends, backends'[c].status # "absent"
                 PROVE  /\ backends'[c].active <= Cardinality(On(c)')
                        /\ c \notin replaced => backends'[c].active = Cardinality(On(c)')
      BY DEF ReleaseBackend, CountIsOfFlights
    <2>1. backends'[c].status = backends[c].status /\ (c # b => backends'[c] = backends[c])
      BY <1>1 DEF ReleaseBackend
    <2>2. CASE c # b
      BY <1>2, <2>1, <2>2 DEF CountIsOfFlights
    <2>3. CASE c = b
      <3>1. backends'[b].active = IF backends[b].active > 0 THEN backends[b].active - 1 ELSE 0
        BY <1>1, <2>1, <2>3 DEF ReleaseBackend
      <3>2. backends[b].active \in Nat
        BY <1>1
      <3>3. /\ backends[b].active <= Cardinality(On(b))
            /\ b \notin replaced => backends[b].active = Cardinality(On(b))
        BY <1>1, <2>1, <2>3 DEF CountIsOfFlights
      <3> QED BY <1>3, <1>4, <1>5, <2>3, <3>1, <3>2, <3>3
    <2> QED BY <2>2, <2>3
  <1> QED BY <1>6, <1>7, <1>8

LEMMA BalancerKeeps ==
  ASSUME LBInv, [LBNext]_lbVars
  PROVE  LBInv'
  <1>1. CASE UNCHANGED lbVars
    BY <1>1 DEF lbVars, LBInv, LBTypeOK, FinitelyMany, CountIsOfFlights, On
  <1> QED BY <1>1, ManagersKeepBalancer, SelectionKeepsBalancer, ReleaseKeepsBalancer DEF LBNext

\* For any backends, requests, limit and algorithm, the count of a backend is
\* never above the requests that are on it, and is exactly theirs unless its
\* object was replaced under them.
THEOREM CountsAreOfFlights == LBSpec => []CountIsOfFlights
  <1>1. LBInv /\ [LBNext]_lbVars => LBInv'
    BY BalancerKeeps
  <1> QED BY <1>1, BalancerStarts, PTL DEF LBSpec, LBInv

-----------------------------------------------------------------------------
(* The rate limiter.                                                       *)

\* What a bucket still has to give counts against its allowance like what it
\* gave: an object that is not there has given nothing.
BucketOwes(bucket, given) ==
    \/ bucket = NoBucket /\ \A n \in 0..Longest : given[n] = 0
    \/ /\ bucket \in Bucket
       /\ \A n \in 0..Longest : given[n] + Refilled(bucket) <= bucket.burst + n * bucket.rate

\* What a window granted in a part of its length is in its list.
Within(ages, n) == {slot \in DOMAIN ages : ages[slot] <= n}
WindowLists(window, given) ==
    \/ window = NoWindow /\ \A n \in 0..Longest : given[n] = 0
    \/ /\ IsWindow(window)
       /\ \A n \in 0..(window.window - 1) : given[n] <= Cardinality(Within(window.ages, n))

RateTypes ==
    /\ limits \in [Keys -> Limits]
    /\ buckets = [k \in Keys |-> buckets[k]] /\ DOMAIN windows = Keys
    /\ spent \in [Keys -> [Algorithms -> [0..Longest -> Nat]]]
KeyInv(k) == /\ BucketOwes(buckets[k], spent[k]["token_bucket"])
             /\ WindowLists(windows[k], spent[k]["sliding_window"])
RateInv == RateTypes /\ \A k \in Keys : KeyInv(k)

LEMMA RateConstants ==
  /\ Longest \in Nat /\ \A n \in Bursts \cup Windows : n <= Longest
  /\ \A n \in Rates \cup Bursts \cup Windows \cup Costs : n \in Nat /\ n >= 1
  BY RateAssumption DEF RateAssumption

LEMMA BucketIs ==
  ASSUME NEW bucket \in Bucket
  PROVE  /\ bucket = [rate |-> bucket.rate, burst |-> bucket.burst, tokens |-> bucket.tokens,
                      idle |-> bucket.idle]
         /\ bucket.rate \in Rates /\ bucket.burst \in Bursts /\ bucket.tokens \in Nat
         /\ bucket.idle \in 0..Longest /\ bucket.tokens <= bucket.burst
         /\ bucket.rate \in Nat /\ bucket.burst \in Nat /\ bucket.idle \in Nat
  BY RateConstants DEF Bucket

LEMMA TicksGive ==
  ASSUME NEW n \in Nat, NEW rate \in Nat
  PROVE  n * rate \in Nat /\ (n + 1) * rate = n * rate + rate
  OBVIOUS

LEMMA RefillIs ==
  ASSUME NEW bucket \in Bucket
  PROVE  /\ Refilled(bucket) \in Nat /\ Refilled(bucket) <= bucket.burst
         /\ bucket.idle = 0 => Refilled(bucket) = bucket.tokens
  <1>1. bucket.idle * bucket.rate \in Nat /\ (bucket.idle = 0 => bucket.idle * bucket.rate = 0)
    BY BucketIs
  <1> QED BY <1>1, BucketIs DEF Refilled

\* A check moves tokens from what the bucket has to what it gave.
LEMMA ConsumeKeeps ==
  ASSUME NEW bucket \in Bucket, NEW given \in [0..Longest -> Nat], NEW cost \in Costs,
         BucketOwes(bucket, given)
  PROVE  BucketOwes(Consumed(bucket, cost),
                    IF cost <= Refilled(bucket) THEN [n \in 0..Longest |-> given[n] + cost]
                    ELSE given)
  <1> DEFINE left == IF cost <= Refilled(bucket) THEN Refilled(bucket) - cost
                     ELSE Refilled(bucket)
             after == [rate |-> bucket.rate, burst |-> bucket.burst, tokens |-> left,
                       idle |-> 0]
             then == IF cost <= Refilled(bucket) THEN [n \in 0..Longest |-> given[n] + cost]
                     ELSE given
  <1>1. Consumed(bucket, cost) = after
    <2>1. Consumed(bucket, cost) = [bucket EXCEPT !.tokens = left, !.idle = 0]
      BY DEF Consumed
    <2> HIDE DEF left
    <2> QED BY <2>1, BucketIs
  <1>2. cost \in Nat /\ Refilled(bucket) \in Nat /\ Refilled(bucket) <= bucket.burst
    BY RateConstants, RefillIs
  <1>3. left \in Nat /\ left <= bucket.burst
    BY <1>2, BucketIs
  <1>4. after \in Bucket
    BY <1>3, BucketIs, RateConstants DEF Bucket
  <1>5. Refilled(after) = left
    BY <1>4, RefillIs
  <1>6. \A n \in 0..Longest : given[n] + Refilled(bucket) <= bucket.burst + n * bucket.rate
    BY BucketIs, RateConstants DEF BucketOwes, NoBucket
  <1>7. ASSUME NEW n \in 0..Longest
        PROVE  then[n] + left <= bucket.burst + n * bucket.rate
    <2>1. then[n] + left = given[n] + Refilled(bucket)
      BY <1>2
    <2> HIDE DEF then, left
    <2> QED BY <1>6, <2>1
  <1> QED BY <1>1, <1>4, <1>5, <1>7 DEF BucketOwes

\* A tick brings a bucket its rate at most.
LEMMA BucketAges ==
  ASSUME NEW bucket \in Bucket, NEW given \in [0..Longest -> Nat], BucketOwes(bucket, given)
  PROVE  BucketOwes([bucket EXCEPT !.idle = Aged(@, Longest)],
                    [n \in 0..Longest |-> IF n = 0 THEN 0 ELSE given[n - 1]])
  <1> DEFINE idle == Aged(bucket.idle, Longest)
             after == [rate |-> bucket.rate, burst |-> bucket.burst, tokens |-> bucket.tokens,
                       idle |-> idle]
             then == [n \in 0..Longest |-> IF n = 0 THEN 0 ELSE given[n - 1]]
  <1>1. [bucket EXCEPT !.idle = Aged(@, Longest)] = after
    BY BucketIs
  <1>2. idle \in 0..Longest
    BY BucketIs, RateConstants DEF Aged
  <1>3. after \in Bucket
    BY <1>2, BucketIs DEF Bucket
  <1>4. Refilled(after) <= Refilled(bucket) + bucket.rate
    <2>1. CASE bucket.idle < Longest
      <3>1. idle = bucket.idle + 1
        BY <2>1 DEF Aged
      <3>2. idle * bucket.rate = bucket.idle * bucket.rate + bucket.rate
        BY <3>1, BucketIs, TicksGive
      <3>3. bucket.idle * bucket.rate \in Nat
        BY BucketIs, TicksGive
      <3> QED BY <3>2, <3>3, BucketIs DEF Refilled
    <2>2. CASE ~(bucket.idle < Longest)
      <3>1. idle = bucket.idle
        BY <2>2 DEF Aged
      <3> QED BY <3>1, BucketIs DEF Refilled
    <2> QED BY <2>1, <2>2
  <1>5. \A n \in 0..Longest : given[n] + Refilled(bucket) <= bucket.burst + n * bucket.rate
    BY BucketIs, RateConstants DEF BucketOwes, NoBucket
  <1>6. ASSUME NEW n \in 0..Longest
        PROVE  then[n] + Refilled(after) <= bucket.burst + n * bucket.rate
    <2>1. Refilled(after) \in Nat /\ Refilled(after) <= bucket.burst /\ Refilled(bucket) \in Nat
      BY <1>3, RefillIs
    <2>2. n * bucket.rate \in Nat
      BY BucketIs, RateConstants
    <2>3. CASE n = 0
      BY <2>1, <2>2, <2>3, BucketIs
    <2>4. CASE n # 0
      <3>1. PICK m \in 0..Longest : n = m + 1
        BY <2>4, RateConstants
      <3>2. given[m] \in Nat /\ then[n] = given[m]
        BY <3>1
      <3> DEFINE past == m * bucket.rate
      <3>3. n * bucket.rate = past + bucket.rate /\ past \in Nat
        BY <3>1, BucketIs, RateConstants, TicksGive
      <3>4. given[m] + Refilled(bucket) <= bucket.burst + past
        BY <1>5, <3>1
      <3>5. bucket.burst \in Nat /\ bucket.rate \in Nat
        BY BucketIs
      <3> HIDE DEF then, after, past
      <3>6. given[m] + Refilled(after) <= (given[m] + Refilled(bucket)) + bucket.rate
        BY <1>4, <2>1, <3>2, <3>5
      <3>7. (given[m] + Refilled(bucket)) + bucket.rate <= bucket.burst + (past + bucket.rate)
        BY <2>1, <3>2, <3>3, <3>4, <3>5
      <3> QED BY <2>1, <3>2, <3>3, <3>5, <3>6, <3>7
    <2> QED BY <2>3, <2>4
  <1> QED BY <1>1, <1>3, <1>6 DEF BucketOwes

LEMMA WindowIs ==
  ASSUME NEW window, IsWindow(window)
  PROVE  /\ window.limit \in Nat /\ window.window \in Nat /\ window.window >= 1
         /\ window.window \in Windows /\ window.window <= Longest
         /\ DOMAIN window.ages \subseteq 1..window.limit
         /\ \A slot \in DOMAIN window.ages : window.ages[slot] \in Nat
  BY RateConstants DEF IsWindow

\* A list has no more requests than its window's limit, for it has no more slots.
LEMMA ListFits ==
  ASSUME NEW limit \in Nat, NEW slots \in SUBSET (1..limit)
  PROVE  /\ IsFiniteSet(slots) /\ Cardinality(slots) \in Nat /\ Cardinality(slots) <= limit
         /\ Cardinality(slots) < limit => \E slot \in 1..limit : slot \notin slots
  <1>1. IsFiniteSet(1..limit) /\ Cardinality(1..limit) = limit
    BY FS_Interval
  <1>2. IsFiniteSet(slots) /\ Cardinality(slots) <= limit
    BY <1>1, FS_Subset
  <1>3. Cardinality(slots) \in Nat
    BY <1>2, FS_CardinalityType
  <1>4. (\A slot \in 1..limit : slot \in slots) => slots = 1..limit
    OBVIOUS
  <1> QED BY <1>1, <1>2, <1>3, <1>4

\* A list with an age for each of some slots.
LEMMA ListIsWindow ==
  ASSUME NEW window, IsWindow(window), NEW slots \in SUBSET (1..window.limit),
         NEW ages \in [slots -> 0..window.window]
  PROVE  LET w == [window EXCEPT !.ages = ages] IN
         IsWindow(w) /\ w.ages = ages /\ w.limit = window.limit /\ w.window = window.window
  BY DEF IsWindow

LEMMA RecentIs ==
  ASSUME NEW window, IsWindow(window)
  PROVE  /\ DOMAIN Recent(window) \subseteq DOMAIN window.ages
         /\ Recent(window) \in [DOMAIN Recent(window) -> 0..window.window]
         /\ \A n \in Int : n < window.window =>
               Within(Recent(window), n) = Within(window.ages, n)
  <1> DEFINE slots == {slot \in DOMAIN window.ages : window.ages[slot] < window.window}
  <1>1. Recent(window) = [slot \in slots |-> window.ages[slot]]
    BY DEF Recent
  <1>2. window.ages \in [DOMAIN window.ages -> 0..window.window]
    BY DEF IsWindow
  <1>3. DOMAIN Recent(window) = slots
    BY <1>1
  <1>4. Recent(window) \in [slots -> 0..window.window]
    BY <1>1, <1>2
  <1>5. ASSUME NEW n \in Int, n < window.window
        PROVE  Within(Recent(window), n) = Within(window.ages, n)
    BY <1>1, <1>2, <1>5, WindowIs DEF Within
  <1> QED BY <1>3, <1>4, <1>5

\* A check that passes lists what it grants.
LEMMA AllowKeeps ==
  ASSUME NEW window, IsWindow(window), NEW given \in [0..Longest -> Nat],
         WindowLists(window, given)
  PROVE  LET recent == Recent(window)
             yes == Cardinality(DOMAIN recent) < window.limit
         IN
         WindowLists([window EXCEPT !.ages =
                         IF yes THEN Appended(recent, FreeSlot(recent, window.limit)) ELSE recent],
                     IF yes THEN [n \in 0..Longest |-> given[n] + 1] ELSE given)
  <1> DEFINE recent == Recent(window)
             yes == Cardinality(DOMAIN recent) < window.limit
             new == FreeSlot(recent, window.limit)
             ages == IF yes THEN Appended(recent, new) ELSE recent
             then == IF yes THEN [n \in 0..Longest |-> given[n] + 1] ELSE given
             slots == IF yes THEN DOMAIN recent \cup {new} ELSE DOMAIN recent
  <1>1. /\ DOMAIN recent \subseteq 1..window.limit
        /\ recent \in [DOMAIN recent -> 0..window.window]
        /\ \A n \in Int : n < window.window => Within(recent, n) = Within(window.ages, n)
    BY RecentIs, WindowIs
  <1>2. yes => new \in 1..window.limit /\ new \notin DOMAIN recent
    BY <1>1, WindowIs, ListFits DEF FreeSlot
  <1>3. \A n \in 0..(window.window - 1) : given[n] <= Cardinality(Within(window.ages, n))
    BY RateConstants DEF WindowLists, IsWindow, NoWindow
  <1> HIDE DEF recent, new
  <1>4. slots \in SUBSET (1..window.limit) /\ ages \in [slots -> 0..window.window]
    BY <1>1, <1>2, WindowIs DEF Appended
  <1>5. ASSUME NEW n \in 0..(window.window - 1)
        PROVE  then[n] <= Cardinality(Within(ages, n))
    <2>1. n \in 0..Longest /\ n \in Int /\ n < window.window /\ n >= 0 /\ given[n] \in Nat
      BY WindowIs, RateConstants
    <2> DEFINE old == Within(recent, n)
    <2>2. given[n] <= Cardinality(old)
      BY <1>1, <1>3, <2>1
    <2>3. CASE ~yes
      BY <2>2, <2>3
    <2>4. CASE yes
      <3>1. old \subseteq DOMAIN recent /\ new \notin old
        BY <1>2, <2>4 DEF Within
      <3>2. IsFiniteSet(old) /\ Cardinality(old) \in Nat
        BY <1>1, <3>1, WindowIs, ListFits
      <3>3. Within(ages, n) = old \cup {new}
        BY <1>1, <1>2, <2>1, <2>4 DEF Within, Appended
      <3>4. Cardinality(Within(ages, n)) = Cardinality(old) + 1
        BY <3>1, <3>2, <3>3, FS_AddElement
      <3>5. then[n] = given[n] + 1
        BY <2>1, <2>4
      <3> HIDE DEF then, ages, old
      <3> QED BY <2>1, <2>2, <3>2, <3>4, <3>5
    <2> QED BY <2>3, <2>4
  <1> HIDE DEF ages, then, slots
  <1>6. WindowLists([window EXCEPT !.ages = ages], then)
    <2> DEFINE w == [window EXCEPT !.ages = ages]
    <2>1. IsWindow(w) /\ w.ages = ages /\ w.window = window.window
      BY <1>4, ListIsWindow
    <2> HIDE DEF w
    <2>2. \A n \in 0..(w.window - 1) : then[n] <= Cardinality(Within(w.ages, n))
      BY <1>5, <2>1
    <2>3. WindowLists(w, then)
      BY <2>1, <2>2 DEF WindowLists
    <2> QED BY <2>3 DEF w
  <1> QED BY <1>6 DEF ages, then, recent, new

\* A tick ages the list and what was granted alike.
LEMMA WindowAges ==
  ASSUME NEW window, IsWindow(window), NEW given \in [0..Longest -> Nat],
         WindowLists(window, given)
  PROVE  WindowLists([window EXCEPT !.ages =
                         [slot \in DOMAIN @ |-> Aged(@[slot], window.window)]],
                     [n \in 0..Longest |-> IF n = 0 THEN 0 ELSE given[n - 1]])
  <1> DEFINE slots == DOMAIN window.ages
             ages == [slot \in slots |-> Aged(window.ages[slot], window.window)]
             then == [n \in 0..Longest |-> IF n = 0 THEN 0 ELSE given[n - 1]]
  <1>1. window.ages \in [slots -> 0..window.window] /\ slots \in SUBSET (1..window.limit)
    BY DEF IsWindow
  <1>2. ages \in [slots -> 0..window.window]
    BY <1>1, WindowIs DEF Aged
  <1>3. \A n \in 0..(window.window - 1) : given[n] <= Cardinality(Within(window.ages, n))
    BY RateConstants DEF WindowLists, IsWindow, NoWindow
  <1>4. ASSUME NEW n \in 0..(window.window - 1)
        PROVE  then[n] <= Cardinality(Within(ages, n))
    <2>1. CASE n = 0
      <3>1. Within(ages, n) \subseteq 1..window.limit
        BY <1>1 DEF Within
      <3>2. Cardinality(Within(ages, n)) \in Nat
        BY <3>1, ListFits, WindowIs
      <3>3. then[n] = 0
        BY <2>1, RateConstants
      <3> QED BY <3>2, <3>3
    <2>2. CASE n # 0
      <3>1. PICK m \in 0..(window.window - 1) : n = m + 1
        <4>1. window.window \in Nat
          BY WindowIs
        <4> QED BY <2>2, <4>1
      <3>2. then[n] = given[m]
        BY <3>1, WindowIs, RateConstants
      <3>3. Within(ages, n) = Within(window.ages, m)
        BY <1>1, <3>1, WindowIs DEF Within, Aged
      <3> QED BY <1>3, <3>2, <3>3
    <2> QED BY <2>1, <2>2
  <1> HIDE DEF ages, then
  <1>5. WindowLists([window EXCEPT !.ages = ages], then)
    <2> DEFINE w == [window EXCEPT !.ages = ages]
    <2>1. IsWindow(w) /\ w.ages = ages /\ w.window = window.window
      BY <1>1, <1>2, ListIsWindow
    <2> HIDE DEF w
    <2>2. \A n \in 0..(w.window - 1) : then[n] <= Cardinality(Within(w.ages, n))
      BY <1>4, <2>1
    <2>3. WindowLists(w, then)
      BY <2>1, <2>2 DEF WindowLists
    <2> QED BY <2>3 DEF w
  <1> QED BY <1>5 DEF ages, then

LEMMA SpentIs ==
  ASSUME RateTypes, NEW k \in Keys, NEW a \in Algorithms
  PROVE  spent[k][a] \in [0..Longest -> Nat] /\ \A n \in 0..Longest : spent[k][a][n] \in Nat
  <1>1. spent[k] \in [Algorithms -> [0..Longest -> Nat]]
    BY DEF RateTypes
  <1>2. spent[k][a] \in [0..Longest -> Nat]
    BY <1>1
  <1> QED BY <1>2

LEMMA RatesStart == RateInit => RateInv
  BY RateConstants
     DEF RateInit, RateInv, RateTypes, KeyInv, BucketOwes, WindowLists, NothingSpent, Algorithms

\* A step that touches one key.
LEMMA OneKey ==
  ASSUME RateInv, RateTypes', NEW k \in Keys, KeyInv(k)',
         \A j \in Keys \ {k} : buckets'[j] = buckets[j] /\ windows'[j] = windows[j]
                               /\ spent'[j] = spent[j]
  PROVE  RateInv'
  <1>1. ASSUME NEW j \in Keys \ {k} PROVE KeyInv(j)'
    BY <1>1 DEF RateInv, KeyInv
  <1> QED BY <1>1 DEF RateInv

LEMMA GrantsOnce ==
  ASSUME RateTypes, NEW k \in Keys, NEW a \in Algorithms, NEW cost \in Nat, NEW yes \in BOOLEAN,
         IF yes THEN Grants(k, a, cost) ELSE UNCHANGED spent
  PROVE  /\ spent' \in [Keys -> [Algorithms -> [0..Longest -> Nat]]]
         /\ spent'[k][a] = IF yes THEN [n \in 0..Longest |-> spent[k][a][n] + cost]
                           ELSE spent[k][a]
         /\ \A b \in Algorithms \ {a} : spent'[k][b] = spent[k][b]
         /\ \A j \in Keys \ {k} : spent'[j] = spent[j]
  <1>1. CASE yes
    <2> DEFINE more == [n \in 0..Longest |-> spent[k][a][n] + cost]
    <2>1. more \in [0..Longest -> Nat]
      BY SpentIs
    <2>2. spent' = [spent EXCEPT ![k][a] = more]
      BY <1>1 DEF Grants
    <2> HIDE DEF more
    <2>3. /\ spent' \in [Keys -> [Algorithms -> [0..Longest -> Nat]]]
          /\ spent'[k][a] = more
          /\ \A b \in Algorithms \ {a} : spent'[k][b] = spent[k][b]
          /\ \A j \in Keys \ {k} : spent'[j] = spent[j]
      BY <2>1, <2>2 DEF RateTypes
    <2> QED BY <1>1, <2>3 DEF more
  <1>2. CASE ~yes
    BY <1>2 DEF RateTypes
  <1> QED BY <1>1, <1>2

LEMMA CheckBucketKeeps ==
  ASSUME RateInv, NEW k \in Keys, NEW cost \in Costs, CheckBucket(k, cost)
  PROVE  RateInv'
  <1> DEFINE c == limits[k]
             before == IF buckets[k] # NoBucket THEN buckets[k]
                       ELSE [rate |-> c.rate, burst |-> c.burst, tokens |-> c.burst,
                             idle |-> 0]
             given == spent[k]["token_bucket"]
             yes == cost <= Refilled(before)
             after == Consumed(before, cost)
  <1>1. RateTypes /\ KeyInv(k)
    BY DEF RateInv
  <1>2. given \in [0..Longest -> Nat] /\ cost \in Nat
    BY <1>1, RateConstants DEF RateTypes, Algorithms
  <1>3. before \in Bucket /\ BucketOwes(before, given)
    <2>1. CASE buckets[k] # NoBucket
      BY <1>1, <2>1 DEF KeyInv, BucketOwes
    <2>2. CASE buckets[k] = NoBucket
      <3>1. c.rate \in Rates /\ c.burst \in Bursts
        BY <1>1 DEF RateTypes, Limits
      <3>2. c.rate \in Nat /\ c.burst \in Nat
        BY <3>1, RateConstants
      <3>3. before \in Bucket /\ before.tokens = c.burst /\ before.idle = 0
            /\ before.burst = c.burst /\ before.rate = c.rate
        BY <2>2, <3>1, <3>2, RateConstants DEF Bucket
      <3>4. \A n \in 0..Longest : given[n] = 0
        <4>1. NoBucket \notin Bucket
          BY RateConstants DEF NoBucket, Bucket
        <4> QED BY <1>1, <2>2, <4>1 DEF KeyInv, BucketOwes
      <3> HIDE DEF before, given
      <3>5. Refilled(before) = c.burst
        BY <3>3, RefillIs
      <3>6. ASSUME NEW n \in 0..Longest
            PROVE  given[n] + Refilled(before) <= before.burst + n * before.rate
        <4>1. n * before.rate \in Nat
          BY <3>2, <3>3, RateConstants, TicksGive
        <4> QED BY <3>2, <3>3, <3>4, <3>5, <4>1
      <3> QED BY <3>3, <3>6 DEF BucketOwes
    <2> QED BY <2>1, <2>2
  <1>4. /\ buckets' = [buckets EXCEPT ![k] = after]
        /\ IF yes THEN Grants(k, "token_bucket", cost) ELSE UNCHANGED spent
        /\ UNCHANGED <<limits, windows>>
    BY DEF CheckBucket
  <1> HIDE DEF before
  <1>5. BucketOwes(after, IF yes THEN [n \in 0..Longest |-> given[n] + cost] ELSE given)
    BY <1>2, <1>3, ConsumeKeeps
  <1>6. /\ spent' \in [Keys -> [Algorithms -> [0..Longest -> Nat]]]
        /\ spent'[k]["token_bucket"] =
              IF yes THEN [n \in 0..Longest |-> given[n] + cost] ELSE given
        /\ spent'[k]["sliding_window"] = spent[k]["sliding_window"]
        /\ \A j \in Keys \ {k} : spent'[j] = spent[j]
    BY <1>1, <1>2, <1>4, GrantsOnce DEF Algorithms
  <1> HIDE DEF given, after, yes
  <1>7. RateTypes' /\ buckets'[k] = after /\ \A j \in Keys \ {k} : buckets'[j] = buckets[j]
    BY <1>1, <1>4, <1>6 DEF RateTypes
  <1>8. KeyInv(k)'
    BY <1>1, <1>4, <1>5, <1>6, <1>7 DEF KeyInv
  <1> QED BY <1>4, <1>6, <1>7, <1>8, OneKey

LEMMA CheckWindowKeeps ==
  ASSUME RateInv, NEW k \in Keys, CheckWindow(k)
  PROVE  RateInv'
  <1> DEFINE c == limits[k]
             before == IF windows[k] # NoWindow THEN windows[k]
                       ELSE [limit |-> c.rate * c.window, window |-> c.window,
                             ages |-> NoWindow.ages]
             given == spent[k]["sliding_window"]
             recent == Recent(before)
             yes == Cardinality(DOMAIN recent) < before.limit
             after == [before EXCEPT !.ages =
                IF yes THEN Appended(recent, FreeSlot(recent, before.limit)) ELSE recent]
  <1>1. RateTypes /\ KeyInv(k)
    BY DEF RateInv
  <1>2. given \in [0..Longest -> Nat]
    BY <1>1 DEF RateTypes, Algorithms
  <1>3. IsWindow(before) /\ WindowLists(before, given)
    <2>1. CASE windows[k] # NoWindow
      BY <1>1, <2>1 DEF KeyInv, WindowLists
    <2>2. CASE windows[k] = NoWindow
      <3>1. c.rate \in Nat /\ c.window \in Windows /\ c.window \in Nat /\ c.window <= Longest
        BY <1>1, RateConstants DEF RateTypes, Limits
      <3>2. c.rate * c.window \in Nat
        BY <3>1, TicksGive
      <3>3. NoWindow.ages \in [{} -> 0..c.window] /\ DOMAIN NoWindow.ages = {}
        BY DEF NoWindow
      <3>4. IsWindow(before) /\ before.ages = NoWindow.ages /\ before.window = c.window
        BY <2>2, <3>1, <3>2, <3>3 DEF IsWindow
      <3>5. \A n \in 0..Longest : given[n] = 0
        <4>1. ~IsWindow(NoWindow)
          BY RateConstants DEF NoWindow, IsWindow
        <4> QED BY <1>1, <2>2, <4>1 DEF KeyInv, WindowLists
      <3> HIDE DEF before, given
      <3>6. ASSUME NEW n \in 0..(before.window - 1)
            PROVE  given[n] <= Cardinality(Within(before.ages, n))
        <4>1. Within(before.ages, n) = {}
          BY <3>3, <3>4 DEF Within
        <4>2. given[n] = 0
          BY <3>1, <3>4, <3>5, RateConstants
        <4> QED BY <4>1, <4>2, FS_EmptySet
      <3> QED BY <3>4, <3>6 DEF WindowLists
    <2> QED BY <2>1, <2>2
  <1>4. /\ windows' = [windows EXCEPT ![k] = after]
        /\ IF yes THEN Grants(k, "sliding_window", 1) ELSE UNCHANGED spent
        /\ UNCHANGED <<limits, buckets>>
    BY DEF CheckWindow
  <1> HIDE DEF before, given
  <1>5. WindowLists(after, IF yes THEN [n \in 0..Longest |-> given[n] + 1] ELSE given)
    BY <1>2, <1>3, AllowKeeps
  <1> HIDE DEF recent, after
  <1>6. /\ spent' \in [Keys -> [Algorithms -> [0..Longest -> Nat]]]
        /\ spent'[k]["sliding_window"] =
              IF yes THEN [n \in 0..Longest |-> spent[k]["sliding_window"][n] + 1]
              ELSE spent[k]["sliding_window"]
        /\ spent'[k]["token_bucket"] = spent[k]["token_bucket"]
        /\ \A j \in Keys \ {k} : spent'[j] = spent[j]
    <2>1. yes \in BOOLEAN
      OBVIOUS
    <2> HIDE DEF yes
    <2> QED BY <1>1, <1>4, <2>1, GrantsOnce DEF Algorithms
  <1> HIDE DEF yes
  <1>7. RateTypes' /\ windows'[k] = after /\ \A j \in Keys \ {k} : windows'[j] = windows[j]
    BY <1>1, <1>4, <1>6 DEF RateTypes
  <1>8. KeyInv(k)'
    BY <1>1, <1>4, <1>5, <1>6, <1>7 DEF KeyInv, given
  <1> QED BY <1>4, <1>6, <1>7, <1>8, OneKey

LEMMA ResetKeeps ==
  ASSUME RateInv, NEW k \in Keys, Reset(k)
  PROVE  RateInv'
  <1>1. RateTypes
    BY DEF RateInv
  <1>2. NothingSpent \in [Algorithms -> [0..Longest -> Nat]]
        /\ \A a \in Algorithms : \A n \in 0..Longest : NothingSpent[a][n] = 0
    BY DEF NothingSpent
  <1>3. RateTypes' /\ buckets'[k] = NoBucket /\ windows'[k] = NoWindow /\ spent'[k] = NothingSpent
    BY <1>1, <1>2 DEF Reset, RateTypes
  <1>4. KeyInv(k)'
    BY <1>2, <1>3 DEF KeyInv, BucketOwes, WindowLists, Algorithms
  <1>5. \A j \in Keys \ {k} : buckets'[j] = buckets[j] /\ windows'[j] = windows[j]
                               /\ spent'[j] = spent[j]
    BY <1>1 DEF Reset, RateTypes
  <1> QED BY <1>3, <1>4, <1>5, OneKey

LEMMA TickKeepsRates ==
  ASSUME RateInv, RateTick
  PROVE  RateInv'
  <1>1. RateTypes
    BY DEF RateInv
  <1>2. \A k \in Keys, a \in Algorithms : spent'[k][a] =
            [n \in 0..Longest |-> IF n = 0 THEN 0 ELSE spent[k][a][n - 1]]
    BY DEF RateTick
  <1>3. ASSUME NEW k \in Keys, NEW a \in Algorithms
        PROVE  /\ spent[k][a] \in [0..Longest -> Nat] /\ spent'[k][a] \in [0..Longest -> Nat]
               /\ (\A n \in 0..Longest : spent[k][a][n] = 0)
                     => \A n \in 0..Longest : spent'[k][a][n] = 0
    <2>1. spent[k][a] \in [0..Longest -> Nat]
      BY <1>1, SpentIs
    <2> DEFINE given == spent[k][a]
    <2>2. spent'[k][a] = [n \in 0..Longest |-> IF n = 0 THEN 0 ELSE given[n - 1]]
      BY <1>2
    <2> HIDE DEF given
    <2>3. \A n \in 0..Longest : n # 0 => n - 1 \in 0..Longest
      BY RateConstants
    <2>4. given \in [0..Longest -> Nat]
      BY <2>1 DEF given
    <2>5. spent'[k][a] \in [0..Longest -> Nat]
      BY <2>2, <2>3, <2>4
    <2>6. (\A n \in 0..Longest : given[n] = 0) => \A n \in 0..Longest : spent'[k][a][n] = 0
      BY <2>2, <2>3
    <2> QED BY <2>1, <2>5, <2>6 DEF given
  <1>4. RateTypes'
    <2>1. spent' \in [Keys -> [Algorithms -> [0..Longest -> Nat]]]
      BY <1>3 DEF RateTick
    <2> QED BY <1>1, <2>1 DEF RateTick, RateTypes
  <1>5. ASSUME NEW k \in Keys PROVE KeyInv(k)'
    <2>1. KeyInv(k)
      BY DEF RateInv
    <2>2. BucketOwes(buckets'[k], spent'[k]["token_bucket"])
      <3>1. CASE buckets[k] = NoBucket
        <4>1. NoBucket \notin Bucket
          BY RateConstants DEF NoBucket, Bucket
        <4>2. buckets'[k] = NoBucket /\ \A n \in 0..Longest : spent[k]["token_bucket"][n] = 0
          BY <2>1, <3>1, <4>1 DEF KeyInv, BucketOwes, RateTick
        <4> QED BY <1>3, <4>2 DEF BucketOwes, Algorithms
      <3>2. CASE buckets[k] # NoBucket
        <4>1. buckets'[k] = [buckets[k] EXCEPT !.idle = Aged(@, Longest)]
          BY <3>2 DEF RateTick
        <4> DEFINE given == spent[k]["token_bucket"]
        <4>2. given \in [0..Longest -> Nat] /\ spent'[k]["token_bucket"] =
                  [n \in 0..Longest |-> IF n = 0 THEN 0 ELSE given[n - 1]]
          BY <1>2, <1>3 DEF Algorithms
        <4>3. buckets[k] \in Bucket /\ BucketOwes(buckets[k], given)
          BY <2>1, <3>2 DEF KeyInv, BucketOwes
        <4> HIDE DEF given
        <4> QED BY <4>1, <4>2, <4>3, BucketAges
      <3> QED BY <3>1, <3>2
    <2>3. WindowLists(windows'[k], spent'[k]["sliding_window"])
      <3>1. windows'[k] = [windows[k] EXCEPT !.ages =
                [slot \in DOMAIN @ |-> Aged(@[slot], windows[k].window)]]
        BY DEF RateTick
      <3>2. CASE windows[k] = NoWindow
        <4>1. ~IsWindow(NoWindow)
          BY RateConstants DEF NoWindow, IsWindow
        <4>2. windows'[k] = NoWindow
          BY <3>1, <3>2 DEF NoWindow
        <4>3. \A n \in 0..Longest : spent[k]["sliding_window"][n] = 0
          BY <2>1, <3>2, <4>1 DEF KeyInv, WindowLists
        <4> QED BY <1>3, <4>2, <4>3 DEF WindowLists, Algorithms
      <3>3. CASE windows[k] # NoWindow
        <4> DEFINE given == spent[k]["sliding_window"]
        <4>1. given \in [0..Longest -> Nat] /\ spent'[k]["sliding_window"] =
                  [n \in 0..Longest |-> IF n = 0 THEN 0 ELSE given[n - 1]]
          BY <1>2, <1>3 DEF Algorithms
        <4>2. IsWindow(windows[k]) /\ WindowLists(windows[k], given)
          BY <2>1, <3>3 DEF KeyInv, WindowLists
        <4> DEFINE window == windows[k]
        <4>3. IsWindow(window) /\ WindowLists(window, given)
          BY <4>2
        <4> HIDE DEF given, window
        <4>4. WindowLists([window EXCEPT !.ages =
                              [slot \in DOMAIN @ |-> Aged(@[slot], window.window)]],
                          [n \in 0..Longest |-> IF n = 0 THEN 0 ELSE given[n - 1]])
          BY <4>1, <4>3, WindowAges
        <4> QED BY <3>1, <4>1, <4>4 DEF window, given
      <3> QED BY <3>2, <3>3
    <2> QED BY <2>2, <2>3 DEF KeyInv
  <1> QED BY <1>4, <1>5 DEF RateInv

LEMMA RatesAreInvariant == RateSpec => []RateInv
  <1>1. RateInv /\ [RateNext]_rateVars => RateInv'
    <2> SUFFICES ASSUME RateInv, [RateNext]_rateVars PROVE RateInv'
      OBVIOUS
    <2>1. ASSUME NEW k \in Keys, NEW c \in Limits, SetLimit(k, c) PROVE RateInv'
      BY <2>1 DEF SetLimit, RateInv, RateTypes, KeyInv
    <2>2. CASE UNCHANGED rateVars
      BY <2>2 DEF rateVars, RateInv, RateTypes, KeyInv
    <2> QED BY <2>1, <2>2, CheckBucketKeeps, CheckWindowKeeps, ResetKeeps, TickKeepsRates
            DEF RateNext
  <1> QED BY <1>1, RatesStart, PTL DEF RateSpec

\* For any keys, limits and costs: no bucket grants more than its burst and the
\* rate of the ticks, no window more than its limit in its length.
THEOREM AllowancesAreKept == RateSpec => []AllowanceKept
  <1> SUFFICES ASSUME RateInv PROVE AllowanceKept
    BY RatesAreInvariant, PTL
  <1>1. ASSUME NEW k \in Keys, buckets[k] # NoBucket, NEW n \in 0..Longest
        PROVE  spent[k]["token_bucket"][n] <= buckets[k].burst + n * buckets[k].rate
    <2> DEFINE given == spent[k]["token_bucket"]
               most == buckets[k].burst + n * buckets[k].rate
    <2>1. buckets[k] \in Bucket /\ given[n] + Refilled(buckets[k]) <= most
      BY <1>1 DEF RateInv, KeyInv, BucketOwes
    <2>2. given[n] \in Nat /\ Refilled(buckets[k]) \in Nat
      BY <2>1, RefillIs, SpentIs DEF RateInv, Algorithms
    <2>3. most \in Nat
      BY <2>1, BucketIs, RateConstants, TicksGive
    <2> HIDE DEF given, most
    <2>4. given[n] <= most
      BY <2>1, <2>2, <2>3
    <2> QED BY <2>4 DEF given, most
  <1>2. ASSUME NEW k \in Keys, windows[k] # NoWindow
        PROVE  spent[k]["sliding_window"][windows[k].window - 1] <= windows[k].limit
    <2> DEFINE window == windows[k]
               given == spent[k]["sliding_window"]
               n == window.window - 1
    <2>1. IsWindow(window) /\ \A m \in 0..(window.window - 1) :
                                 given[m] <= Cardinality(Within(window.ages, m))
      BY <1>2 DEF RateInv, KeyInv, WindowLists
    <2>2. n \in 0..(window.window - 1) /\ n \in 0..Longest
      BY <2>1, WindowIs, RateConstants
    <2>3. given[n] \in Nat
      BY <2>2, SpentIs DEF RateInv, Algorithms
    <2>4. Within(window.ages, n) \subseteq 1..window.limit
      BY <2>1, WindowIs DEF Within
    <2>5. /\ Cardinality(Within(window.ages, n)) \in Nat
          /\ Cardinality(Within(window.ages, n)) <= window.limit /\ window.limit \in Nat
      BY <2>1, <2>4, ListFits, WindowIs
    <2>6. given[n] <= Cardinality(Within(window.ages, n))
      BY <2>1, <2>2
    <2> HIDE DEF given, n, window
    <2>7. given[n] <= window.limit
      BY <2>3, <2>5, <2>6
    <2> QED BY <2>7 DEF given, n, window
  <1> QED BY <1>1, <1>2 DEF AllowanceKept

-----------------------------------------------------------------------------
(* The platform.                                                           *)

\* Of a step of the platform the manager whose run it is takes a step of its
\* own, and the others none.
LEMMA PlatformStepsAreManagers ==
  ASSUME [PlatformNext]_PlatformVars
  PROVE  /\ [HANext]_haVars /\ [CircuitNext]_circuitVars /\ [LBNext]_lbVars /\ [PoolNext]_poolVars
         /\ [RateNext]_rateVars /\ [BargeNext]_bargeVars /\ [VoiceNext]_voiceVars
         /\ [ConsentsNext]_consentVars /\ [KBNext]_kbVars
  <1>1. CASE HAStep \/ CircuitStep \/ LBStep \/ PoolStep
    BY <1>1 DEF HAStep, CircuitStep, LBStep, PoolStep, Front, Office
  <1>2. CASE RateStep \/ BargeStep \/ VoiceStep
    BY <1>2 DEF RateStep, BargeStep, VoiceStep, Cluster, Office
  <1>3. CASE ConsentStep \/ ArticleStep
    BY <1>3 DEF ConsentStep, ArticleStep, Cluster, Front
  <1>4. CASE UNCHANGED PlatformVars
    BY <1>4 DEF PlatformVars, Cluster, Front, Office
  <1> QED BY <1>1, <1>2, <1>3, <1>4 DEF PlatformNext

\* Whatever the sizes, limits and thresholds of the nine managers: in any run of
\* the platform the state of each keeps its type, so no count, age or list of
\* one of them leaves its bounds.
THEOREM PlatformIsTyped == PlatformSpec => []PlatformTypeOK
  <1>1. PlatformInit => /\ HAInit /\ CircuitInit /\ LBInit /\ PoolInit
                        /\ RateInit /\ BargeInit /\ VoiceInit /\ ConsentsInit /\ KBInit
    BY DEF PlatformInit
  <1>2. [PlatformNext]_PlatformVars
          => /\ [HANext]_haVars /\ [CircuitNext]_circuitVars /\ [LBNext]_lbVars
             /\ [PoolNext]_poolVars /\ [RateNext]_rateVars /\ [BargeNext]_bargeVars
             /\ [VoiceNext]_voiceVars /\ [ConsentsNext]_consentVars /\ [KBNext]_kbVars
    BY PlatformStepsAreManagers
  <1>3. PlatformSpec => []HATypeOK
    <2>1. HATypeOK /\ [HANext]_haVars => HATypeOK'
      BY CycleKeepsCluster, OthersKeepCluster
    <2> QED BY <1>1, <1>2, <2>1, ClusterStarts, PTL DEF PlatformSpec
  <1>4. PlatformSpec => []CircuitTypeOK
    <2>1. CircuitInv /\ [CircuitNext]_circuitVars => CircuitInv'
      BY CircuitKeeps
    <2> QED BY <1>1, <1>2, <2>1, CircuitStarts, PTL DEF PlatformSpec, CircuitInv
  <1>5. PlatformSpec => []LBTypeOK
    <2>1. LBInv /\ [LBNext]_lbVars => LBInv'
      BY BalancerKeeps
    <2> QED BY <1>1, <1>2, <2>1, BalancerStarts, PTL DEF PlatformSpec, LBInv
  <1>6. PlatformSpec => []PoolTypeOK
    BY <1>1, <1>2, PoolIsInvariant, PTL DEF PlatformSpec, PoolSpec, PoolInv
  <1>7. PlatformSpec => []RateTypeOK
    <2>1. RateInv => RateTypeOK
      <3> SUFFICES ASSUME RateInv PROVE RateTypeOK
        OBVIOUS
      <3>1. \A k \in Keys : /\ buckets[k] \in Bucket \cup {NoBucket}
                            /\ windows[k] = NoWindow \/ IsWindow(windows[k])
        BY DEF RateInv, KeyInv, BucketOwes, WindowLists
      <3>2. buckets \in [Keys -> Bucket \cup {NoBucket}]
        BY <3>1 DEF RateInv, RateTypes
      <3> QED BY <3>1, <3>2 DEF RateInv, RateTypes, RateTypeOK
    <2> QED BY <1>1, <1>2, <2>1, RatesAreInvariant, PTL DEF PlatformSpec, RateSpec
  <1>8. PlatformSpec => []BargeTypeOK
    BY <1>1, <1>2, BargeIsTyped, PTL DEF PlatformSpec, BargeSpec
  <1>9. PlatformSpec => []VoiceTypeOK
    BY <1>1, <1>2, VoiceIsTyped, PTL DEF PlatformSpec, VoiceSpec
  <1>10. PlatformSpec => []ConsentsTypeOK
    BY <1>1, <1>2, ConsentsAreInvariant, PTL DEF PlatformSpec, ConsentsSpec, ConsentsInv
  <1>11. PlatformSpec => []KBTypeOK
    BY <1>1, <1>2, BaseIsInvariant, PTL DEF PlatformSpec, KBSpec, KBInv
  <1>12. HATypeOK /\ CircuitTypeOK /\ LBTypeOK /\ PoolTypeOK /\ RateTypeOK /\ BargeTypeOK
         /\ VoiceTypeOK /\ ConsentsTypeOK /\ KBTypeOK => PlatformTypeOK
    BY DEF PlatformTypeOK
  <1> QED BY <1>3, <1>4, <1>5, <1>6, <1>7, <1>8, <1>9, <1>10, <1>11, <1>12, PTL
=============================================================================
