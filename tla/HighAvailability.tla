-------------------------- MODULE HighAvailability --------------------------
(***************************************************************************)
(* The cluster manager (src/src/infrastructure/high_availability.py):      *)
(* heartbeats, the periodic health cycle and the failover it triggers.     *)
(*                                                                         *)
(* Time passes in ticks.  The manager is called by one thread, so each     *)
(* operation is a step.  Whether a node is alive is external: one that is  *)
(* not sends no heartbeat.  A response time is at most 2000 ms or slow.    *)
(***************************************************************************)
EXTENDS Naturals, FiniteSets

CONSTANTS
    Nodes,
    HeartbeatTimeout,   \* heartbeat_timeout_s, in ticks
    MaxFailures,        \* max_failures_before_failover
    FailoverCooldown    \* failover_cooldown_s, in ticks

ASSUME HighAvailabilityAssumption ==
    /\ IsFiniteSet(Nodes)
    /\ HeartbeatTimeout \in Nat
    /\ MaxFailures \in Nat \ {0}
    /\ FailoverCooldown \in Nat

VARIABLES
    nodes,              \* _nodes
    sinceFailover,      \* ticks since _last_failover; FailoverCooldown: that, more or never
    alive               \* external: the nodes that send heartbeats

haVars == <<nodes, sinceFailover, alive>>

Roles == {"primary", "secondary", "standby"}
NodeStatuses == {"absent", "healthy", "degraded", "unhealthy", "recovering"}

\* silent: ticks since last_heartbeat, HeartbeatTimeout + 1 standing for more
\* and for never.  failures stops at MaxFailures, beyond which nothing changes.
NodeType == [role : Roles, status : NodeStatuses, silent : 0..HeartbeatTimeout + 1,
             failures : 0..MaxFailures, slow : BOOLEAN]
Unregistered == [role |-> "standby", status |-> "absent", silent |-> HeartbeatTimeout + 1,
                 failures |-> 0, slow |-> FALSE]

HATypeOK ==
    /\ nodes \in [Nodes -> NodeType]
    /\ sinceFailover \in 0..FailoverCooldown
    /\ alive \subseteq Nodes

HAInit ==
    /\ nodes = [n \in Nodes |-> Unregistered]
    /\ sinceFailover = FailoverCooldown
    /\ alive = {}

Known(n) == nodes[n].status # "absent"
Available(node) == node.status \in {"healthy", "degraded"}

\* A new object, also under an id there is already.
RegisterNode(n, role) ==
    /\ nodes' = [nodes EXCEPT ![n] = [Unregistered EXCEPT !.role = role, !.status = "healthy"]]
    /\ alive' = alive \cup {n}
    /\ UNCHANGED sinceFailover

DeregisterNode(n) ==
    /\ Known(n)
    /\ nodes' = [nodes EXCEPT ![n] = Unregistered]
    /\ alive' = alive \ {n}
    /\ UNCHANGED sinceFailover

\* record_heartbeat: an unhealthy node needs two to be healthy, and to have
\* its failures forgotten.
Heard(node, slow) ==
    [role |-> node.role, silent |-> 0, slow |-> slow,
     status |-> IF node.status = "unhealthy" THEN "recovering"
                ELSE IF node.status = "recovering" THEN "healthy" ELSE node.status,
     failures |-> IF node.status = "recovering" THEN 0 ELSE node.failures]

Heartbeat(n, slow) ==
    /\ n \in alive
    /\ nodes' = [nodes EXCEPT ![n] = Heard(@, slow)]
    /\ UNCHANGED <<sinceFailover, alive>>

\* MUTANT: a slow node is degraded before its silence is looked at.
MutantChecked(node) ==
    IF node.status = "absent" THEN node
    ELSE IF node.slow THEN [node EXCEPT !.status = "degraded"]
    ELSE IF node.silent > HeartbeatTimeout /\ node.status # "unhealthy"
    THEN [node EXCEPT !.status = "unhealthy",
                      !.failures = IF @ < MaxFailures THEN @ + 1 ELSE @]
    ELSE node

\* check_node_health: the node as it leaves it.  A failure is counted on the
\* way into unhealthy only.
Checked(node) ==
    IF node.status = "absent" THEN node
    ELSE IF node.silent > HeartbeatTimeout
    THEN IF node.status = "unhealthy" THEN node
         ELSE [node EXCEPT !.status = "unhealthy",
                           !.failures = IF @ < MaxFailures THEN @ + 1 ELSE @]
    ELSE IF node.slow THEN [node EXCEPT !.status = "degraded"] ELSE node

Failing(table) ==
    {n \in Nodes : table[n].status = "unhealthy" /\ table[n].failures >= MaxFailures}
Candidates(table) ==
    {n \in Nodes : Available(table[n]) /\ table[n].role \in {"secondary", "standby"}}

\* _trigger_failover is called for each failing node; the first one that finds a
\* candidate starts the cooldown, which keeps the others of the cycle away unless
\* it is zero.
Failovers(table) ==
    IF sinceFailover < FailoverCooldown \/ Failing(table) = {} THEN 0
    ELSE IF FailoverCooldown = 0 THEN Cardinality(Failing(table)) ELSE 1

\* The nodes it may promote: one a failover while there are any, and those with
\* the least response time first.
Promotes(table, chosen) ==
    LET left == Candidates(table) \ chosen IN
    /\ Cardinality(chosen) <= Failovers(table)
    /\ left # {} => Cardinality(chosen) = Failovers(table)
    /\ \A n \in chosen, m \in left : table[n].slow => table[m].slow

\* run_health_check_cycle: all nodes are checked before any is promoted.
HealthCycle ==
    LET table == [n \in Nodes |-> Checked(nodes[n])] IN
    /\ \E chosen \in SUBSET Candidates(table) :
          /\ Promotes(table, chosen)
          /\ nodes' = [n \in Nodes |->
                IF n \in chosen THEN [table[n] EXCEPT !.role = "primary"] ELSE table[n]]
          /\ sinceFailover' = IF chosen = {} THEN sinceFailover ELSE 0
    /\ UNCHANGED alive

HATick ==
    /\ nodes' = [n \in Nodes |->
          [nodes[n] EXCEPT !.silent = IF @ <= HeartbeatTimeout THEN @ + 1 ELSE @]]
    /\ sinceFailover' = IF sinceFailover < FailoverCooldown THEN sinceFailover + 1
                        ELSE sinceFailover
    /\ UNCHANGED alive

\* A node stops, or comes back as the manager knows it.
NodeStops(n) == n \in alive /\ alive' = alive \ {n} /\ UNCHANGED <<nodes, sinceFailover>>
NodeReturns(n) ==
    /\ Known(n) /\ n \notin alive
    /\ alive' = alive \cup {n}
    /\ UNCHANGED <<nodes, sinceFailover>>

HANext ==
    \/ \E n \in Nodes :
          \/ \E role \in Roles : RegisterNode(n, role)
          \/ DeregisterNode(n)
          \/ \E slow \in BOOLEAN : Heartbeat(n, slow)
          \/ NodeStops(n)
          \/ NodeReturns(n)
    \/ HealthCycle
    \/ HATick

\* The cycle is run for ever and time passes (docs/HIGH_AVAILABILITY.md has the
\* loop); a node that is alive sends its heartbeats.
HAFairness ==
    /\ WF_haVars(HealthCycle)
    /\ WF_haVars(HATick)
    /\ \A n \in Nodes : WF_haVars(\E slow \in BOOLEAN : Heartbeat(n, slow))
HASpec == HAInit /\ [][HANext]_haVars /\ HAFairness

-----------------------------------------------------------------------------
(* Properties.                                                             *)

\* A node that a health cycle makes primary can be used: it had been heard of in
\* time when the cycle began, whatever its status was then, and another node was
\* given up for dead.  However many nodes were, a cooldown that is not zero lets
\* a cycle promote one, and none until the last promotion is as long ago.
FailoverGivesPrimary ==
    [][\A n \in Nodes :
          HealthCycle /\ nodes[n].role # "primary" /\ nodes'[n].role = "primary" =>
              /\ Available(nodes'[n]) /\ nodes[n].silent <= HeartbeatTimeout
              /\ \E m \in Nodes \ {n} :
                    /\ nodes'[m].status = "unhealthy"
                    /\ nodes'[m].failures >= MaxFailures
              /\ sinceFailover >= FailoverCooldown
              /\ \A m \in Nodes \ {n} :
                    nodes[m].role # "primary" /\ nodes'[m].role = "primary"
                        => FailoverCooldown = 0]_haVars

\* A node that falls silent for good is in the end reported unhealthy, and
\* stays so, whatever it was before: slow, degraded, half recovered.
SilentIsReported ==
    \A n \in Nodes :
        <>[](Known(n) /\ n \notin alive) => <>[](nodes[n].status = "unhealthy")

\* "detecta fallos y coordina failover automatico": it does not happen that a
\* primary stays dead while a secondary stays available and unpromoted.
FailoverHappens ==
    \A p, s \in Nodes :
        ~<>[](/\ Known(p) /\ nodes[p].role = "primary" /\ p \notin alive
              /\ s \in Candidates(nodes))
=============================================================================
