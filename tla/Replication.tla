----------------------------- MODULE Replication -----------------------------
(***************************************************************************)
(* The pool of database nodes                                              *)
(* (src/src/infrastructure/database_replication.py): registration, lag     *)
(* reports, promotion, and the node that writes and reads are sent to.     *)
(* The rotation among the readable replicas is left open.                  *)
(***************************************************************************)

CONSTANT DatabaseNodes

VARIABLES
    pool,               \* _nodes
    silent,             \* auxiliary: taken out, or registered as disconnected,
                        \* and not heard of since
    blind               \* auxiliary: came to be a primary while silent

poolVars == <<pool, silent, blind>>

ReplicationRoles == {"primary", "replica", "witness"}
ReplicationStatuses == {"streaming", "catching_up", "disconnected", "unknown"}
\* late: the replication_lag kept is above max_replica_lag_s; None is not.
DatabaseNode == [role : ReplicationRoles, status : ReplicationStatuses, late : BOOLEAN]
NotRegistered == [role |-> "absent", status |-> "unknown", late |-> FALSE]

PoolTypeOK ==
    /\ pool \in [DatabaseNodes -> DatabaseNode \cup {NotRegistered}]
    /\ silent \subseteq DatabaseNodes /\ blind \subseteq DatabaseNodes

PoolInit ==
    /\ pool = [n \in DatabaseNodes |-> NotRegistered]
    /\ silent = {} /\ blind = {}

\* Whatever object the caller made, also under an id there is already.
RegisterDatabase(n, node) ==
    LET heard == node.status # "disconnected" IN
    /\ pool' = [pool EXCEPT ![n] = node]
    /\ silent' = IF heard THEN silent \ {n} ELSE silent \cup {n}
    /\ blind' = IF heard \/ node.role # "primary" THEN blind \ {n} ELSE blind \cup {n}

\* MUTANT: a disconnected node keeps its status when it reports.
MutantReported(node, late) ==
    [node EXCEPT !.late = late,
                 !.status = IF @ = "disconnected" THEN @
                            ELSE IF late THEN "catching_up" ELSE "streaming"]

Reported(node, late) ==
    [node EXCEPT !.late = late, !.status = IF late THEN "catching_up" ELSE "streaming"]

\* update_replication_lag; nobody but a replica is heard.
UpdateLag(n, late) ==
    /\ pool[n].role = "replica"
    /\ pool' = [pool EXCEPT ![n] = Reported(@, late)]
    /\ silent' = silent \ {n}
    /\ UNCHANGED blind

\* MUTANT: the old primary keeps its status, and what it last reported.
MutantDemoted(node) == [node EXCEPT !.role = "replica"]

Demoted(node) == [node EXCEPT !.role = "replica", !.status = "disconnected"]

\* promote_replica, whatever the status of the replica is.
Promote(n) ==
    LET old == {m \in DatabaseNodes : pool[m].role = "primary"} IN
    /\ pool[n].role = "replica"
    /\ pool' = [m \in DatabaseNodes |->
          IF m \in old THEN Demoted(pool[m])
          ELSE IF m = n THEN [pool[m] EXCEPT !.role = "primary"] ELSE pool[m]]
    /\ silent' = silent \cup old
    /\ blind' = IF n \in silent THEN (blind \ old) \cup {n} ELSE blind \ old

PoolNext ==
    \E n \in DatabaseNodes :
        \/ \E node \in DatabaseNode : RegisterDatabase(n, node)
        \/ \E late \in BOOLEAN : UpdateLag(n, late)
        \/ Promote(n)

PoolSpec == PoolInit /\ [][PoolNext]_poolVars

-----------------------------------------------------------------------------
(* Properties.                                                             *)

Primaries == {n \in DatabaseNodes : pool[n].role = "primary"}

\* What get_write_node and get_read_node may return.
WriteNodes == {n \in Primaries : pool[n].status # "disconnected"}
ReadReplicas ==
    {n \in DatabaseNodes : pool[n].role = "replica" /\ pool[n].status = "streaming"
                           /\ ~pool[n].late}

\* A primary that was taken out is not read from until it reports as a replica
\* or is registered anew, however many promotions go to and fro and whatever it
\* had reported before; nor is a node that was registered as disconnected.
ReadsFollowReport == ReadReplicas \cap silent = {}

\* With a primary in the pool there is a node to write to, unless each came to
\* the role while nothing had been heard of it: registered as disconnected, or
\* promoted back before it reported.  Such a primary stays disconnected, for lag
\* is only heard from replicas.
WriterLostUnheard == Primaries # {} /\ WriteNodes = {} => Primaries \subseteq blind
=============================================================================
