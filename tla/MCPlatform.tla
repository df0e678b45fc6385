----------------------------- MODULE MCPlatform -----------------------------
(***************************************************************************)
(* The managers of the platform.  Each is an object of its own, and no     *)
(* code of the repository hands one's state to another, so a run of the    *)
(* platform is a run of each; the instance takes one at a time (focus)     *)
(* instead of their product.                                               *)
(***************************************************************************)
EXTENDS HighAvailability, CircuitBreaker, LoadBalancer, RateLimits, BargeIn, Replication,
        VoiceCalls, Consents, KnowledgeBase

VARIABLE focus

Cluster == <<haVars, circuitVars, lbVars, poolVars>>
Front == <<rateVars, bargeVars, voiceVars>>
Office == <<consentVars, kbVars>>
PlatformVars == <<Cluster, Front, Office, focus>>

HAStep == focus = "failover" /\ HANext
          /\ UNCHANGED <<circuitVars, lbVars, poolVars, Front, Office, focus>>
CircuitStep == focus = "circuit" /\ CircuitNext
               /\ UNCHANGED <<haVars, lbVars, poolVars, Front, Office, focus>>
LBStep == focus = "balancer" /\ LBNext
          /\ UNCHANGED <<haVars, circuitVars, poolVars, Front, Office, focus>>
PoolStep == focus = "replication" /\ PoolNext
            /\ UNCHANGED <<haVars, circuitVars, lbVars, Front, Office, focus>>
RateStep == focus = "limits" /\ RateNext
            /\ UNCHANGED <<bargeVars, voiceVars, Cluster, Office, focus>>
BargeStep == focus = "speech" /\ BargeNext
             /\ UNCHANGED <<rateVars, voiceVars, Cluster, Office, focus>>
VoiceStep == focus = "calls" /\ VoiceNext
             /\ UNCHANGED <<rateVars, bargeVars, Cluster, Office, focus>>
ConsentStep == focus = "consents" /\ ConsentsNext
               /\ UNCHANGED <<kbVars, Cluster, Front, focus>>
ArticleStep == focus = "articles" /\ KBNext
               /\ UNCHANGED <<consentVars, Cluster, Front, focus>>

PlatformInit ==
    /\ HAInit /\ CircuitInit /\ LBInit /\ PoolInit /\ RateInit /\ BargeInit /\ VoiceInit
    /\ ConsentsInit /\ KBInit
    /\ focus \in {"failover", "circuit", "balancer", "replication", "limits", "speech", "calls",
                 "consents", "articles"}
    \* The other runs need no more than one default limit.
    /\ focus # "limits" => \A k \in Keys : limits[k] = CHOOSE c \in Limits : TRUE
PlatformNext ==
    HAStep \/ CircuitStep \/ LBStep \/ PoolStep \/ RateStep \/ BargeStep \/ VoiceStep
    \/ ConsentStep \/ ArticleStep

\* The fairness of the one whose run it is.
PlatformFairness ==
    /\ focus = "failover" => HAFairness
    /\ focus = "circuit" => CircuitFairness
    /\ focus = "balancer" => LBFairness
PlatformSpec == PlatformInit /\ [][PlatformNext]_PlatformVars /\ PlatformFairness

\* Types of all of them.
PlatformTypeOK ==
    /\ HATypeOK /\ CircuitTypeOK /\ LBTypeOK /\ PoolTypeOK
    /\ RateTypeOK /\ BargeTypeOK /\ VoiceTypeOK
    /\ ConsentsTypeOK /\ KBTypeOK
=============================================================================
