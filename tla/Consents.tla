------------------------------ MODULE Consents ------------------------------
(***************************************************************************)
(* The register of consents (src/src/compliance/consent_manager.py):       *)
(* records are granted, expire and are withdrawn, and none is ever         *)
(* removed.  Evidence, versions and the audit log are left out.            *)
(***************************************************************************)
EXTENDS Naturals, Sequences

CONSTANTS
    Users,
    Purposes,
    Unlimited,          \* the purposes without a ttl_days
    MaxRecords          \* bound: records of a user

ASSUME ConsentsAssumption == Unlimited \subseteq Purposes /\ MaxRecords \in Nat

VARIABLES
    consents,           \* _consents
    refused             \* auxiliary: withdrawn by the user, and not granted since

consentVars == <<consents, refused>>

ConsentRecord == [purpose : Purposes, withdrawn : BOOLEAN, expired : BOOLEAN]

ConsentsTypeOK ==
    /\ consents \in [Users -> Seq(ConsentRecord)]
    /\ refused \subseteq Users \X Purposes

ConsentsInit == consents = [u \in Users |-> <<>>] /\ refused = {}

\* The records of u for p that nobody withdrew; is_valid asks for more.
Open(u, p) == {i \in DOMAIN consents[u] : consents[u][i].purpose = p /\ ~consents[u][i].withdrawn}
HasValidConsent(u, p) == \E i \in Open(u, p) : ~consents[u][i].expired

\* MUTANT: only the consents that are still valid are revoked.
MutantRevoked(records, p) ==
    [i \in DOMAIN records |->
        IF records[i].purpose = p /\ ~records[i].expired
        THEN [records[i] EXCEPT !.withdrawn = TRUE] ELSE records[i]]

\* The earlier consents for p revoked, the expired ones too.
Revoked(records, p) ==
    [i \in DOMAIN records |->
        IF records[i].purpose = p THEN [records[i] EXCEPT !.withdrawn = TRUE] ELSE records[i]]

GrantConsent(u, p) ==
    /\ Len(consents[u]) < MaxRecords
    /\ consents' = [consents EXCEPT ![u] =
          Append(Revoked(@, p), [purpose |-> p, withdrawn |-> FALSE, expired |-> FALSE])]
    /\ refused' = refused \ {<<u, p>>}

\* withdraw_consent stops at the first record that is open.
WithdrawConsent(u, p) ==
    /\ IF Open(u, p) = {} THEN UNCHANGED consents
       ELSE \E first \in Open(u, p) :
              /\ \A i \in Open(u, p) : first <= i
              /\ consents' = [consents EXCEPT ![u][first].withdrawn = TRUE]
    /\ refused' = refused \cup {<<u, p>>}

\* The ttl of a record runs out.
Expires(u, i) ==
    /\ consents[u][i].purpose \notin Unlimited
    /\ consents' = [consents EXCEPT ![u][i].expired = TRUE]
    /\ UNCHANGED refused

ConsentsNext ==
    \E u \in Users :
        \/ \E p \in Purposes : GrantConsent(u, p) \/ WithdrawConsent(u, p)
        \/ \E i \in DOMAIN consents[u] : Expires(u, i)

ConsentsSpec == ConsentsInit /\ [][ConsentsNext]_consentVars

-----------------------------------------------------------------------------
(* Properties.                                                             *)

\* One withdrawal is enough: whatever was granted, renewed and left to expire
\* before it, the user has no valid consent for the purpose until the next
\* grant, although only one record is withdrawn.
WithdrawalHolds == \A u \in Users, p \in Purposes : <<u, p>> \in refused => ~HasValidConsent(u, p)
=============================================================================
