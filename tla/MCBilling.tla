----------------------------- MODULE MCBilling ------------------------------
(* Small instances of Billing for TLC. *)
EXTENDS Billing, TLC

\* All ids are interchangeable; used where no liveness is checked.
Interchangeable ==
    UNION {Permutations(S) : S \in {Tenants, Customers, Subs, Rows, Requests}}
=============================================================================
