---------------------------- MODULE PointsLedger ----------------------------
(***************************************************************************)
(* What a points account promises whatever the requests on it do at once:  *)
(* its log only grows, every movement in it starts from a balance the      *)
(* account really had, no balance is negative, and the balance shown is    *)
(* the one after the last movement that moved anything.                    *)
(***************************************************************************)
EXTENDS Integers, Sequences

CONSTANTS
    Accounts,
    Amounts         \* integers: what a movement adds, or takes if negative

VARIABLES
    balance,        \* the balance of each account
    log             \* its movements: the points and the balance after them

Init ==
    /\ balance = [c \in Accounts |-> 0]
    /\ log = [c \in Accounts |-> <<>>]

\* The balances the account has had.
Had(c) == {0} \cup {log[c][k].balance : k \in DOMAIN log[c]}

Post(c, before, points) ==
    /\ before + points >= 0
    /\ log' = [log EXCEPT ![c] = Append(@, [points |-> points, balance |-> before + points])]
    /\ balance' = [balance EXCEPT ![c] = IF points = 0 THEN @ ELSE before + points]

Next == \E c \in Accounts : \E before \in Had(c) : \E points \in Amounts : Post(c, before, points)

Spec == Init /\ [][Next]_<<balance, log>>
=============================================================================
