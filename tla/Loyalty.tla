------------------------------ MODULE Loyalty -------------------------------
(***************************************************************************)
(* The points programme (src/src/services/loyalty_service.py behind        *)
(* src/src/api/v1/endpoints/loyalty.py): accounts opened on first use,     *)
(* points earned, given, paid for referrals and redeemed.                  *)
(*                                                                         *)
(* A request has one session and several commits: one that opens the       *)
(* account, one per addition.  Between them it keeps the rows it read.  A  *)
(* commit writes the columns whose new value differs from the one read,    *)
(* and adds a row to the transaction log.                                  *)
(*                                                                         *)
(* Points are counted in units of 250, the smallest bonus.  How a purchase *)
(* comes to its points (amount, tier multiplier, birthday) is left to the  *)
(* set Gains; 0 is what a purchase below 100 COP earns.                    *)
(***************************************************************************)
EXTENDS Integers, Sequences
LOCAL INSTANCE SequencesExt

CONSTANTS
    Customers,
    LoyaltyRequests,    \* requests the server works on at a time
    Gains,              \* points of a purchase
    Bonuses,            \* points an administrator gives
    Redemptions,        \* points a customer redeems
    MaxMovements        \* bound: rows of the logs of all accounts

ASSUME LoyaltyAssumption ==
    /\ Gains \subseteq Nat /\ Bonuses \subseteq Nat \ {0} /\ Redemptions \subseteq Nat \ {0}
    /\ MaxMovements \in Nat
    /\ "none" \notin Customers

ReferrerBonus == 2      \* 500 points
WelcomeBonus == 1       \* 250 points

VARIABLES
    accounts,           \* the table loyalty_accounts
    movements,          \* the table loyalty_transactions, by account
    earned,             \* history: the points ever added to each account
    requests            \* what each request holds between two steps

loyaltyVars == <<accounts, movements, earned, requests>>

\* The tiers by rank: bronze, silver, gold, platinum.
Tiers == 0..3
TierOf(total) ==
    IF total >= 40 THEN 3 ELSE IF total >= 20 THEN 2 ELSE IF total >= 4 THEN 1 ELSE 0

AccountType == [open : BOOLEAN, total : Nat, available : Nat, redeemed : Nat,
                tier : Tiers, referredBy : Customers \cup {"none"}]
NoAccount == [open |-> FALSE, total |-> 0, available |-> 0, redeemed |-> 0,
              tier |-> 0, referredBy |-> "none"]
Opened == [NoAccount EXCEPT !.open = TRUE]

Kinds == {"earn", "bonus", "referrer", "welcome", "redeem"}
Movements == {0 - p : p \in Redemptions} \cup Gains \cup Bonuses \cup {ReferrerBonus, WelcomeBonus}

\* seen is no column: the number of rows there were when the account was read.
Rows == [kind : Kinds, points : Movements, balance : Nat, seen : Nat]

\* A request works for a customer, with the account as it read it.  Of a
\* referral, sponsor is the referrer and sponsorRead its account.
Free == [at |-> "idle"]
Stages == {"get", "open", "add", "refer", "redeem"}
Held == [at : Stages, kind : Kinds, customer : Customers, points : Nat,
         read : AccountType, seen : Nat,
         sponsor : Customers \cup {"none"}, sponsorRead : AccountType, sponsorSeen : Nat]

LoyaltyTypeOK ==
    /\ accounts \in [Customers -> AccountType]
    /\ movements \in [Customers -> Seq(Rows)]
    /\ earned \in [Customers -> Nat]
    /\ \A r \in LoyaltyRequests : requests[r] = Free \/ requests[r] \in Held

LoyaltyInit ==
    /\ accounts = [c \in Customers |-> NoAccount]
    /\ movements = [c \in Customers |-> <<>>]
    /\ earned = [c \in Customers |-> 0]
    /\ requests = [r \in LoyaltyRequests |-> Free]

Rests(r, q) == requests' = [requests EXCEPT ![r] = q]
Unchanged == UNCHANGED <<accounts, movements, earned>>

-----------------------------------------------------------------------------
(* Reading.                                                                *)

\* A request for one account, with what it reads of it.
Reading(stage, kind, c, p) ==
    [at |-> stage, kind |-> kind, customer |-> c, points |-> p,
     read |-> accounts[c], seen |-> Len(movements[c]),
     sponsor |-> "none", sponsorRead |-> NoAccount, sponsorSeen |-> 0]

\* get_or_create_account, the SELECT of a request that adds points.
StartAdd(r, c, kind, p) ==
    /\ requests[r] = Free
    /\ Rests(r, Reading(IF accounts[c].open THEN "add" ELSE "open", kind, c, p))
    /\ Unchanged

\* process_referral finds the referrer by the code.
StartReferral(r, s, c) ==
    /\ requests[r] = Free
    /\ accounts[s].open
    /\ Rests(r, [at |-> "get", kind |-> "welcome", customer |-> c, points |-> WelcomeBonus,
                 read |-> NoAccount, seen |-> 0,
                 sponsor |-> s, sponsorRead |-> accounts[s], sponsorSeen |-> Len(movements[s])])
    /\ Unchanged

\* Then the new customer's account; a self-referral meets the same object.
GetReferred(r) ==
    LET q == requests[r]  c == q.customer IN
    /\ q.at = "get"
    /\ Rests(r, IF c = q.sponsor
                THEN [q EXCEPT !.at = "refer", !.read = q.sponsorRead, !.seen = q.sponsorSeen]
                ELSE [q EXCEPT !.at = IF accounts[c].open THEN "refer" ELSE "open",
                               !.read = accounts[c], !.seen = Len(movements[c])])
    /\ Unchanged

\* The account is inserted and read back; the unique customer_id refuses a
\* second one, and the request that lost fails.
OpenAccount(r) ==
    LET q == requests[r]  c == q.customer IN
    /\ q.at = "open" /\ ~accounts[c].open
    /\ accounts' = [accounts EXCEPT ![c] = Opened]
    /\ Rests(r, [q EXCEPT !.at = IF q.sponsor = "none" THEN "add" ELSE "refer",
                          !.read = Opened, !.seen = 0])
    /\ UNCHANGED <<movements, earned>>

-----------------------------------------------------------------------------
(* Writing.                                                                *)

\* A column in the database, given the value read and the value assigned.
Column(stored, read, new) == IF new = read THEN stored ELSE new

Store(c, read, new) ==
    accounts' = [accounts EXCEPT ![c] =
        [open |-> @.open,
         total |-> Column(@.total, read.total, new.total),
         available |-> Column(@.available, read.available, new.available),
         redeemed |-> Column(@.redeemed, read.redeemed, new.redeemed),
         tier |-> Column(@.tier, read.tier, new.tier),
         referredBy |-> Column(@.referredBy, read.referredBy, new.referredBy)]]

\* The bound.
RoomInTheLogs == FoldFunction(LAMBDA rows, n : Len(rows) + n, 0, movements) < MaxMovements

\* MUTANT: balance_after is taken before the points are added.
MutantRecord(c, kind, points, balance, seen) ==
    /\ RoomInTheLogs
    /\ movements' = [movements EXCEPT ![c] = Append(@,
          [kind |-> kind, points |-> points, balance |-> balance - points, seen |-> seen])]
    /\ earned' = [earned EXCEPT ![c] = @ + IF points > 0 THEN points ELSE 0]

\* The row of the log: balance_after is the balance assigned.
Record(c, kind, points, balance, seen) ==
    /\ RoomInTheLogs
    /\ movements' = [movements EXCEPT ![c] =
          Append(@, [kind |-> kind, points |-> points, balance |-> balance, seen |-> seen])]
    /\ earned' = [earned EXCEPT ![c] = @ + IF points > 0 THEN points ELSE 0]

\* MUTANT: the tier counts the points twice.
MutantGained(account, p) ==
    [account EXCEPT !.total = @ + p, !.available = @ + p, !.tier = TierOf(account.total + 2 * p)]

\* _add_points on the object read.
Gained(account, p) ==
    [account EXCEPT !.total = @ + p, !.available = @ + p, !.tier = TierOf(account.total + p)]

AddPoints(r) ==
    LET q == requests[r]  new == Gained(q.read, q.points) IN
    /\ q.at = "add"
    /\ Store(q.customer, q.read, new)
    /\ Record(q.customer, q.kind, q.points, new.available, q.seen)
    /\ Rests(r, Free)

\* MUTANT: the mark is set after the referrer's bonus was committed, and lost.
MutantMarked(account, s) == account

\* new_account.referred_by = referrer_account.customer_id
Marked(account, s) == [account EXCEPT !.referredBy = s]

\* The first commit of a referral: the referrer's bonus and the mark.  Then
\* the request holds the new customer's account for the second.
PayReferrer(r) ==
    LET q == requests[r]  s == q.sponsor  c == q.customer
        gained == Gained(q.sponsorRead, ReferrerBonus)
        marked == Marked(q.read, s)
        own == Marked(gained, s)
        next(n) == IF n = Len(movements[s]) THEN n + 1 ELSE n
    IN
    /\ q.at = "refer"
    /\ IF s = c
       THEN /\ Store(c, q.read, own)
            /\ Rests(r, [q EXCEPT !.at = "add", !.read = own, !.seen = next(q.seen)])
       ELSE /\ accounts' = [accounts EXCEPT
                 ![s].total = Column(@, q.sponsorRead.total, gained.total),
                 ![s].available = Column(@, q.sponsorRead.available, gained.available),
                 ![s].tier = Column(@, q.sponsorRead.tier, gained.tier),
                 ![c].referredBy = Column(@, q.read.referredBy, marked.referredBy)]
            /\ Rests(r, [q EXCEPT !.at = "add", !.read = marked])
    /\ Record(s, "referrer", ReferrerBonus, gained.available, q.sponsorSeen)

\* MUTANT: the balance is not compared with the points.
MutantStartRedeem(r, c, p) ==
    /\ requests[r] = Free
    /\ accounts[c].open
    /\ Rests(r, Reading("redeem", "redeem", c, p))
    /\ Unchanged

\* redeem_points: the account exists and the balance read is enough.
StartRedeem(r, c, p) ==
    /\ requests[r] = Free
    /\ accounts[c].open /\ accounts[c].available >= p
    /\ Rests(r, Reading("redeem", "redeem", c, p))
    /\ Unchanged

\* MUTANT: the points redeemed are not counted.
MutantSpent(account, p) == [account EXCEPT !.available = @ - p]

Spent(account, p) == [account EXCEPT !.available = @ - p, !.redeemed = @ + p]

CommitRedeem(r) ==
    LET q == requests[r]  new == Spent(q.read, q.points) IN
    /\ q.at = "redeem"
    /\ Store(q.customer, q.read, new)
    /\ Record(q.customer, "redeem", 0 - q.points, new.available, q.seen)
    /\ Rests(r, Free)

\* An exception at any point: what was committed stays, the rest is undone.
FailLoyalty(r) ==
    /\ requests[r] # Free
    /\ Rests(r, Free)
    /\ Unchanged

LoyaltyNext ==
    \E r \in LoyaltyRequests :
        \/ \E c \in Customers :
              \/ \E p \in Gains : StartAdd(r, c, "earn", p)
              \/ \E p \in Bonuses : StartAdd(r, c, "bonus", p)
              \/ \E p \in Redemptions : StartRedeem(r, c, p)
              \/ \E s \in Customers : StartReferral(r, s, c)
        \/ GetReferred(r)
        \/ OpenAccount(r)
        \/ AddPoints(r)
        \/ PayReferrer(r)
        \/ CommitRedeem(r)
        \/ FailLoyalty(r)

LoyaltySpec == LoyaltyInit /\ [][LoyaltyNext]_loyaltyVars

-----------------------------------------------------------------------------
(* Properties.                                                             *)

Ledger == INSTANCE PointsLedger WITH
    Accounts <- Customers,
    Amounts <- Movements,
    balance <- [c \in Customers |-> accounts[c].available],
    log <- [c \in Customers |->
              [k \in DOMAIN movements[c] |->
                  [points |-> movements[c][k].points, balance |-> movements[c][k].balance]]]

\* Whatever requests overlap, the account is a points ledger: available_points
\* is the balance_after of the last transaction that moved anything, never
\* negative, and each transaction starts from a balance the account had.
ImplementsLedger == Ledger!Spec

\* Points are lost, or counted twice, and tiers are wrong only where one
\* request's read and commit enclose another's commit: else what was earned is
\* what is available and what was redeemed, and the tier is that of the total.
LossNeedsOverlap ==
    \A c \in Customers :
        (\A k \in DOMAIN movements[c] : movements[c][k].seen = k - 1) =>
            /\ accounts[c].total = accounts[c].available + accounts[c].redeemed
            /\ accounts[c].tier = TierOf(accounts[c].total)

\* A lost update may also give points back: a bonus that overwrites a redemption
\* restores what was spent, and two overlapping redemptions pay with the same
\* points.  But it never adds any that were not added once: no account is in a
\* tier above, or has a balance above, what all the points ever added to it
\* (bonuses and earnings, redemptions not taken off) would give.
TierWasEarned ==
    \A c \in Customers :
        /\ accounts[c].tier <= TierOf(earned[c])
        /\ accounts[c].available <= earned[c]

\* A welcome bonus is paid to a customer marked as referred, by someone who got
\* the referrer's bonus, though the two are commits of their own and requests
\* for the same customer overlap.
WelcomeIsReferred ==
    \A c \in Customers :
        (\E k \in DOMAIN movements[c] : movements[c][k].kind = "welcome") =>
            /\ accounts[c].referredBy # "none"
            /\ \E k \in DOMAIN movements[accounts[c].referredBy] :
                  movements[accounts[c].referredBy][k].kind = "referrer"
=============================================================================
