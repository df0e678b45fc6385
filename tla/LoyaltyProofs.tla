--------------------------- MODULE LoyaltyProofs ----------------------------
(***************************************************************************)
(* Proofs about the points programme, for any customers, requests at once  *)
(* and points, and logs of any length.  Whatever a request read is kept in *)
(* the invariant as something the account once was (ReadOf); a commit is   *)
(* then the same argument three times, once per writing action.            *)
(***************************************************************************)
EXTENDS Loyalty, SequenceTheorems, TLAPS

-----------------------------------------------------------------------------
(* The points: the parts of the invariant.                                 *)

\* No request enclosed another's commit on the account.
Apart(c) == \A k \in DOMAIN movements[c] : movements[c][k].seen = k - 1

\* The balances the account has had.
Had(c) == {0} \cup {movements[c][k].balance : k \in DOMAIN movements[c]}

\* The four columns the additions write; whether they add up, and whether the
\* points n pay for them.
Agrees(a, b) ==
    a.total = b.total /\ a.available = b.available /\ a.redeemed = b.redeemed /\ a.tier = b.tier
Sound(a) == a.total = a.available + a.redeemed /\ a.tier = TierOf(a.total)
PaidBy(a, n) == a.total <= n /\ a.available <= n /\ a.tier <= TierOf(n)

HasKind(c, kind) == \E k \in DOMAIN movements[c] : movements[c][k].kind = kind

Balanced(c) ==
    /\ PaidBy(accounts[c], earned[c])
    /\ accounts[c].available \in Had(c)
    /\ Apart(c) => Sound(accounts[c])

AccountInv(c) ==
    /\ Balanced(c)
    /\ ~accounts[c].open => accounts[c] = NoAccount /\ movements[c] = <<>>
    /\ accounts[c].referredBy # "none" => HasKind(accounts[c].referredBy, "referrer")
    /\ HasKind(c, "welcome") => accounts[c].referredBy # "none"

\* What a request may have read of an account: what was there before others
\* committed to it, or what is there now.
ReadOf(c, a, seen) ==
    /\ accounts[c].open
    /\ PaidBy(a, earned[c])
    /\ a.available \in Had(c)
    /\ seen <= Len(movements[c])
    /\ Apart(c) /\ seen = Len(movements[c]) => Agrees(a, accounts[c])
    /\ a.referredBy # "none" => accounts[c].referredBy # "none"

\* What a request holds, by its stage; only a referral has a sponsor.
RequestInv(q) ==
    /\ q \in Held
    /\ q.at \in {"add", "refer", "redeem"} => ReadOf(q.customer, q.read, q.seen)
    /\ q.at \in {"get", "refer"} => q.sponsor # "none"
    /\ q.at \in {"get", "open", "refer"} /\ q.sponsor # "none" =>
          ReadOf(q.sponsor, q.sponsorRead, q.sponsorSeen)
    /\ q.sponsor # "none" <=> q.kind = "welcome"
    /\ q.at = "refer" /\ q.sponsor = q.customer => q.read = q.sponsorRead /\ q.seen = q.sponsorSeen
    /\ q.at = "add" /\ q.kind = "welcome" => accounts[q.customer].referredBy # "none"
    /\ IF q.at = "redeem" THEN q.points \in Redemptions /\ q.points <= q.read.available
       ELSE q.points \in Gains \cup Bonuses \cup {WelcomeBonus}

LoyaltyInv ==
    /\ accounts \in [Customers -> AccountType]
    /\ movements \in [Customers -> Seq(Rows)]
    /\ earned \in [Customers -> Nat]
    /\ DOMAIN requests = LoyaltyRequests
    /\ \A c \in Customers : AccountInv(c)
    /\ \A r \in LoyaltyRequests : requests[r] = Free \/ RequestInv(requests[r])

-----------------------------------------------------------------------------
(* What the operators on accounts and logs do.                             *)

LEMMA TierGrows ==
  ASSUME NEW m \in Int, NEW n \in Int, m <= n
  PROVE  TierOf(m) \in Tiers /\ TierOf(m) <= TierOf(n)
  BY DEF TierOf, Tiers

LEMMA MovementsAreIntegers == Movements \subseteq Int
  <1>1. ASSUME NEW p \in Redemptions PROVE 0 - p \in Int
    BY LoyaltyAssumption
  <1>2. Gains \subseteq Int /\ Bonuses \subseteq Int /\ ReferrerBonus \in Int /\ WelcomeBonus \in Int
    BY LoyaltyAssumption DEF ReferrerBonus, WelcomeBonus
  <1> QED BY <1>1, <1>2 DEF Movements

LEMMA GainedIs ==
  ASSUME NEW a \in AccountType, NEW p \in Nat
  PROVE  /\ Gained(a, p) \in AccountType
         /\ Gained(a, p).total = a.total + p /\ Gained(a, p).available = a.available + p
         /\ Gained(a, p).redeemed = a.redeemed /\ Gained(a, p).tier = TierOf(a.total + p)
         /\ Gained(a, p).referredBy = a.referredBy
  <1>1. a.total \in Nat /\ a.available \in Nat /\ a.total + p \in Nat /\ a.available + p \in Nat
    BY DEF AccountType
  <1>2. TierOf(a.total + p) \in Tiers
    BY <1>1, TierGrows
  <1> DEFINE t == a.total + p  v == a.available + p  r == TierOf(a.total + p)
  <1>3. Gained(a, p) = [a EXCEPT !.total = t, !.available = v, !.tier = r]
    BY DEF Gained
  <1>4. t \in Nat /\ v \in Nat /\ r \in Tiers
    BY <1>1, <1>2
  <1> HIDE DEF t, v, r
  <1>5. /\ Gained(a, p) \in AccountType
        /\ Gained(a, p).total = t /\ Gained(a, p).available = v
        /\ Gained(a, p).redeemed = a.redeemed /\ Gained(a, p).tier = r
        /\ Gained(a, p).referredBy = a.referredBy
    BY <1>3, <1>4 DEF AccountType
  <1> QED BY <1>5 DEF t, v, r

LEMMA SpentIs ==
  ASSUME NEW a \in AccountType, NEW p \in Nat, p <= a.available
  PROVE  /\ Spent(a, p) \in AccountType
         /\ Spent(a, p).total = a.total /\ Spent(a, p).available = a.available - p
         /\ Spent(a, p).redeemed = a.redeemed + p /\ Spent(a, p).tier = a.tier
         /\ Spent(a, p).referredBy = a.referredBy
  <1> DEFINE v == a.available - p  r == a.redeemed + p
  <1>1. v \in Nat /\ r \in Nat
    BY DEF AccountType
  <1>2. Spent(a, p) = [a EXCEPT !.available = v, !.redeemed = r]
    BY DEF Spent
  <1> HIDE DEF v, r
  <1>3. /\ Spent(a, p) \in AccountType
        /\ Spent(a, p).total = a.total /\ Spent(a, p).available = v
        /\ Spent(a, p).redeemed = r /\ Spent(a, p).tier = a.tier
        /\ Spent(a, p).referredBy = a.referredBy
    BY <1>1, <1>2 DEF AccountType
  <1> QED BY <1>3 DEF v, r

LEMMA MarkedIs ==
  ASSUME NEW a \in AccountType, NEW s \in Customers
  PROVE  /\ Marked(a, s) \in AccountType
         /\ Agrees(Marked(a, s), a)
         /\ Marked(a, s).referredBy = s
  BY DEF Marked, AccountType, Agrees

\* A row more: the last of the log, whose balance and kind the account has had.
LEMMA RowAdded ==
  ASSUME LoyaltyInv, NEW c \in Customers, NEW row \in Rows,
         movements' = [movements EXCEPT ![c] = Append(@, row)]
  PROVE  /\ movements' \in [Customers -> Seq(Rows)]
         /\ Len(movements[c]) \in Nat
         /\ Len(movements'[c]) = Len(movements[c]) + 1
         /\ \A d \in Customers : d # c => movements'[d] = movements[d]
         /\ Apart(c)' <=> Apart(c) /\ row.seen = Len(movements[c])
         /\ Had(c)' = Had(c) \cup {row.balance}
         /\ \A kind : HasKind(c, kind)' <=> HasKind(c, kind) \/ row.kind = kind
  <1>1. PICK h \in Seq(Rows) : h = movements[c]
    BY DEF LoyaltyInv
  <1>2. movements'[c] = Append(h, row) /\ \A d \in Customers : d # c => movements'[d] = movements[d]
    BY <1>1 DEF LoyaltyInv
  <1>3. /\ Append(h, row) \in Seq(Rows)
        /\ Len(h) \in Nat /\ DOMAIN h = 1..Len(h)
        /\ Len(Append(h, row)) = Len(h) + 1 /\ DOMAIN Append(h, row) = 1..(Len(h) + 1)
        /\ \A k \in 1..Len(h) : Append(h, row)[k] = h[k]
        /\ Append(h, row)[Len(h) + 1] = row
    BY LenProperties
  <1>4. movements' \in [Customers -> Seq(Rows)]
    BY <1>1, <1>2, <1>3 DEF LoyaltyInv
  <1>5. Apart(c)' <=> Apart(c) /\ row.seen = Len(h)
    <2>1. Apart(c) <=> \A k \in 1..Len(h) : h[k].seen = k - 1
      BY <1>1, <1>3 DEF Apart
    <2>2. Apart(c)' <=> \A k \in 1..(Len(h) + 1) : Append(h, row)[k].seen = k - 1
      BY <1>2, <1>3 DEF Apart
    <2>3. \A k \in 1..(Len(h) + 1) : k \in 1..Len(h) \/ k = Len(h) + 1
      BY <1>3
    <2>4. 1..Len(h) \subseteq 1..(Len(h) + 1) /\ Len(h) + 1 \in 1..(Len(h) + 1) /\ Len(h) + 1 - 1 = Len(h)
      BY <1>3
    <2> QED BY <1>3, <2>1, <2>2, <2>3, <2>4
  <1>6. Had(c)' = Had(c) \cup {row.balance}
    BY <1>1, <1>2, <1>3 DEF Had
  <1>7. \A kind : HasKind(c, kind)' <=> HasKind(c, kind) \/ row.kind = kind
    BY <1>1, <1>2, <1>3 DEF HasKind
  <1> QED BY <1>1, <1>2, <1>3, <1>4, <1>5, <1>6, <1>7

\* One kind of row, before and after.
LEMMA KindAdded ==
  ASSUME LoyaltyInv, NEW c \in Customers, NEW row \in Rows,
         movements' = [movements EXCEPT ![c] = Append(@, row)],
         NEW d \in Customers, NEW kind
  PROVE  HasKind(d, kind)' <=> HasKind(d, kind) \/ (d = c /\ row.kind = kind)
  <1>1. /\ \A e \in Customers : e # c => movements'[e] = movements[e]
        /\ HasKind(c, kind)' <=> HasKind(c, kind) \/ row.kind = kind
    BY RowAdded
  <1>2. CASE d = c
    BY <1>1, <1>2 DEF HasKind
  <1>3. CASE d # c
    BY <1>1, <1>3 DEF HasKind
  <1> QED BY <1>2, <1>3

-----------------------------------------------------------------------------
(* What a step does to an account, for those who read it before.           *)

\* The log is as it was and so are the four columns, or the log has grown.
Onward(c) ==
    /\ accounts[c].open => accounts'[c].open
    /\ accounts[c].referredBy # "none" => accounts'[c].referredBy # "none"
    /\ earned[c] <= earned'[c]
    /\ Had(c) \subseteq Had(c)'
    /\ \/ movements'[c] = movements[c] /\ (accounts[c].open => Agrees(accounts'[c], accounts[c]))
       \/ Len(movements'[c]) > Len(movements[c])

\* What a request read stays something it may have read.
LEMMA OnwardRead ==
  ASSUME LoyaltyInv, NEW c \in Customers, Onward(c), earned' \in [Customers -> Nat],
         movements' \in [Customers -> Seq(Rows)],
         NEW a \in AccountType, NEW seen \in Nat, ReadOf(c, a, seen)
  PROVE  ReadOf(c, a, seen)'
  <1>1. /\ earned[c] \in Nat /\ earned'[c] \in Nat
        /\ Len(movements[c]) \in Nat /\ Len(movements'[c]) \in Nat
    BY LenProperties DEF LoyaltyInv
  <1>2. a.total \in Nat /\ a.available \in Nat /\ a.tier \in Int
    BY DEF AccountType, Tiers
  <1>3. TierOf(earned[c]) \in Int /\ TierOf(earned'[c]) \in Int /\ TierOf(earned[c]) <= TierOf(earned'[c])
    <2>1. earned[c] <= earned'[c]
      BY DEF Onward
    <2>2. PICK m \in Nat, n \in Nat : m = earned[c] /\ n = earned'[c]
      BY <1>1
    <2>3. TierOf(m) \in Tiers /\ TierOf(n) \in Tiers /\ TierOf(m) <= TierOf(n)
      BY <2>1, <2>2, TierGrows
    <2> QED BY <2>2, <2>3 DEF Tiers
  <1>4. PaidBy(a, earned[c])'
    BY <1>1, <1>2, <1>3 DEF Onward, ReadOf, PaidBy
  <1>5. accounts'[c].open /\ a.available \in Had(c)' /\ (a.referredBy # "none" => accounts'[c].referredBy # "none")
    BY DEF Onward, ReadOf
  <1>6. CASE movements'[c] = movements[c]
    <2>1. Agrees(accounts'[c], accounts[c])
      BY <1>1, <1>6 DEF Onward, ReadOf
    <2>2. Apart(c)' <=> Apart(c)
      BY <1>6 DEF Apart
    <2> QED BY <1>4, <1>5, <1>6, <2>1, <2>2 DEF ReadOf, Agrees
  <1>7. CASE Len(movements'[c]) > Len(movements[c])
    BY <1>1, <1>4, <1>5, <1>7 DEF ReadOf
  <1> QED BY <1>6, <1>7 DEF Onward

LEMMA OnwardRequest ==
  ASSUME LoyaltyInv, \A c \in Customers : Onward(c), earned' \in [Customers -> Nat],
         movements' \in [Customers -> Seq(Rows)],
         NEW q, RequestInv(q)
  PROVE  RequestInv(q)'
  <1>1. /\ q.customer \in Customers /\ q.sponsor \in Customers \cup {"none"}
        /\ q.read \in AccountType /\ q.seen \in Nat
        /\ q.sponsorRead \in AccountType /\ q.sponsorSeen \in Nat
    BY DEF RequestInv, Held
  <1>2. ReadOf(q.customer, q.read, q.seen) => ReadOf(q.customer, q.read, q.seen)'
    BY <1>1, OnwardRead
  <1>3. q.sponsor # "none" /\ ReadOf(q.sponsor, q.sponsorRead, q.sponsorSeen)
           => ReadOf(q.sponsor, q.sponsorRead, q.sponsorSeen)'
    BY <1>1, OnwardRead
  <1>4. accounts[q.customer].referredBy # "none" => accounts'[q.customer].referredBy # "none"
    BY <1>1 DEF Onward
  <1> QED BY <1>2, <1>3, <1>4 DEF RequestInv

\* So a step that takes accounts onward is only asked about the accounts and
\* about the request that makes it.
LEMMA OnwardKeeps ==
  ASSUME LoyaltyInv, \A c \in Customers : Onward(c),
         accounts' \in [Customers -> AccountType],
         movements' \in [Customers -> Seq(Rows)],
         earned' \in [Customers -> Nat],
         \A c \in Customers : AccountInv(c)',
         NEW r0 \in LoyaltyRequests, NEW q0, Rests(r0, q0),
         q0 = Free \/ RequestInv(q0)'
  PROVE  LoyaltyInv'
  <1>1. ASSUME NEW r \in LoyaltyRequests PROVE (requests[r] = Free \/ RequestInv(requests[r]))'
    <2>1. CASE r = r0
      <3>1. requests'[r] = q0
        BY <2>1 DEF LoyaltyInv, Rests
      <3> QED BY <3>1 DEF RequestInv, ReadOf
    <2>2. CASE r # r0
      <3>1. PICK q : q = requests[r]
        OBVIOUS
      <3>2. requests'[r] = q
        BY <2>2, <3>1 DEF LoyaltyInv, Rests
      <3>3. q = Free \/ RequestInv(q)
        BY <3>1 DEF LoyaltyInv
      <3>4. q = Free \/ RequestInv(q)'
        BY <3>3, OnwardRequest
      <3> QED BY <3>2, <3>4 DEF RequestInv, ReadOf
    <2> QED BY <2>1, <2>2
  <1> QED BY <1>1 DEF LoyaltyInv, Rests

\* Where the tables are left alone, what was true of them stays true.
LEMMA UnchangedKeeps ==
  ASSUME LoyaltyInv, Unchanged
  PROVE  /\ \A c \in Customers : Onward(c) /\ AccountInv(c)'
         /\ accounts' \in [Customers -> AccountType]
         /\ movements' \in [Customers -> Seq(Rows)]
         /\ earned' \in [Customers -> Nat]
  <1>1. accounts' = accounts /\ movements' = movements /\ earned' = earned
    BY DEF Unchanged
  <1>2. ASSUME NEW c \in Customers PROVE Onward(c) /\ AccountInv(c)'
    <2>1. Had(c)' = Had(c) /\ (Apart(c)' <=> Apart(c))
      BY <1>1 DEF Had, Apart
    <2>2. earned[c] \in Nat /\ AccountInv(c)
      BY DEF LoyaltyInv
    <2>3. Onward(c)
      BY <1>1, <2>1, <2>2 DEF Onward, Agrees
    <2>4. Balanced(c)'
      BY <1>1, <2>1, <2>2 DEF AccountInv, Balanced, PaidBy, Sound
    <2>5. AccountInv(c)'
      BY <1>1, <2>2, <2>4 DEF AccountInv, HasKind
    <2> QED BY <2>3, <2>5
  <1> QED BY <1>1, <1>2 DEF LoyaltyInv

\* A step that only reads.
LEMMA ReadingKeeps ==
  ASSUME LoyaltyInv, Unchanged, NEW r0 \in LoyaltyRequests, NEW q0, Rests(r0, q0),
         q0 = Free \/ RequestInv(q0)
  PROVE  LoyaltyInv'
  <1>1. q0 = Free \/ RequestInv(q0)'
    BY UnchangedKeeps, OnwardRequest
  <1> QED BY <1>1, UnchangedKeeps, OnwardKeeps

\* An account whose log and columns stay as they are, marked or not.
LEMMA AccountStays ==
  ASSUME LoyaltyInv, NEW c \in Customers,
         movements'[c] = movements[c], earned'[c] = earned[c],
         Agrees(accounts'[c], accounts[c]), accounts'[c].open = accounts[c].open,
         accounts[c].referredBy # "none" => accounts'[c].referredBy # "none"
  PROVE  Onward(c) /\ Balanced(c)'
  <1>1. Had(c)' = Had(c) /\ (Apart(c)' <=> Apart(c)) /\ earned[c] \in Nat
    BY DEF Had, Apart, LoyaltyInv
  <1>2. Balanced(c)
    BY DEF LoyaltyInv, AccountInv
  <1>3. Onward(c)
    BY <1>1 DEF Onward
  <1>4. Balanced(c)'
    BY <1>1, <1>2 DEF Balanced, Agrees, PaidBy, Sound
  <1> QED BY <1>3, <1>4

\* A commit on an account: the four columns as a commit writes them, and a row.
Written(c, read, new, row) ==
    /\ movements' = [movements EXCEPT ![c] = Append(@, row)]
    /\ earned' = [earned EXCEPT ![c] = @ + IF row.points > 0 THEN row.points ELSE 0]
    /\ accounts'[c].open = accounts[c].open
    /\ accounts'[c].total = Column(accounts[c].total, read.total, new.total)
    /\ accounts'[c].available = Column(accounts[c].available, read.available, new.available)
    /\ accounts'[c].redeemed = Column(accounts[c].redeemed, read.redeemed, new.redeemed)
    /\ accounts'[c].tier = Column(accounts[c].tier, read.tier, new.tier)

\* It takes the account onward, whatever was read, if what was read is
\* something the account was.
LEMMA WrittenIsOnward ==
  ASSUME LoyaltyInv, NEW c \in Customers,
         NEW read \in AccountType, NEW new \in AccountType, NEW row \in Rows,
         Written(c, read, new, row),
         accounts[c].referredBy # "none" => accounts'[c].referredBy # "none",
         ReadOf(c, read, row.seen),
         new.available = row.balance,
         PaidBy(new, earned'[c]),
         Sound(read) => Sound(new)
  PROVE  /\ movements' \in [Customers -> Seq(Rows)]
         /\ earned' \in [Customers -> Nat]
         /\ earned'[c] = earned[c] + IF row.points > 0 THEN row.points ELSE 0
         /\ Onward(c)
         /\ Balanced(c)'
         /\ Apart(c)' => Agrees(accounts'[c], new)
  <1> DEFINE gain == IF row.points > 0 THEN row.points ELSE 0
  <1>1. row.points \in Int /\ gain \in Nat
    <2>1. row.points \in Movements
      BY DEF Rows
    <2>2. row.points \in Int
      BY <2>1, MovementsAreIntegers
    <2> QED BY <2>2
  <1>2. earned' = [earned EXCEPT ![c] = @ + gain]
    BY DEF Written
  <1>3. earned[c] \in Nat
    BY DEF LoyaltyInv
  <1> HIDE DEF gain
  <1>4. earned' \in [Customers -> Nat] /\ earned'[c] = earned[c] + gain /\ earned[c] <= earned'[c]
    BY <1>1, <1>2, <1>3 DEF LoyaltyInv
  <1>5. /\ movements' \in [Customers -> Seq(Rows)]
        /\ Len(movements[c]) \in Nat
        /\ Len(movements'[c]) = Len(movements[c]) + 1
        /\ Apart(c)' <=> Apart(c) /\ row.seen = Len(movements[c])
        /\ Had(c)' = Had(c) \cup {row.balance}
    BY RowAdded DEF Written
  <1>6. Balanced(c)
    BY DEF LoyaltyInv, AccountInv
  <1>7. Onward(c)
    BY <1>4, <1>5 DEF Onward, Written, ReadOf
  <1>8. PaidBy(accounts[c], earned'[c])
    <2>1. accounts[c].total \in Nat /\ accounts[c].available \in Nat /\ accounts[c].tier \in Int
      <3>1. accounts[c] \in AccountType
        BY DEF LoyaltyInv
      <3> QED BY <3>1 DEF AccountType, Tiers
    <2>2. earned'[c] \in Nat
      BY <1>4
    <2>3. /\ TierOf(earned[c]) \in Int /\ TierOf(earned'[c]) \in Int
          /\ TierOf(earned[c]) <= TierOf(earned'[c])
      BY <1>3, <1>4, <2>2, TierGrows DEF Tiers
    <2> QED BY <1>3, <1>4, <1>6, <2>1, <2>2, <2>3 DEF Balanced, PaidBy
  <1>9. PaidBy(accounts'[c], earned'[c])
    BY <1>8 DEF Written, Column, PaidBy
  <1>10. accounts'[c].available \in Had(c)'
    BY <1>5, <1>6 DEF Balanced, Written, Column
  <1>11. ASSUME Apart(c)' PROVE Agrees(accounts'[c], new) /\ Sound(accounts'[c])
    <2>1. Apart(c) /\ row.seen = Len(movements[c])
      BY <1>5, <1>11
    <2>2. Agrees(read, accounts[c]) /\ Sound(accounts[c])
      BY <1>6, <2>1 DEF ReadOf, Balanced
    <2>3. Sound(new)
      BY <2>2 DEF Agrees, Sound
    <2>4. Agrees(accounts'[c], new)
      BY <2>2 DEF Agrees, Written, Column
    <2> QED BY <2>3, <2>4 DEF Agrees, Sound
  <1>12. Balanced(c)'
    BY <1>9, <1>10, <1>11 DEF Balanced, PaidBy
  <1> QED BY <1>4, <1>5, <1>7, <1>11, <1>12 DEF gain

\* What Store writes.
LEMMA StoreIs ==
  ASSUME LoyaltyInv, NEW c \in Customers, NEW read \in AccountType, NEW new \in AccountType,
         Store(c, read, new)
  PROVE  /\ accounts' \in [Customers -> AccountType]
         /\ \A d \in Customers : d # c => accounts'[d] = accounts[d]
         /\ accounts'[c].open = accounts[c].open
         /\ accounts'[c].total = Column(accounts[c].total, read.total, new.total)
         /\ accounts'[c].available = Column(accounts[c].available, read.available, new.available)
         /\ accounts'[c].redeemed = Column(accounts[c].redeemed, read.redeemed, new.redeemed)
         /\ accounts'[c].tier = Column(accounts[c].tier, read.tier, new.tier)
         /\ accounts'[c].referredBy =
               Column(accounts[c].referredBy, read.referredBy, new.referredBy)
  <1>1. PICK a \in AccountType : a = accounts[c]
    BY DEF LoyaltyInv
  <1> DEFINE b == [open |-> a.open,
                   total |-> Column(a.total, read.total, new.total),
                   available |-> Column(a.available, read.available, new.available),
                   redeemed |-> Column(a.redeemed, read.redeemed, new.redeemed),
                   tier |-> Column(a.tier, read.tier, new.tier),
                   referredBy |-> Column(a.referredBy, read.referredBy, new.referredBy)]
  <1>2. b \in AccountType
    BY DEF AccountType, Column
  <1>3. accounts' = [accounts EXCEPT ![c] = b]
    BY <1>1 DEF Store
  <1>4. accounts'[c] = b
    BY <1>3 DEF LoyaltyInv
  <1>5. accounts' \in [Customers -> AccountType] /\ \A d \in Customers : d # c => accounts'[d] = accounts[d]
    <2> HIDE DEF b
    <2> QED BY <1>2, <1>3 DEF LoyaltyInv
  <1> QED BY <1>1, <1>4, <1>5

\* Points gained on what was read are points the account was given.
LEMMA GainIsPaid ==
  ASSUME LoyaltyInv, NEW c \in Customers, NEW read \in AccountType, NEW new \in AccountType,
         NEW p \in Nat, PaidBy(read, earned[c]),
         new.total = read.total + p, new.available = read.available + p,
         new.tier = TierOf(read.total + p)
  PROVE  PaidBy(new, earned[c] + p)
  <1>1. earned[c] \in Nat /\ read.total \in Nat /\ read.available \in Nat
    BY DEF LoyaltyInv, AccountType
  <1>2. read.total + p <= earned[c] + p /\ read.available + p <= earned[c] + p
    BY <1>1 DEF PaidBy
  <1>3. TierOf(read.total + p) <= TierOf(earned[c] + p)
    BY <1>1, <1>2, TierGrows
  <1> QED BY <1>2, <1>3 DEF PaidBy

-----------------------------------------------------------------------------
(* The points ledger the accounts implement.                               *)

\* A commit on an account that was read is a movement of the ledger.
LEMMA WrittenIsPosted ==
  ASSUME LoyaltyInv, NEW c \in Customers,
         NEW read \in AccountType, NEW new \in AccountType, NEW row \in Rows,
         Written(c, read, new, row),
         read.available \in Had(c),
         new.available = row.balance, row.balance = read.available + row.points,
         \A d \in Customers : d # c => accounts'[d].available = accounts[d].available
  PROVE  Ledger!Next
  <1> DEFINE bal == [d \in Customers |-> accounts[d].available]
             entries(d) == [k \in DOMAIN movements[d] |->
                  [points |-> movements[d][k].points, balance |-> movements[d][k].balance]]
             log == [d \in Customers |-> entries(d)]
             entry == [points |-> row.points, balance |-> read.available + row.points]
  <1>1. /\ row.points \in Movements /\ row.points \in Int
        /\ row.balance \in Nat /\ read.available \in Nat
        /\ accounts[c].available \in Nat
    <2>1. accounts[c] \in AccountType
      BY DEF LoyaltyInv
    <2> QED BY <2>1, MovementsAreIntegers DEF Rows, AccountType
  <1>2. read.available \in {0} \cup {log[c][k].balance : k \in DOMAIN log[c]}
    BY DEF Had
  <1>3. bal' = [bal EXCEPT ![c] = IF row.points = 0 THEN @ ELSE read.available + row.points]
    <2>1. accounts'[c].available =
             IF row.points = 0 THEN accounts[c].available ELSE read.available + row.points
      BY <1>1 DEF Written, Column
    <2> QED BY <2>1
  <1>4. log' = [log EXCEPT ![c] = Append(@, entry)]
    <2>1. PICK h \in Seq(Rows) : h = movements[c]
      BY DEF LoyaltyInv
    <2>2. /\ movements'[c] = Append(h, row)
          /\ \A d \in Customers : d # c => movements'[d] = movements[d]
      BY <2>1 DEF LoyaltyInv, Written
    <2>3. entries(c)' = Append(entries(c), entry)
      <3> DEFINE n == Len(h)
                 e == [k \in 1..n |-> [points |-> h[k].points, balance |-> h[k].balance]]
                 B == [points : Int, balance : Int]
      <3>1. n \in Nat /\ DOMAIN h = 1..n /\ \A k \in 1..n : h[k] \in Rows
        BY LenProperties, ElementOfSeq
      <3>2. /\ DOMAIN Append(h, row) = 1..(n + 1)
            /\ \A k \in 1..n : Append(h, row)[k] = h[k]
            /\ Append(h, row)[n + 1] = row
        BY <3>1
      <3>3. entries(c) = e
        BY <2>1, <3>1
      <3>4. e \in Seq(B) /\ Len(e) = n
        <4>1. \A k \in 1..n : [points |-> h[k].points, balance |-> h[k].balance] \in B
          <5> SUFFICES ASSUME NEW k \in 1..n PROVE h[k].points \in Int /\ h[k].balance \in Int
            OBVIOUS
          <5>1. h[k] \in Rows
            BY <3>1
          <5>2. h[k].points \in Movements /\ h[k].balance \in Nat
            BY <5>1 DEF Rows
          <5>3. \A x \in Movements : x \in Int
            BY MovementsAreIntegers
          <5>4. h[k].points \in Int
            BY <5>2, <5>3, Zenon
          <5>5. h[k].balance \in Int
            BY <5>2
          <5> QED BY <5>4, <5>5
        <4>2. e \in [1..n -> B]
          BY <4>1
        <4> HIDE DEF e, B
        <4> QED BY <3>1, <4>2
      <3>5. entries(c)' = [k \in 1..(n + 1) |-> IF k = n + 1 THEN entry
                            ELSE [points |-> h[k].points, balance |-> h[k].balance]]
        BY <1>1, <2>2, <3>1, <3>2
      <3>6. Append(e, entry) = [k \in 1..(n + 1) |-> IF k = n + 1 THEN entry ELSE e[k]]
        <4>1. entry \in B
          BY <1>1
        <4> HIDE DEF e, B, entry, n
        <4>2. /\ Append(e, entry) \in Seq(B) /\ Len(Append(e, entry)) = n + 1
              /\ \A k \in 1..n : Append(e, entry)[k] = e[k]
              /\ Append(e, entry)[n + 1] = entry
          BY <3>1, <3>4, <4>1
        <4>3. Append(e, entry) \in [1..(n + 1) -> B]
          BY <4>2, LenProperties
        <4>4. \A k \in 1..(n + 1) : k # n + 1 => k \in 1..n
          BY <3>1
        <4> QED BY <4>2, <4>3, <4>4
      <3>7. \A k \in 1..(n + 1) : k # n + 1 => e[k] = [points |-> h[k].points, balance |-> h[k].balance]
        BY <3>1
      <3> HIDE DEF e, entry, n
      <3> QED BY <3>3, <3>5, <3>6, <3>7
    <2>4. \A d \in Customers : d # c => log'[d] = log[d]
      BY <2>2
    <2> QED BY <2>3, <2>4
  <1>5. Ledger!Post(c, read.available, row.points)
    BY <1>1, <1>3, <1>4 DEF Ledger!Post
  <1> QED BY <1>1, <1>2, <1>5 DEF Ledger!Next, Ledger!Had

-----------------------------------------------------------------------------
(* Each action keeps the invariant, and posts a movement or none.          *)

\* A commit on one account that ends the request.
LEMMA CommitKeeps ==
  ASSUME LoyaltyInv, NEW r \in LoyaltyRequests, NEW c \in Customers,
         NEW read \in AccountType, NEW new \in AccountType, NEW row \in Rows,
         Store(c, read, new),
         movements' = [movements EXCEPT ![c] = Append(@, row)],
         earned' = [earned EXCEPT ![c] = @ + IF row.points > 0 THEN row.points ELSE 0],
         Rests(r, Free),
         ReadOf(c, read, row.seen),
         new.available = row.balance, row.balance = read.available + row.points,
         new.referredBy = read.referredBy,
         PaidBy(new, earned'[c]),
         Sound(read) => Sound(new),
         row.kind = "welcome" => accounts[c].referredBy # "none"
  PROVE  LoyaltyInv' /\ Ledger!Next
  <1>1. /\ Written(c, read, new, row)
        /\ accounts' \in [Customers -> AccountType]
        /\ accounts'[c].referredBy = accounts[c].referredBy
        /\ \A d \in Customers : d # c => accounts'[d] = accounts[d]
    <2>1. accounts'[c].referredBy = accounts[c].referredBy
      BY StoreIs DEF Column
    <2> QED BY <2>1, StoreIs DEF Written
  <1>2. /\ movements' \in [Customers -> Seq(Rows)]
        /\ earned' \in [Customers -> Nat]
        /\ Onward(c)
        /\ Balanced(c)'
    BY <1>1, WrittenIsOnward
  <1>3. ASSUME NEW d \in Customers, d # c PROVE Onward(d) /\ Balanced(d)'
    <2>1. movements'[d] = movements[d] /\ earned'[d] = earned[d] /\ accounts'[d] = accounts[d]
      BY <1>1, <1>3 DEF LoyaltyInv
    <2> QED BY <2>1, AccountStays DEF Agrees
  <1>4. ASSUME NEW d \in Customers PROVE AccountInv(d)'
    <2>1. AccountInv(d)
      BY DEF LoyaltyInv
    <2>2. /\ accounts'[d].referredBy = accounts[d].referredBy
          /\ accounts'[d].open = accounts[d].open
          /\ d # c => accounts'[d] = accounts[d] /\ movements'[d] = movements[d]
          /\ accounts[d].referredBy \in Customers \cup {"none"}
      <3>1. accounts[d] \in AccountType
        BY DEF LoyaltyInv
      <3> QED BY <1>1, <3>1 DEF Written, AccountType, LoyaltyInv
    <2>3. \A e \in Customers : HasKind(e, "referrer") => HasKind(e, "referrer")'
      BY KindAdded
    <2>4. HasKind(d, "welcome")' => HasKind(d, "welcome") \/ (d = c /\ row.kind = "welcome")
      BY KindAdded
    <2>5. accounts[c].open
      BY DEF ReadOf
    <2> QED BY <1>2, <1>3, <2>1, <2>2, <2>3, <2>4, <2>5 DEF AccountInv
  <1>5. LoyaltyInv'
    BY <1>1, <1>2, <1>3, <1>4, OnwardKeeps
  <1>6. Ledger!Next
    BY <1>1, WrittenIsPosted DEF ReadOf
  <1> QED BY <1>5, <1>6

LEMMA AddPointsKeeps ==
  ASSUME LoyaltyInv, NEW r \in LoyaltyRequests, AddPoints(r)
  PROVE  LoyaltyInv' /\ Ledger!Next
  <1>1. PICK q : q = requests[r]
    OBVIOUS
  <1>2. q.at = "add" /\ RequestInv(q)
    BY <1>1 DEF AddPoints, LoyaltyInv, Free
  <1>3. PICK c \in Customers, read \in AccountType, p \in Nat :
           c = q.customer /\ read = q.read /\ p = q.points
    BY <1>2 DEF RequestInv, Held
  <1>4. PICK new : new = Gained(read, p)
    OBVIOUS
  <1>5. /\ new \in AccountType
        /\ new.total = read.total + p /\ new.available = read.available + p
        /\ new.redeemed = read.redeemed /\ new.tier = TierOf(read.total + p)
        /\ new.referredBy = read.referredBy
    BY <1>4, GainedIs
  <1>6. PICK row : row = [kind |-> q.kind, points |-> p, balance |-> new.available, seen |-> q.seen]
    OBVIOUS
  <1>7. /\ row \in Rows
        /\ row.balance = new.available /\ row.points = p /\ row.seen = q.seen /\ row.kind = q.kind
    <2>1. p \in Movements /\ q.kind \in Kinds /\ q.seen \in Nat
      BY <1>2, <1>3 DEF RequestInv, Held, Movements
    <2>2. new.available \in Nat
      BY <1>5 DEF AccountType
    <2> QED BY <1>6, <2>1, <2>2 DEF Rows
  <1>8. /\ Store(c, read, new)
        /\ movements' = [movements EXCEPT ![c] = Append(@, row)]
        /\ earned' = [earned EXCEPT ![c] = @ + IF row.points > 0 THEN row.points ELSE 0]
        /\ Rests(r, Free)
    BY <1>1, <1>3, <1>4, <1>6, <1>7 DEF AddPoints, Record
  <1>9. ReadOf(c, read, row.seen)
    BY <1>2, <1>3, <1>7 DEF RequestInv
  <1>10. PaidBy(new, earned'[c])
    <2>1. earned'[c] = earned[c] + p
      <3>1. earned[c] \in Nat /\ earned'[c] = earned[c] + IF p > 0 THEN p ELSE 0
        BY <1>7, <1>8 DEF LoyaltyInv
      <3> QED BY <3>1
    <2>2. PaidBy(read, earned[c])
      BY <1>9 DEF ReadOf
    <2> QED BY <1>5, <2>1, <2>2, GainIsPaid
  <1>11. Sound(read) => Sound(new)
    <2>1. read.total \in Nat /\ read.available \in Nat /\ read.redeemed \in Nat
      BY DEF AccountType
    <2> QED BY <1>5, <2>1 DEF Sound
  <1>12. row.kind = "welcome" => accounts[c].referredBy # "none"
    BY <1>2, <1>3, <1>7 DEF RequestInv
  <1>13. row.balance = read.available + row.points
    BY <1>5, <1>7
  <1> QED BY <1>5, <1>7, <1>8, <1>9, <1>10, <1>11, <1>12, <1>13, CommitKeeps

\* A redemption takes what was read to be there.
LEMMA CommitRedeemKeeps ==
  ASSUME LoyaltyInv, NEW r \in LoyaltyRequests, CommitRedeem(r)
  PROVE  LoyaltyInv' /\ Ledger!Next
  <1>1. PICK q : q = requests[r]
    OBVIOUS
  <1>2. q.at = "redeem" /\ RequestInv(q)
    BY <1>1 DEF CommitRedeem, LoyaltyInv, Free
  <1>3. PICK c \in Customers, read \in AccountType, p \in Redemptions :
           c = q.customer /\ read = q.read /\ p = q.points /\ p <= read.available
    BY <1>2 DEF RequestInv, Held
  <1>4. p \in Nat /\ p > 0
    BY LoyaltyAssumption
  <1>5. PICK new : new = Spent(read, p)
    OBVIOUS
  <1>6. /\ new \in AccountType
        /\ new.total = read.total /\ new.available = read.available - p
        /\ new.redeemed = read.redeemed + p /\ new.tier = read.tier
        /\ new.referredBy = read.referredBy
    BY <1>3, <1>4, <1>5, SpentIs
  <1>7. PICK row : row = [kind |-> "redeem", points |-> 0 - p, balance |-> new.available, seen |-> q.seen]
    OBVIOUS
  <1>8. /\ row \in Rows
        /\ row.balance = new.available /\ row.points = 0 - p /\ row.seen = q.seen /\ row.kind = "redeem"
    <2>1. 0 - p \in Movements /\ q.seen \in Nat
      BY <1>2, <1>3 DEF RequestInv, Held, Movements
    <2>2. new.available \in Nat
      BY <1>6 DEF AccountType
    <2> QED BY <1>7, <2>1, <2>2 DEF Rows, Kinds
  <1>9. /\ Store(c, read, new)
        /\ movements' = [movements EXCEPT ![c] = Append(@, row)]
        /\ earned' = [earned EXCEPT ![c] = @ + IF row.points > 0 THEN row.points ELSE 0]
        /\ Rests(r, Free)
    BY <1>1, <1>3, <1>5, <1>7, <1>8 DEF CommitRedeem, Record
  <1>10. ReadOf(c, read, row.seen)
    BY <1>2, <1>3, <1>8 DEF RequestInv
  <1>11. read.total \in Nat /\ read.available \in Nat /\ read.redeemed \in Nat
    BY DEF AccountType
  <1>12. PaidBy(new, earned'[c])
    <2>1. earned'[c] = earned[c] /\ earned[c] \in Nat
      <3>1. earned[c] \in Nat /\ earned'[c] = earned[c] + IF 0 - p > 0 THEN 0 - p ELSE 0
        BY <1>8, <1>9 DEF LoyaltyInv
      <3> QED BY <1>4, <3>1
    <2>2. PaidBy(read, earned[c])
      BY <1>10 DEF ReadOf
    <2> QED BY <1>4, <1>6, <1>11, <2>1, <2>2 DEF PaidBy
  <1>13. Sound(read) => Sound(new)
    BY <1>4, <1>6, <1>11 DEF Sound
  <1>14. row.balance = read.available + row.points
    BY <1>4, <1>6, <1>8, <1>11
  <1> QED BY <1>6, <1>8, <1>9, <1>10, <1>12, <1>13, <1>14, CommitKeeps

\* The first commit of a referral.  The mark is the only column of the new
\* customer's account it writes, unless the customer refers itself.
LEMMA PayReferrerKeeps ==
  ASSUME LoyaltyInv, NEW r \in LoyaltyRequests, PayReferrer(r)
  PROVE  LoyaltyInv' /\ Ledger!Next
  <1>1. PICK q : q = requests[r]
    OBVIOUS
  <1>2. q.at = "refer" /\ RequestInv(q) /\ q.sponsor # "none" /\ q.kind = "welcome"
    <2>1. q.at = "refer" /\ RequestInv(q)
      <3>1. q.at = "refer"
        BY <1>1 DEF PayReferrer
      <3>2. q # Free
        BY <3>1 DEF Free
      <3> QED BY <1>1, <3>1, <3>2 DEF LoyaltyInv
    <2> QED BY <2>1 DEF RequestInv
  <1>3. PICK s \in Customers, c \in Customers, of \in AccountType, read \in AccountType :
           /\ s = q.sponsor /\ c = q.customer /\ of = q.sponsorRead /\ read = q.read
    BY <1>2 DEF RequestInv, Held
  <1>4. /\ ReadOf(s, of, q.sponsorSeen) /\ ReadOf(c, read, q.seen)
        /\ s = c => read = of /\ q.seen = q.sponsorSeen
        /\ q.seen \in Nat /\ q.sponsorSeen \in Nat /\ q \in Held
    BY <1>2, <1>3 DEF RequestInv, Held
  <1>5. PICK gained : gained = Gained(of, ReferrerBonus)
    OBVIOUS
  <1>6. /\ gained \in AccountType
        /\ gained.total = of.total + 2 /\ gained.available = of.available + 2
        /\ gained.redeemed = of.redeemed /\ gained.tier = TierOf(of.total + 2)
        /\ gained.referredBy = of.referredBy
    BY <1>5, GainedIs DEF ReferrerBonus
  <1>7. PICK marked : marked = Marked(read, s)
    OBVIOUS
  <1>8. marked \in AccountType /\ Agrees(marked, read) /\ marked.referredBy = s
    BY <1>7, MarkedIs
  <1>9. PICK own : own = Marked(gained, s)
    OBVIOUS
  <1>10. own \in AccountType /\ Agrees(own, gained) /\ own.referredBy = s
    BY <1>6, <1>9, MarkedIs
  <1>11. PICK row : row = [kind |-> "referrer", points |-> 2, balance |-> gained.available,
                           seen |-> q.sponsorSeen]
    OBVIOUS
  <1>12. /\ row \in Rows
         /\ row.balance = gained.available /\ row.points = 2 /\ row.seen = q.sponsorSeen
         /\ row.kind = "referrer"
    <2>1. 2 \in Movements
      BY DEF Movements, ReferrerBonus
    <2>2. gained.available \in Nat
      BY <1>6 DEF AccountType
    <2> QED BY <1>4, <1>11, <2>1, <2>2 DEF Rows, Kinds
  <1>13. /\ movements' = [movements EXCEPT ![s] = Append(@, row)]
         /\ earned' = [earned EXCEPT ![s] = @ + IF row.points > 0 THEN row.points ELSE 0]
    BY <1>1, <1>3, <1>5, <1>11, <1>12 DEF PayReferrer, Record, ReferrerBonus
  <1>14. earned[s] \in Nat /\ earned'[s] = earned[s] + 2
    BY <1>12, <1>13 DEF LoyaltyInv
  <1>15. /\ PaidBy(gained, earned'[s])
         /\ Sound(of) => Sound(gained)
    <2>1. of.total \in Nat /\ of.available \in Nat /\ of.redeemed \in Nat
      BY DEF AccountType
    <2>2. PaidBy(of, earned[s])
      BY <1>4 DEF ReadOf
    <2>3. PaidBy(gained, earned[s] + 2)
      BY <1>6, <2>2, GainIsPaid
    <2>4. Sound(of) => Sound(gained)
      BY <1>6, <2>1 DEF Sound
    <2> QED BY <1>14, <2>3, <2>4
  <1>16. row.balance = of.available + row.points /\ of.available \in Had(s)
    BY <1>4, <1>6, <1>12 DEF ReadOf
  \* The rows of the table after the commit, in the two cases.
  <1>17. PICK new \in AccountType, q1 \in Held :
           /\ Agrees(new, gained)
           /\ Written(s, of, new, row)
           /\ accounts' \in [Customers -> AccountType]
           /\ \A d \in Customers : d # s =>
                 Agrees(accounts'[d], accounts[d]) /\ accounts'[d].open = accounts[d].open
           /\ \A d \in Customers : d # c => accounts'[d].referredBy = accounts[d].referredBy
           /\ accounts'[c].referredBy = Column(accounts[c].referredBy, read.referredBy, s)
           /\ Rests(r, q1)
           /\ q1 \in Held /\ q1.at = "add" /\ q1.kind = q.kind /\ q1.customer = c
           /\ q1.points = q.points /\ q1.sponsor = s
           /\ IF s = c
              THEN /\ q1.read = new /\ new.referredBy = s
                   /\ q1.seen = IF q.seen = Len(movements[s]) THEN q.seen + 1 ELSE q.seen
              ELSE q1.read = marked /\ q1.seen = q.seen
    <2>1. CASE s = c
      <3>1. Store(s, of, own)
        BY <1>1, <1>3, <1>4, <1>5, <1>9, <2>1 DEF PayReferrer
      <3> DEFINE n == IF q.seen = Len(movements[s]) THEN q.seen + 1 ELSE q.seen
                 q1 == [q EXCEPT !.at = "add", !.read = own, !.seen = n]
      <3>2. Rests(r, q1)
        BY <1>1, <1>3, <1>4, <1>5, <1>9, <2>1 DEF PayReferrer
      <3>3. /\ q1 \in Held /\ q1.at = "add" /\ q1.kind = q.kind /\ q1.customer = c
            /\ q1.points = q.points /\ q1.sponsor = s /\ q1.read = own
            /\ q1.seen = IF q.seen = Len(movements[s]) THEN q.seen + 1 ELSE q.seen
        <4>1. n \in Nat
          BY <1>4
        <4> HIDE DEF n
        <4>2. /\ q1 \in Held /\ q1.at = "add" /\ q1.kind = q.kind /\ q1.customer = q.customer
              /\ q1.points = q.points /\ q1.sponsor = q.sponsor /\ q1.read = own /\ q1.seen = n
          BY <1>4, <1>10, <4>1 DEF Held, Stages
        <4> QED BY <1>3, <4>2 DEF n
      <3> HIDE DEF q1
      <3>4. /\ accounts' \in [Customers -> AccountType]
            /\ \A d \in Customers : d # s => accounts'[d] = accounts[d]
            /\ Written(s, of, own, row)
            /\ accounts'[s].referredBy = Column(accounts[s].referredBy, of.referredBy, s)
        BY <1>10, <1>13, <3>1, StoreIs DEF Written
      <3> QED BY <1>4, <1>10, <2>1, <3>2, <3>3, <3>4 DEF Agrees
    <2>2. CASE s # c
      <3> DEFINE q1 == [q EXCEPT !.at = "add", !.read = marked]
      <3>1. Rests(r, q1)
        BY <1>1, <1>3, <1>7, <2>2 DEF PayReferrer
      <3>2. /\ q1 \in Held /\ q1.at = "add" /\ q1.kind = q.kind /\ q1.customer = c
            /\ q1.points = q.points /\ q1.sponsor = s /\ q1.read = marked /\ q1.seen = q.seen
        BY <1>3, <1>4, <1>8 DEF Held, Stages
      <3> HIDE DEF q1
      <3>3. accounts' = [accounts EXCEPT
                 ![s].total = Column(@, of.total, gained.total),
                 ![s].available = Column(@, of.available, gained.available),
                 ![s].tier = Column(@, of.tier, gained.tier),
                 ![c].referredBy = Column(@, read.referredBy, s)]
        BY <1>1, <1>3, <1>5, <1>7, <1>8, <2>2 DEF PayReferrer
      <3>4. accounts[s] \in AccountType /\ accounts[c] \in AccountType
        BY DEF LoyaltyInv
      <3> DEFINE t == Column(accounts[s].total, of.total, gained.total)
                 v == Column(accounts[s].available, of.available, gained.available)
                 k == Column(accounts[s].tier, of.tier, gained.tier)
                 m == Column(accounts[c].referredBy, read.referredBy, s)
      <3>5. t \in Nat /\ v \in Nat /\ k \in Tiers /\ m \in Customers \cup {"none"}
        BY <1>6, <3>4 DEF Column, AccountType
      <3>6. accounts' = [accounts EXCEPT ![s] = [@ EXCEPT !.total = t, !.available = v, !.tier = k],
                                         ![c] = [@ EXCEPT !.referredBy = m]]
        BY <2>2, <3>3, <3>4 DEF LoyaltyInv, AccountType
      <3> HIDE DEF t, v, k, m
      <3>7. /\ accounts' \in [Customers -> AccountType]
            /\ \A d \in Customers : d \notin {s, c} => accounts'[d] = accounts[d]
            /\ accounts'[s] = [accounts[s] EXCEPT !.total = t, !.available = v, !.tier = k]
            /\ accounts'[c] = [accounts[c] EXCEPT !.referredBy = m]
        <4>1. /\ [accounts[s] EXCEPT !.total = t, !.available = v, !.tier = k] \in AccountType
              /\ [accounts[c] EXCEPT !.referredBy = m] \in AccountType
          BY <3>4, <3>5 DEF AccountType
        <4> QED BY <2>2, <3>6, <4>1 DEF LoyaltyInv
      <3>8. /\ accounts'[s].open = accounts[s].open /\ accounts'[s].total = t
            /\ accounts'[s].available = v /\ accounts'[s].tier = k
            /\ accounts'[s].redeemed = accounts[s].redeemed
            /\ accounts'[s].referredBy = accounts[s].referredBy
            /\ accounts'[c].open = accounts[c].open /\ Agrees(accounts'[c], accounts[c])
            /\ accounts'[c].referredBy = m
        BY <3>4, <3>7 DEF AccountType, Agrees
      <3>9. Written(s, of, gained, row)
        BY <1>6, <1>13, <3>8 DEF Written, Column, t, v, k
      <3>10. \A d \in Customers : d # s =>
                 Agrees(accounts'[d], accounts[d]) /\ accounts'[d].open = accounts[d].open
        BY <3>7, <3>8 DEF Agrees
      <3>11. \A d \in Customers : d # c => accounts'[d].referredBy = accounts[d].referredBy
        BY <3>7, <3>8
      <3> QED BY <1>6, <2>2, <3>1, <3>2, <3>7, <3>8, <3>9, <3>10, <3>11 DEF m, Agrees
    <2> QED BY <2>1, <2>2
  <1>18. /\ new.available = row.balance /\ PaidBy(new, earned'[s]) /\ (Sound(of) => Sound(new))
    BY <1>12, <1>15, <1>17 DEF Agrees, PaidBy, Sound
  \* A mark is never taken off.
  <1>19. \A d \in Customers :
            /\ accounts[d].referredBy # "none" => accounts'[d].referredBy # "none"
            /\ accounts'[d].referredBy \in {accounts[d].referredBy, s}
    BY <1>17, LoyaltyAssumption DEF Column
  <1>20. accounts'[c].referredBy # "none"
    BY <1>4, <1>17, LoyaltyAssumption DEF Column, ReadOf
  <1>21. /\ movements' \in [Customers -> Seq(Rows)]
         /\ earned' \in [Customers -> Nat]
         /\ Onward(s) /\ Balanced(s)'
         /\ Apart(s)' => Agrees(accounts'[s], new)
    BY <1>4, <1>12, <1>17, <1>18, <1>19, WrittenIsOnward
  <1>22. ASSUME NEW d \in Customers, d # s PROVE Onward(d) /\ Balanced(d)'
    <2>1. movements'[d] = movements[d] /\ earned'[d] = earned[d]
      BY <1>13, <1>22 DEF LoyaltyInv
    <2> QED BY <1>17, <1>19, <1>22, <2>1, AccountStays
  <1>23. ASSUME NEW d \in Customers PROVE AccountInv(d)'
    <2>1. AccountInv(d) /\ accounts[d] \in AccountType
      BY DEF LoyaltyInv
    <2>2. accounts[s].open /\ (d # s => movements'[d] = movements[d])
      BY <1>4, <1>13 DEF ReadOf, LoyaltyInv
    <2>3. /\ \A e \in Customers : HasKind(e, "referrer") => HasKind(e, "referrer")'
          /\ HasKind(s, "referrer")'
      BY <1>12, <1>13, KindAdded
    <2>4. HasKind(d, "welcome")' => HasKind(d, "welcome")
      BY <1>12, <1>13, KindAdded
    <2>5. PICK b : b = accounts'[d].referredBy
      OBVIOUS
    <2>6. b # "none" => HasKind(b, "referrer")'
      <3>1. CASE b = s
        BY <2>3, <3>1
      <3>2. CASE b = accounts[d].referredBy
        <4>1. b \in Customers \cup {"none"}
          BY <2>1, <3>2 DEF AccountType
        <4>2. b # "none" => HasKind(b, "referrer")
          BY <2>1, <3>2 DEF AccountInv
        <4> QED BY <2>3, <4>1, <4>2
      <3> QED BY <1>19, <2>5, <3>1, <3>2
    <2>7. (accounts[d].referredBy # "none" => HasKind(accounts[d].referredBy, "referrer"))'
      BY <2>5, <2>6 DEF HasKind
    <2>8. ~accounts'[d].open => accounts'[d] = NoAccount /\ movements'[d] = <<>>
      <3>1. accounts'[d].open <=> accounts[d].open
        BY <1>17 DEF Written
      <3>2. CASE d \in {s, c}
        BY <1>4, <3>1, <3>2 DEF ReadOf
      <3>3. CASE d \notin {s, c} /\ ~accounts[d].open
        <4>1. accounts'[d] \in AccountType
          BY <1>17
        <4>2. /\ accounts'[d].open = accounts[d].open /\ Agrees(accounts'[d], accounts[d])
              /\ accounts'[d].referredBy = accounts[d].referredBy
          BY <1>17, <3>3
        <4>3. accounts'[d] = accounts[d]
          BY <2>1, <4>1, <4>2 DEF AccountType, Agrees
        <4> QED BY <2>1, <2>2, <3>3, <4>3 DEF AccountInv
      <3> QED BY <3>1, <3>2, <3>3
    <2> QED BY <1>19, <1>21, <1>22, <2>1, <2>4, <2>7, <2>8 DEF AccountInv
  <1>24. RequestInv(q1)'
    <2>1. ReadOf(c, q1.read, q1.seen)'
      <3>1. CASE s = c
        <4>1. /\ accounts'[s].open
              /\ PaidBy(new, earned'[s])
              /\ new.available \in Had(s)'
          <5>1. accounts'[s].open
            BY <1>4, <1>17 DEF ReadOf, Written
          <5>2. Had(s)' = Had(s) \cup {row.balance}
            BY <1>12, <1>13, RowAdded
          <5> QED BY <1>18, <5>1, <5>2
        <4>2. /\ Len(movements[s]) \in Nat /\ Len(movements'[s]) = Len(movements[s]) + 1
              /\ q.seen <= Len(movements[s])
          BY <1>4, <1>12, <1>13, <3>1, RowAdded DEF ReadOf
        <4>3. q1.seen <= Len(movements'[s])
          BY <1>4, <1>17, <3>1, <4>2
        <4> QED BY <1>17, <1>20, <1>21, <3>1, <4>1, <4>3 DEF ReadOf, PaidBy, Agrees
      <3>2. CASE s # c
        <4>1. ReadOf(c, read, q.seen)'
          BY <1>4, <1>21, <1>22, <3>2, OnwardRead
        <4> QED BY <1>8, <1>17, <1>20, <3>2, <4>1 DEF ReadOf, PaidBy, Agrees
      <3> QED BY <3>1, <3>2
    <2>2. q.points \in Gains \cup Bonuses \cup {WelcomeBonus}
      BY <1>2 DEF RequestInv
    <2> QED BY <1>2, <1>17, <1>20, <2>1, <2>2, LoyaltyAssumption DEF RequestInv
  <1>25. LoyaltyInv'
    BY <1>17, <1>21, <1>22, <1>23, <1>24, OnwardKeeps
  <1>26. Ledger!Next
    BY <1>12, <1>16, <1>17, <1>18, WrittenIsPosted DEF Agrees
  <1> QED BY <1>25, <1>26

\* What a request reads now is something it may have read.
LEMMA WhatIsThere ==
  ASSUME LoyaltyInv, NEW c \in Customers, accounts[c].open
  PROVE  /\ ReadOf(c, accounts[c], Len(movements[c]))
         /\ accounts[c] \in AccountType /\ Len(movements[c]) \in Nat
  <1>1. Len(movements[c]) \in Nat /\ accounts[c] \in AccountType
    BY LenProperties DEF LoyaltyInv
  <1>2. Balanced(c)
    BY DEF LoyaltyInv, AccountInv
  <1> QED BY <1>1, <1>2 DEF ReadOf, Balanced, Agrees

LEMMA NoAccountIsOne == NoAccount \in AccountType /\ Opened \in AccountType
  <1>1. NoAccount \in AccountType
    <2>1. 0 \in Nat /\ 0 \in Tiers /\ FALSE \in BOOLEAN /\ "none" \in Customers \cup {"none"}
      BY DEF Tiers
    <2> QED BY <2>1, Zenon DEF NoAccount, AccountType
  <1>2. Opened \in AccountType
    BY <1>1 DEF Opened, AccountType
  <1> QED BY <1>1, <1>2

LEMMA StartAddKeeps ==
  ASSUME LoyaltyInv, NEW r \in LoyaltyRequests, NEW c \in Customers,
         NEW kind \in {"earn", "bonus"}, NEW p \in Gains \cup Bonuses, StartAdd(r, c, kind, p)
  PROVE  LoyaltyInv'
  <1> DEFINE stage == IF accounts[c].open THEN "add" ELSE "open"
             q == Reading(stage, kind, c, p)
  <1>1. p \in Nat /\ accounts[c] \in AccountType /\ Len(movements[c]) \in Nat
    BY LoyaltyAssumption, LenProperties DEF LoyaltyInv
  <1>2. stage \in {"add", "open"} /\ (stage = "add" => accounts[c].open)
    OBVIOUS
  <1> HIDE DEF stage
  <1>3. RequestInv(q)
    <2>1. /\ q \in Held
          /\ q.at = stage /\ q.kind = kind /\ q.customer = c /\ q.points = p
          /\ q.read = accounts[c] /\ q.seen = Len(movements[c]) /\ q.sponsor = "none"
      BY <1>1, <1>2, NoAccountIsOne DEF Reading, Held, Stages, Kinds
    <2> HIDE DEF q
    <2>2. q.at = "add" => ReadOf(q.customer, q.read, q.seen)
      BY <1>2, <2>1, WhatIsThere
    <2> QED BY <1>2, <2>1, <2>2 DEF RequestInv
  <1>4. Rests(r, q) /\ Unchanged
    BY DEF StartAdd, stage
  <1> HIDE DEF q
  <1> QED BY <1>3, <1>4, ReadingKeeps

LEMMA StartRedeemKeeps ==
  ASSUME LoyaltyInv, NEW r \in LoyaltyRequests, NEW c \in Customers, NEW p \in Redemptions,
         StartRedeem(r, c, p)
  PROVE  LoyaltyInv'
  <1> DEFINE q == Reading("redeem", "redeem", c, p)
  <1>1. p \in Nat /\ accounts[c] \in AccountType /\ Len(movements[c]) \in Nat
    BY LoyaltyAssumption, LenProperties DEF LoyaltyInv
  <1>2. /\ q \in Held
        /\ q.at = "redeem" /\ q.kind = "redeem" /\ q.customer = c /\ q.points = p
        /\ q.read = accounts[c] /\ q.seen = Len(movements[c]) /\ q.sponsor = "none"
    BY <1>1, NoAccountIsOne DEF Reading, Held, Stages, Kinds
  <1>3. Rests(r, q) /\ Unchanged /\ accounts[c].open /\ p <= accounts[c].available
    BY <1>1 DEF StartRedeem, AccountType
  <1> HIDE DEF q
  <1>4. RequestInv(q)
    BY <1>2, <1>3, WhatIsThere DEF RequestInv
  <1> QED BY <1>3, <1>4, ReadingKeeps

LEMMA StartReferralKeeps ==
  ASSUME LoyaltyInv, NEW r \in LoyaltyRequests, NEW s \in Customers, NEW c \in Customers,
         StartReferral(r, s, c)
  PROVE  LoyaltyInv'
  <1> DEFINE q == [at |-> "get", kind |-> "welcome", customer |-> c, points |-> WelcomeBonus,
                   read |-> NoAccount, seen |-> 0,
                   sponsor |-> s, sponsorRead |-> accounts[s], sponsorSeen |-> Len(movements[s])]
  <1>1. accounts[s] \in AccountType /\ Len(movements[s]) \in Nat
    BY LenProperties DEF LoyaltyInv
  <1>2. /\ q \in Held
        /\ q.at = "get" /\ q.kind = "welcome" /\ q.points = WelcomeBonus
        /\ q.sponsor = s /\ q.sponsorRead = accounts[s] /\ q.sponsorSeen = Len(movements[s])
    BY <1>1, NoAccountIsOne DEF Held, Stages, Kinds, WelcomeBonus
  <1>3. Rests(r, q) /\ Unchanged /\ accounts[s].open
    BY DEF StartReferral
  <1> HIDE DEF q
  <1>4. RequestInv(q)
    BY <1>2, <1>3, WhatIsThere, LoyaltyAssumption DEF RequestInv
  <1> QED BY <1>3, <1>4, ReadingKeeps

LEMMA GetReferredKeeps ==
  ASSUME LoyaltyInv, NEW r \in LoyaltyRequests, GetReferred(r)
  PROVE  LoyaltyInv'
  <1>1. PICK q : q = requests[r]
    OBVIOUS
  <1>2. q.at = "get" /\ RequestInv(q) /\ Unchanged
    BY <1>1 DEF GetReferred, LoyaltyInv, Free
  <1>3. PICK c \in Customers : c = q.customer
    BY <1>2 DEF RequestInv, Held
  <1>4. /\ q \in Held /\ q.kind = "welcome" /\ q.sponsor # "none"
        /\ ReadOf(q.sponsor, q.sponsorRead, q.sponsorSeen)
        /\ q.points \in Gains \cup Bonuses \cup {WelcomeBonus}
    BY <1>2 DEF RequestInv
  <1>5. CASE c = q.sponsor
    <2> DEFINE q1 == [q EXCEPT !.at = "refer", !.read = q.sponsorRead, !.seen = q.sponsorSeen]
    <2>1. Rests(r, q1)
      BY <1>1, <1>3, <1>5 DEF GetReferred
    <2>2. /\ q1 \in Held /\ q1.at = "refer" /\ q1.kind = q.kind /\ q1.customer = q.customer
          /\ q1.points = q.points /\ q1.read = q.sponsorRead /\ q1.seen = q.sponsorSeen
          /\ q1.sponsor = q.sponsor /\ q1.sponsorRead = q.sponsorRead /\ q1.sponsorSeen = q.sponsorSeen
      BY <1>4 DEF Held, Stages
    <2> HIDE DEF q1
    <2>3. RequestInv(q1)
      BY <1>3, <1>4, <1>5, <2>2 DEF RequestInv
    <2> QED BY <1>2, <2>1, <2>3, ReadingKeeps
  <1>6. CASE c # q.sponsor
    <2> DEFINE stage == IF accounts[c].open THEN "refer" ELSE "open"
               q1 == [q EXCEPT !.at = stage, !.read = accounts[c], !.seen = Len(movements[c])]
    <2>1. Rests(r, q1)
      BY <1>1, <1>3, <1>6 DEF GetReferred
    <2>2. stage \in {"refer", "open"} /\ (stage = "refer" => accounts[c].open)
      OBVIOUS
    <2>3. accounts[c] \in AccountType /\ Len(movements[c]) \in Nat
      BY LenProperties DEF LoyaltyInv
    <2> HIDE DEF stage
    <2>4. /\ q1 \in Held /\ q1.at = stage /\ q1.kind = q.kind /\ q1.customer = c
          /\ q1.points = q.points /\ q1.read = accounts[c] /\ q1.seen = Len(movements[c])
          /\ q1.sponsor = q.sponsor /\ q1.sponsorRead = q.sponsorRead /\ q1.sponsorSeen = q.sponsorSeen
      BY <1>3, <1>4, <2>2, <2>3 DEF Held, Stages
    <2> HIDE DEF q1
    <2>5. q1.at = "refer" => ReadOf(q1.customer, q1.read, q1.seen)
      BY <2>2, <2>4, WhatIsThere
    <2>6. RequestInv(q1)
      BY <1>4, <1>6, <2>2, <2>4, <2>5 DEF RequestInv
    <2> QED BY <1>2, <2>1, <2>6, ReadingKeeps
  <1> QED BY <1>5, <1>6

\* A new account is empty, and so was what was read before it was there.
LEMMA OpenAccountKeeps ==
  ASSUME LoyaltyInv, NEW r \in LoyaltyRequests, OpenAccount(r)
  PROVE  LoyaltyInv' /\ UNCHANGED movements
         /\ \A d \in Customers : accounts'[d].available = accounts[d].available
  <1>1. PICK q : q = requests[r]
    OBVIOUS
  <1>2. q.at = "open" /\ RequestInv(q)
    BY <1>1 DEF OpenAccount, LoyaltyInv, Free
  <1>3. PICK c \in Customers : c = q.customer
    BY <1>2 DEF RequestInv, Held
  <1>4. /\ ~accounts[c].open
        /\ accounts' = [accounts EXCEPT ![c] = Opened]
        /\ UNCHANGED <<movements, earned>>
    BY <1>1, <1>3 DEF OpenAccount
  <1>5. /\ accounts' \in [Customers -> AccountType]
        /\ accounts'[c] = Opened
        /\ \A d \in Customers : d # c => accounts'[d] = accounts[d]
    BY <1>4, NoAccountIsOne DEF LoyaltyInv
  <1>6. accounts[c] = NoAccount /\ movements[c] = <<>> /\ AccountInv(c)
    BY <1>4 DEF LoyaltyInv, AccountInv
  <1>7. Agrees(Opened, NoAccount) /\ Opened.open /\ Opened.referredBy = "none" /\ NoAccount.referredBy = "none"
    BY DEF Agrees, Opened, NoAccount
  <1>8. ASSUME NEW d \in Customers PROVE Onward(d) /\ AccountInv(d)'
    <2>1. Had(d)' = Had(d) /\ (Apart(d)' <=> Apart(d)) /\ earned[d] \in Nat
      BY <1>4 DEF Had, Apart, LoyaltyInv
    <2>2. AccountInv(d) /\ Agrees(accounts'[d], accounts[d])
      BY <1>5, <1>6, <1>7 DEF LoyaltyInv, Agrees
    <2>3. accounts'[d].referredBy = accounts[d].referredBy
      BY <1>5, <1>6, <1>7
    <2>4. Onward(d)
      BY <1>4, <1>5, <1>7, <2>1, <2>2, <2>3 DEF Onward
    <2>5. Balanced(d)'
      BY <1>4, <2>1, <2>2 DEF AccountInv, Balanced, Agrees, PaidBy, Sound
    <2>6. AccountInv(d)'
      BY <1>4, <1>5, <1>7, <2>2, <2>3, <2>5 DEF AccountInv, HasKind
    <2> QED BY <2>4, <2>6
  <1> DEFINE stage == IF q.sponsor = "none" THEN "add" ELSE "refer"
             q1 == [q EXCEPT !.at = stage, !.read = Opened, !.seen = 0]
  <1>9. Rests(r, q1)
    BY <1>1 DEF OpenAccount
  <1>10. stage \in {"add", "refer"} /\ (stage = "add" <=> q.sponsor = "none")
    OBVIOUS
  <1> HIDE DEF stage
  <1>11. /\ q1 \in Held /\ q1.at = stage /\ q1.kind = q.kind /\ q1.customer = c
         /\ q1.points = q.points /\ q1.read = Opened /\ q1.seen = 0
         /\ q1.sponsor = q.sponsor /\ q1.sponsorRead = q.sponsorRead /\ q1.sponsorSeen = q.sponsorSeen
    <2>1. q \in Held
      BY <1>2 DEF RequestInv
    <2> QED BY <1>3, <1>10, <2>1, NoAccountIsOne DEF Held, Stages
  <1> HIDE DEF q1
  <1>12. ReadOf(c, Opened, 0)'
    <2>1. Balanced(c)' /\ Len(movements'[c]) = 0
      BY <1>4, <1>6, <1>8 DEF AccountInv
    <2> QED BY <1>5, <1>7, <2>1 DEF ReadOf, Balanced, Agrees
  <1>13. RequestInv(q1)'
    <2>1. q.sponsor # "none" => ReadOf(q.sponsor, q.sponsorRead, q.sponsorSeen) /\ q.sponsor # c
      BY <1>2, <1>4 DEF RequestInv, ReadOf
    <2>2. q.sponsor # "none" => ReadOf(q.sponsor, q.sponsorRead, q.sponsorSeen)'
      <3>1. /\ q.sponsor \in Customers \cup {"none"}
            /\ q.sponsorRead \in AccountType /\ q.sponsorSeen \in Nat
        BY <1>2 DEF RequestInv, Held
      <3>2. earned' \in [Customers -> Nat] /\ movements' \in [Customers -> Seq(Rows)]
        BY <1>4 DEF LoyaltyInv
      <3> QED BY <1>8, <2>1, <3>1, <3>2, OnwardRead
    <2>3. q.points \in Gains \cup Bonuses \cup {WelcomeBonus} /\ (q.sponsor # "none" <=> q.kind = "welcome")
      BY <1>2 DEF RequestInv
    <2> QED BY <1>10, <1>11, <1>12, <2>1, <2>2, <2>3 DEF RequestInv
  <1>14. LoyaltyInv'
    <2>1. earned' \in [Customers -> Nat] /\ movements' \in [Customers -> Seq(Rows)]
      BY <1>4 DEF LoyaltyInv
    <2> QED BY <1>5, <1>8, <1>9, <1>13, <2>1, OnwardKeeps
  <1>15. \A d \in Customers : accounts'[d].available = accounts[d].available
    BY <1>5, <1>6, <1>7 DEF Agrees
  <1> QED BY <1>4, <1>14, <1>15

\* A step keeps the invariant, and is a movement of the ledger or none.
LEMMA LoyaltyMoves ==
  ASSUME LoyaltyInv, [LoyaltyNext]_loyaltyVars
  PROVE  /\ LoyaltyInv'
         /\ \/ Ledger!Next
            \/ /\ UNCHANGED movements
               /\ \A d \in Customers : accounts'[d].available = accounts[d].available
  <1>1. CASE UNCHANGED loyaltyVars
    <2>1. Unchanged /\ requests' = requests
      BY <1>1 DEF loyaltyVars, Unchanged
    <2>2. ASSUME NEW r \in LoyaltyRequests PROVE (requests[r] = Free \/ RequestInv(requests[r]))'
      <3>1. PICK q : q = requests[r]
        OBVIOUS
      <3>2. q = Free \/ RequestInv(q)'
        BY <2>1, <3>1, UnchangedKeeps, OnwardRequest DEF LoyaltyInv
      <3> QED BY <2>1, <3>1, <3>2 DEF RequestInv, ReadOf
    <2>3. LoyaltyInv'
      BY <2>1, <2>2, UnchangedKeeps DEF LoyaltyInv
    <2> QED BY <2>1, <2>3 DEF Unchanged
  <1>2. ASSUME NEW r \in LoyaltyRequests, NEW c \in Customers,
               \/ \E p \in Gains : StartAdd(r, c, "earn", p)
               \/ \E p \in Bonuses : StartAdd(r, c, "bonus", p)
               \/ \E p \in Redemptions : StartRedeem(r, c, p)
               \/ \E s \in Customers : StartReferral(r, s, c)
        PROVE  LoyaltyInv' /\ Unchanged
    <2>1. LoyaltyInv'
      BY <1>2, StartAddKeeps, StartRedeemKeeps, StartReferralKeeps
    <2> QED BY <1>2, <2>1 DEF StartAdd, StartRedeem, StartReferral
  <1>3. ASSUME NEW r \in LoyaltyRequests, GetReferred(r) \/ FailLoyalty(r)
        PROVE  LoyaltyInv' /\ Unchanged
    <2>1. CASE GetReferred(r)
      BY <2>1, GetReferredKeeps DEF GetReferred
    <2>2. CASE FailLoyalty(r)
      BY <2>2, ReadingKeeps DEF FailLoyalty
    <2> QED BY <1>3, <2>1, <2>2
  <1>4. ASSUME NEW r \in LoyaltyRequests, AddPoints(r) \/ PayReferrer(r) \/ CommitRedeem(r)
        PROVE  LoyaltyInv' /\ Ledger!Next
    BY <1>4, AddPointsKeeps, PayReferrerKeeps, CommitRedeemKeeps
  <1> QED BY <1>1, <1>2, <1>3, <1>4, OpenAccountKeeps DEF LoyaltyNext, Unchanged

LEMMA LoyaltyStarts == LoyaltyInit => LoyaltyInv
  <1> SUFFICES ASSUME LoyaltyInit PROVE LoyaltyInv
    OBVIOUS
  <1>1. ASSUME NEW c \in Customers PROVE AccountInv(c)
    <2>1. accounts[c] = NoAccount /\ movements[c] = <<>> /\ earned[c] = 0 /\ DOMAIN movements[c] = {}
      BY DEF LoyaltyInit
    <2>2. PaidBy(NoAccount, 0) /\ NoAccount.available = 0 /\ Sound(NoAccount) /\ NoAccount.referredBy = "none"
      BY DEF NoAccount, PaidBy, Sound, TierOf
    <2> QED BY <2>1, <2>2 DEF AccountInv, Balanced, Had, HasKind
  <1>2. \A c \in Customers : movements[c] \in Seq(Rows)
    BY EmptySeq DEF LoyaltyInit
  <1> QED BY <1>1, <1>2, NoAccountIsOne DEF LoyaltyInit, LoyaltyInv

LEMMA LoyaltyIsInvariant == LoyaltySpec => []LoyaltyInv
  BY LoyaltyStarts, LoyaltyMoves, PTL DEF LoyaltySpec

\* For any customers and requests, and points of any size: the account and its
\* log are a points ledger, whatever was lost on the way.
THEOREM AccountsAreLedgers == LoyaltySpec => ImplementsLedger
  <1>1. LoyaltyInit => Ledger!Init
    BY DEF LoyaltyInit, Ledger!Init, NoAccount
  <1>2. LoyaltyInv /\ [LoyaltyNext]_loyaltyVars
          => [Ledger!Next]_<<[c \in Customers |-> accounts[c].available],
                             [c \in Customers |->
                                [k \in DOMAIN movements[c] |->
                                   [points |-> movements[c][k].points,
                                    balance |-> movements[c][k].balance]]]>>
    <2> SUFFICES ASSUME LoyaltyInv, [LoyaltyNext]_loyaltyVars, ~Ledger!Next
                 PROVE  UNCHANGED <<[c \in Customers |-> accounts[c].available],
                             [c \in Customers |->
                                [k \in DOMAIN movements[c] |->
                                   [points |-> movements[c][k].points,
                                    balance |-> movements[c][k].balance]]]>>
      OBVIOUS
    <2>1. movements' = movements /\ \A d \in Customers : accounts'[d].available = accounts[d].available
      BY LoyaltyMoves
    <2> QED BY <2>1
  <1> QED BY <1>1, <1>2, LoyaltyIsInvariant, PTL DEF LoyaltySpec, ImplementsLedger, Ledger!Spec

\* Points are lost or counted twice, and tiers wrong, only where a request's
\* read and commit enclose another's commit.
THEOREM PointsAreLostByOverlap == LoyaltySpec => []LossNeedsOverlap
  <1>1. LoyaltyInv => LossNeedsOverlap
    BY DEF LoyaltyInv, AccountInv, Balanced, Apart, Sound, LossNeedsOverlap
  <1> QED BY <1>1, LoyaltyIsInvariant, PTL

\* However requests overlap, no balance and no tier is above what the points ever
\* added to the account would give, redemptions not taken off; what an overlap
\* gives back of the points redeemed stays within that.
THEOREM TiersAreEarned == LoyaltySpec => []TierWasEarned
  <1>1. LoyaltyInv => TierWasEarned
    BY DEF LoyaltyInv, AccountInv, Balanced, PaidBy, TierWasEarned
  <1> QED BY <1>1, LoyaltyIsInvariant, PTL

\* Who got the welcome bonus is marked, with someone who got the referrer's.
THEOREM WelcomesAreReferred == LoyaltySpec => []WelcomeIsReferred
  <1>1. LoyaltyInv => WelcomeIsReferred
    BY DEF LoyaltyInv, AccountInv, HasKind, WelcomeIsReferred
  <1> QED BY <1>1, LoyaltyIsInvariant, PTL
=============================================================================
