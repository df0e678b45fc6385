---------------------------- MODULE StoreProofs -----------------------------
(***************************************************************************)
(* Proofs about the shop's tables: orders and their audit log, stock, and  *)
(* then all of them together with the points, for any orders, numbers,     *)
(* products, requests at once, statuses and quantities, and logs of any    *)
(* length.                                                                 *)
(***************************************************************************)
EXTENDS MCStore, LoyaltyProofs

USE OrdersAssumption DEF OrdersAssumption

-----------------------------------------------------------------------------
(* The orders: what the first entries of a log lead to, in the order of    *)
(* their commits.                                                          *)

MovesTo(h, n) == Moves(h) \cap (1..n)
LastMove(h, n, k) == k \in MovesTo(h, n) /\ \A j \in MovesTo(h, n) : j <= k

LeadsBy(h, n, s) == \/ MovesTo(h, n) = {} /\ s = "pending"
                    \/ \E k \in DOMAIN h : LastMove(h, n, k) /\ s = h[k].new

\* What a request knows that read status s when the log had n entries, and took
\* the time t afterwards.
Read(h, n, s) == n \in 0..Len(h) /\ LeadsBy(h, n, s)
ReadBy(h, n, s, t) == Read(h, n, s) /\ \A j \in 1..n : h[j].changedAt < t

LEMMA EntryTypes ==
  ASSUME NEW h \in Seq(Entries)
  PROVE  /\ Len(h) \in Nat /\ DOMAIN h = 1..Len(h)
         /\ \A k \in DOMAIN h : h[k].changedAt \in Nat /\ h[k].seen \in Nat
  <1>1. \A k \in DOMAIN h : h[k] \in Entries
    OBVIOUS
  <1>. QED  BY <1>1 DEF Entries

\* More entries take nothing from what was read.
LEMMA ReadsLast ==
  ASSUME NEW h \in Seq(Entries), NEW g \in Seq(Entries), Len(h) <= Len(g),
         \A k \in 1..Len(h) : g[k] = h[k], NEW n, NEW s, Read(h, n, s)
  PROVE  Read(g, n, s)
  <1>1. /\ n \in Nat /\ Len(h) \in Nat /\ Len(g) \in Nat /\ n <= Len(h)
        /\ DOMAIN h = 1..Len(h) /\ DOMAIN g = 1..Len(g)
    BY DEF Read
  <1>2. MovesTo(g, n) = MovesTo(h, n)
    BY <1>1 DEF MovesTo, Moves
  <1>3. \A k \in DOMAIN h : k \in DOMAIN g /\ g[k] = h[k]
    BY <1>1
  <1>. QED  BY <1>1, <1>2, <1>3 DEF Read, LeadsBy, LastMove

LEMMA ReadsLastBy ==
  ASSUME NEW h \in Seq(Entries), NEW g \in Seq(Entries), Len(h) <= Len(g),
         \A k \in 1..Len(h) : g[k] = h[k], NEW n, NEW s, NEW t, ReadBy(h, n, s, t)
  PROVE  ReadBy(g, n, s, t)
  <1>1. Read(g, n, s)
    BY ReadsLast DEF ReadBy
  <1>2. n \in Nat /\ n <= Len(h) /\ Len(h) \in Nat
    BY DEF ReadBy, Read
  <1>. QED  BY <1>1, <1>2 DEF ReadBy

\* What one more entry makes of the status.
LEMMA LeadsOn ==
  ASSUME NEW h \in Seq(Entries), NEW e \in Entries, NEW s, LeadsBy(h, Len(h), s)
  PROVE  LeadsBy(Append(h, e), Len(h) + 1, IF e.new = e.previous THEN s ELSE e.new)
  <1> DEFINE g == Append(h, e)
             n == Len(h)
  <1>1. /\ n \in Nat /\ DOMAIN h = 1..n /\ DOMAIN g = 1..(n + 1)
        /\ g[n + 1] = e /\ \A k \in DOMAIN h : g[k] = h[k]
    OBVIOUS
  <1> HIDE DEF g, n
  <1>2. CASE e.new = e.previous
    <2>1. MovesTo(g, n + 1) = MovesTo(h, n)
      BY <1>1, <1>2 DEF MovesTo, Moves
    <2>2. \A k \in DOMAIN h : k \in DOMAIN g
      BY <1>1
    <2>. QED  BY <1>1, <1>2, <2>1, <2>2 DEF LeadsBy, LastMove, g, n
  <1>3. CASE e.new # e.previous
    <2>1. n + 1 \in MovesTo(g, n + 1)
      BY <1>1, <1>3 DEF MovesTo, Moves
    <2>2. LastMove(g, n + 1, n + 1)
      BY <1>1, <2>1 DEF LastMove, MovesTo
    <2>. QED  BY <1>1, <1>3, <2>2 DEF LeadsBy, g, n
  <1>. QED  BY <1>2, <1>3

-----------------------------------------------------------------------------
(* The invariant.                                                          *)

\* The status is where the log leads as it was committed, and each entry is of a
\* request that read where an earlier part of it led, and took its time later
\* than all of that part had.
LogInv(h, s) ==
    /\ LeadsBy(h, Len(h), s)
    /\ \A k \in DOMAIN h : h[k].seen < k /\ ReadBy(h, h[k].seen, h[k].previous, h[k].changedAt)

OrderInv(o) ==
    /\ orders[o] \in OrderType /\ clock[o] \in Nat
    /\ LogInv(orders[o].history, orders[o].status)
    /\ \A k \in DOMAIN orders[o].history : orders[o].history[k].changedAt <= clock[o]
    /\ orders[o].number = "none" => orders[o].history = <<>>

\* A request that changes a status has read an order that is there.
WriterInv(w) ==
    LET q == writers[w] IN
    \/ q = NoRequest
    \/ q.at = "create" /\ q.order \in Orders /\ q.number \in Numbers
    \/ /\ q \in Changes
       /\ Exists(q.order)
       /\ Read(orders[q.order].history, q.seen, q.read)
       /\ q.at = "timed" =>
             /\ q.changedAt <= clock[q.order]
             /\ ReadBy(orders[q.order].history, q.seen, q.read, q.changedAt)

\* A request that creates an order is the only one and has it to itself.
Alone ==
    \A w \in OrderRequests :
        writers[w].at = "create" =>
            /\ ~Exists(writers[w].order)
            /\ \A v \in OrderRequests \ {w} : writers[v].at = "create"
                                              => writers[v].order # writers[w].order

OrdersInv ==
    /\ orders \in [Orders -> OrderType] /\ clock \in [Orders -> Nat]
    /\ DOMAIN writers = OrderRequests
    /\ writers = [w \in OrderRequests |-> writers[w]]
    /\ told \subseteq Orders
    /\ \A o \in Orders : OrderInv(o)
    /\ \A w \in OrderRequests : WriterInv(w)
    /\ Alone

LEMMA OrdersStart == OrdersInit => OrdersInv
  <1> SUFFICES ASSUME OrdersInit PROVE OrdersInv
    OBVIOUS
  <1>1. /\ "pending" \in Statuses /\ <<>> \in Seq(Entries) /\ DOMAIN <<>> = {}
        /\ Len(<<>>) = 0 /\ {} \in SUBSET Stamped
    BY DEF Statuses
  <1>2. NoOrder \in OrderType
    BY <1>1 DEF NoOrder, OrderType
  <1>3. LogInv(<<>>, "pending")
    BY <1>1 DEF LogInv, LeadsBy, MovesTo, Moves
  <1>4. \A o \in Orders : orders[o] = NoOrder /\ OrderInv(o)
    BY <1>1, <1>2, <1>3 DEF OrdersInit, OrderInv, NoOrder
  <1>5. \A w \in OrderRequests : writers[w] = NoRequest /\ writers[w].at = "idle"
    BY DEF OrdersInit, NoRequest
  <1>6. /\ orders \in [Orders -> OrderType] /\ clock \in [Orders -> Nat]
        /\ DOMAIN writers = OrderRequests
        /\ writers = [w \in OrderRequests |-> writers[w]] /\ told \subseteq Orders
    BY <1>2 DEF OrdersInit
  <1>. QED  BY <1>4, <1>5, <1>6 DEF OrdersInv, WriterInv, Alone

-----------------------------------------------------------------------------
(* The requests.                                                           *)

\* A step of request w that leaves the orders alone.
LEMMA WriterMoves ==
  ASSUME OrdersInv, UNCHANGED orders, told' \subseteq Orders,
         clock' \in [Orders -> Nat], \A o \in Orders : clock[o] <= clock'[o],
         NEW w \in OrderRequests, NEW q, writers' = [writers EXCEPT ![w] = q],
         WriterInv(w)',
         q.at = "create" =>
            ~Exists(q.order) /\ \A v \in OrderRequests : writers[v].at = "create"
                                                       => writers[v].order # q.order
  PROVE  OrdersInv'
  <1>1. writers'[w] = q /\ \A v \in OrderRequests \ {w} : writers'[v] = writers[v]
    BY DEF OrdersInv
  <1>2. /\ orders' \in [Orders -> OrderType] /\ DOMAIN writers' = OrderRequests
        /\ writers' = [v \in OrderRequests |-> writers'[v]]
    BY DEF OrdersInv
  <1>3. ASSUME NEW o \in Orders PROVE OrderInv(o)'
    <2>1. /\ OrderInv(o) /\ clock[o] \in Nat /\ clock'[o] \in Nat /\ clock[o] <= clock'[o]
          /\ orders[o].history \in Seq(Entries)
      BY DEF OrdersInv, OrderType
    <2>2. \A k \in DOMAIN orders[o].history : orders[o].history[k].changedAt \in Nat
      BY <2>1, EntryTypes
    <2>. QED  BY <2>1, <2>2 DEF OrderInv
  <1>4. ASSUME NEW v \in OrderRequests \ {w} PROVE WriterInv(v)'
    <2>1. WriterInv(v) /\ writers'[v] = writers[v]
      BY <1>1 DEF OrdersInv
    <2>2. CASE writers[v] = NoRequest \/ writers[v].at = "create"
      BY <2>1, <2>2 DEF WriterInv, NoRequest, Changes
    <2>3. CASE writers[v] \in Changes
      <3>1. writers[v].order \in Orders /\ writers[v].changedAt \in Nat
        BY <2>3 DEF Changes
      <3>2. clock[writers[v].order] \in Nat /\ clock'[writers[v].order] \in Nat
            /\ clock[writers[v].order] <= clock'[writers[v].order]
        BY <3>1 DEF OrdersInv
      <3>. QED  BY <2>1, <2>3, <3>1, <3>2 DEF WriterInv, Exists, NoRequest
    <2>. QED  BY <2>1, <2>2, <2>3 DEF WriterInv
  <1>5. Alone'
    BY <1>1 DEF OrdersInv, Alone, Exists
  <1>. QED  BY <1>2, <1>3, <1>4, <1>5 DEF OrdersInv

LEMMA StartCreateKeeps ==
  ASSUME OrdersInv, NEW w \in OrderRequests, NEW o \in Orders, NEW n \in Numbers, StartCreate(w, o, n)
  PROVE  OrdersInv'
  <1> DEFINE q == [at |-> "create", order |-> o, number |-> n]
  <1>1. /\ writers' = [writers EXCEPT ![w] = q] /\ UNCHANGED <<orders, told, clock>>
        /\ ~Exists(o)
        /\ \A v \in OrderRequests : writers[v].at = "create" => writers[v].order # o
    BY DEF StartCreate, Begins
  <1>2. q.at = "create" /\ q.order = o /\ q.number = n
    OBVIOUS
  <1>3. writers'[w] = q
    BY <1>1 DEF OrdersInv
  <1> HIDE DEF q
  <1>4. WriterInv(w)'
    BY <1>2, <1>3 DEF WriterInv
  <1>5. told' \subseteq Orders /\ clock' \in [Orders -> Nat] /\ \A p \in Orders : clock[p] <= clock'[p]
    BY <1>1 DEF OrdersInv
  <1>. QED  BY <1>1, <1>2, <1>4, <1>5, WriterMoves

\* An administrator's update and the voice agent's cancellation read alike.
LEMMA ReadsKeep ==
  ASSUME OrdersInv, NEW w \in OrderRequests, NEW o \in Orders, NEW s \in Statuses,
         NEW kind \in {"update", "voice"}, Exists(o), Begins(w, ReadFor(kind, o, s)),
         UNCHANGED <<orders, told, clock>>
  PROVE  OrdersInv'
  <1> DEFINE q == ReadFor(kind, o, s)
  <1>0. orders[o].status \in Statuses /\ Len(orders[o].history) \in Nat
    BY DEF OrdersInv, OrderType
  <1>1. /\ q.at = kind /\ q.order = o /\ q.read = orders[o].status
        /\ q.seen = Len(orders[o].history) /\ q \in Changes
    BY <1>0 DEF ReadFor, Changes
  <1>2. writers' = [writers EXCEPT ![w] = q] /\ writers'[w] = q
    BY DEF OrdersInv, Begins
  <1>3. /\ orders[o].status \in Statuses /\ Len(orders[o].history) \in Nat
        /\ Read(orders[o].history, Len(orders[o].history), orders[o].status)
    BY DEF OrdersInv, OrderType, OrderInv, LogInv, Read
  <1> HIDE DEF q
  <1>4. WriterInv(w)'
    BY <1>1, <1>2, <1>3 DEF WriterInv, Exists
  <1>5. told' \subseteq Orders /\ clock' \in [Orders -> Nat] /\ \A p \in Orders : clock[p] <= clock'[p]
    BY DEF OrdersInv
  <1>. QED  BY <1>1, <1>2, <1>4, <1>5, WriterMoves

\* The time taken is later than that of any change that was committed.
LEMMA TakeTimeKeeps ==
  ASSUME OrdersInv, NEW w \in OrderRequests, TakeTime(w)
  PROVE  OrdersInv'
  <1> DEFINE q == writers[w]
             o == q.order
             h == orders[o].history
             t == clock[o] + 1
             r == [q EXCEPT !.at = "timed", !.changedAt = t]
  <1>1. /\ q.at = "update" /\ clock' = [clock EXCEPT ![o] = t] /\ UNCHANGED <<orders, told>>
        /\ writers' = [writers EXCEPT ![w] = r] /\ writers'[w] = r
    BY DEF TakeTime, OrdersInv
  <1>2. q \in Changes /\ o \in Orders /\ Exists(o) /\ Read(h, q.seen, q.read)
    BY <1>1 DEF OrdersInv, WriterInv, NoRequest, Changes
  <1>3. /\ clock[o] \in Nat /\ t \in Nat /\ clock'[o] = t
        /\ h \in Seq(Entries) /\ \A k \in DOMAIN h : h[k].changedAt <= clock[o]
    BY <1>1, <1>2 DEF OrdersInv, OrderInv, OrderType
  <1>4. \A k \in DOMAIN h : h[k].changedAt \in Nat /\ h[k].changedAt < t
    <2> HIDE DEF h
    <2>1. \A k \in DOMAIN h : h[k].changedAt \in Nat
      BY <1>3, EntryTypes
    <2>. QED  BY <1>3, <2>1
  <1>5. ReadBy(h, q.seen, q.read, t)
    <2> HIDE DEF h, t
    <2>1. \A j \in 1..q.seen : j \in DOMAIN h
      BY <1>2, <1>3 DEF Read
    <2>. QED  BY <1>2, <1>4, <2>1 DEF ReadBy
  <1>6. WriterInv(w)'
    <2>1. r \in Changes /\ r.at = "timed" /\ r.changedAt = t /\ r.order = o
          /\ r.read = q.read /\ r.seen = q.seen
      BY <1>2, <1>3 DEF Changes
    <2> HIDE DEF r
    <2>. QED  BY <1>1, <1>2, <1>3, <1>5, <2>1 DEF WriterInv, Exists
  <1>7. told' \subseteq Orders /\ clock' \in [Orders -> Nat] /\ \A p \in Orders : clock[p] <= clock'[p]
    BY <1>1, <1>3 DEF OrdersInv
  <1>8. r.at # "create"
    BY <1>1
  <1> HIDE DEF r
  <1>. QED  BY <1>1, <1>6, <1>7, <1>8, WriterMoves

\* The voice agent's handler, and a request that fails, change no order.
LEMMA EndsKeep ==
  ASSUME OrdersInv, NEW w \in OrderRequests, TellCancelled(w) \/ FailOrder(w)
  PROVE  OrdersInv'
  <1>1. UNCHANGED <<orders, clock>> /\ writers' = [writers EXCEPT ![w] = NoRequest]
    BY DEF TellCancelled, FailOrder, Ends
  <1>2. told' \subseteq Orders
    BY DEF TellCancelled, FailOrder, OrdersInv, WriterInv, NoRequest, Changes
  <1>3. WriterInv(w)' /\ NoRequest.at # "create"
    BY <1>1 DEF WriterInv, OrdersInv, NoRequest
  <1>4. clock' \in [Orders -> Nat] /\ \A p \in Orders : clock[p] <= clock'[p]
    BY <1>1 DEF OrdersInv
  <1>. QED  BY <1>1, <1>2, <1>3, <1>4, WriterMoves

-----------------------------------------------------------------------------
(* The commits.                                                            *)

\* One more entry, of a request that read where a part of the log led and took
\* its time after it.
LEMMA LogOn ==
  ASSUME NEW h \in Seq(Entries), NEW e \in Entries, NEW s, LogInv(h, s),
         ReadBy(h, e.seen, e.previous, e.changedAt)
  PROVE  LogInv(Append(h, e), IF e.new = e.previous THEN s ELSE e.new)
  <1> DEFINE g == Append(h, e)
             s1 == IF e.new = e.previous THEN s ELSE e.new
  <1>1. /\ Len(h) \in Nat /\ DOMAIN h = 1..Len(h) /\ g \in Seq(Entries) /\ Len(g) = Len(h) + 1
        /\ DOMAIN g = 1..(Len(h) + 1)
        /\ g[Len(h) + 1] = e /\ \A k \in 1..Len(h) : g[k] = h[k]
    OBVIOUS
  <1>2. LeadsBy(g, Len(g), s1)
    BY <1>1, LeadsOn DEF LogInv
  <1> HIDE DEF g, s1
  <1>3. ASSUME NEW k \in DOMAIN g
        PROVE  g[k].seen < k /\ ReadBy(g, g[k].seen, g[k].previous, g[k].changedAt)
    <2>1. CASE k = Len(h) + 1
      <3>1. g[k] = e /\ ReadBy(g, e.seen, e.previous, e.changedAt)
        BY <1>1, <2>1, ReadsLastBy
      <3>2. e.seen < k
        BY <1>1, <2>1 DEF ReadBy, Read
      <3>. QED  BY <3>1, <3>2
    <2>2. CASE k \in DOMAIN h
      <3>1. h[k].seen < k /\ ReadBy(h, h[k].seen, h[k].previous, h[k].changedAt) /\ g[k] = h[k]
        BY <1>1, <2>2 DEF LogInv
      <3>. QED  BY <1>1, <3>1, ReadsLastBy
    <2>. QED  BY <1>1, <2>1, <2>2
  <1>. QED  BY <1>2, <1>3 DEF LogInv, g, s1

\* A row that may take another's place: its log is the other's, or goes on.
Follows(row, o) ==
    /\ row \in OrderType /\ row.number # "none"
    /\ LogInv(row.history, row.status)
    /\ \A k \in DOMAIN row.history : row.history[k].changedAt <= clock[o]
    /\ Len(orders[o].history) <= Len(row.history)
    /\ \A k \in 1..Len(orders[o].history) : row.history[k] = orders[o].history[k]

\* Request w ends with row o changed, and nobody is about to create it.
LEMMA OrderCommitKeeps ==
  ASSUME OrdersInv, NEW w \in OrderRequests, NEW o \in Orders, NEW row, Follows(row, o),
         orders' = [orders EXCEPT ![o] = row], UNCHANGED <<told, clock>>,
         writers' = [writers EXCEPT ![w] = NoRequest],
         \A v \in OrderRequests \ {w} : writers[v].at = "create" => writers[v].order # o
  PROVE  OrdersInv'
  <1>0. /\ row \in OrderType /\ row.number # "none" /\ LogInv(row.history, row.status)
        /\ \A k \in DOMAIN row.history : row.history[k].changedAt <= clock[o]
        /\ Len(orders[o].history) <= Len(row.history)
        /\ \A k \in 1..Len(orders[o].history) : row.history[k] = orders[o].history[k]
    BY DEF Follows
  <1>1. /\ writers'[w] = NoRequest /\ NoRequest.at = "idle"
        /\ \A v \in OrderRequests \ {w} : writers'[v] = writers[v]
        /\ orders'[o] = row /\ \A p \in Orders \ {o} : orders'[p] = orders[p]
    BY DEF OrdersInv, NoRequest
  <1>2. /\ orders' \in [Orders -> OrderType] /\ clock' \in [Orders -> Nat]
        /\ DOMAIN writers' = OrderRequests
        /\ writers' = [v \in OrderRequests |-> writers'[v]] /\ told' \subseteq Orders
    BY <1>0 DEF OrdersInv
  <1>3. \A p \in Orders : OrderInv(p)'
    BY <1>0, <1>1 DEF OrdersInv, OrderInv
  <1>4. orders[o].history \in Seq(Entries) /\ row.history \in Seq(Entries)
    BY <1>0 DEF OrdersInv, OrderType
  <1>5. ASSUME NEW v \in OrderRequests PROVE WriterInv(v)'
    <2>1. CASE v = w
      BY <1>1, <2>1 DEF WriterInv
    <2>2. CASE v # w
      <3>1. WriterInv(v) /\ writers'[v] = writers[v]
        BY <1>1, <2>2 DEF OrdersInv
      <3>2. CASE writers[v] = NoRequest \/ writers[v].at = "create"
        BY <3>1, <3>2, <1>1 DEF WriterInv, NoRequest, Changes
      <3>3. CASE writers[v] \in Changes
        <4> DEFINE q == writers[v]
                   h == orders[q.order].history
                   g == orders'[q.order].history
        <4>1. /\ q \in Changes /\ q.at \in {"update", "timed", "voice"} /\ q.order \in Orders
              /\ Exists(q.order) /\ Read(h, q.seen, q.read)
              /\ q.at = "timed" => /\ q.changedAt <= clock[q.order]
                                   /\ ReadBy(h, q.seen, q.read, q.changedAt)
          BY <3>1, <3>3 DEF WriterInv, NoRequest, Changes
        <4>2. CASE q.order # o
          BY <1>1, <3>1, <4>1, <4>2 DEF WriterInv, Exists
        <4>3. CASE q.order = o
          <5>1. h = orders[o].history /\ g = row.history
            BY <1>1, <4>3
          <5> HIDE DEF h, g
          <5>2. /\ Read(g, q.seen, q.read)
                /\ q.at = "timed" => ReadBy(g, q.seen, q.read, q.changedAt)
            BY <1>0, <1>4, <4>1, <5>1, ReadsLast, ReadsLastBy
          <5>3. Exists(q.order)'
            BY <1>0, <1>1, <3>1, <4>3 DEF Exists
          <5>. QED  BY <3>1, <4>1, <5>2, <5>3 DEF WriterInv, g
        <4>. QED  BY <4>2, <4>3
      <3>. QED  BY <3>1, <3>2, <3>3 DEF WriterInv
    <2>. QED  BY <2>1, <2>2
  <1>6. Alone'
    BY <1>0, <1>1 DEF OrdersInv, Alone, Exists, NoRequest
  <1>. QED  BY <1>2, <1>3, <1>5, <1>6 DEF OrdersInv

LEMMA CommitCreateKeeps ==
  ASSUME OrdersInv, NEW w \in OrderRequests, CommitCreate(w)
  PROVE  OrdersInv'
  <1> DEFINE o == writers[w].order
             n == writers[w].number
             e == [previous |-> "pending", new |-> "pending", changedAt |-> 0, seen |-> 0]
             row == [number |-> n, status |-> "pending", stamps |-> {}, history |-> <<e>>]
  <1>1. /\ writers[w].at = "create"
        /\ orders' = [orders EXCEPT ![o] = row] /\ UNCHANGED <<told, clock>>
        /\ writers' = [writers EXCEPT ![w] = NoRequest]
    BY DEF CommitCreate, Insert, Ends
  <1>2. o \in Orders /\ n \in Numbers /\ ~Exists(o) /\ clock[o] \in Nat
        /\ \A v \in OrderRequests \ {w} : writers[v].at = "create" => writers[v].order # o
    BY <1>1 DEF OrdersInv, WriterInv, Alone, NoRequest, Changes
  <1>3. e \in Entries /\ e.previous = e.new /\ e.seen = 0 /\ e.changedAt = 0
        /\ e.previous = "pending" /\ <<e>> \in Seq(Entries) /\ Len(<<e>>) = 1
        /\ DOMAIN <<e>> = {1} /\ <<e>>[1] = e
    BY DEF Entries, Statuses
  <1>4. row \in OrderType /\ row.number # "none" /\ row.history = <<e>> /\ row.status = "pending"
    BY <1>2, <1>3 DEF OrderType, Statuses
  <1> HIDE DEF row, o, n, e
  <1>5. LogInv(<<e>>, "pending")
    <2>1. Moves(<<e>>) = {}
      BY <1>3 DEF Moves
    <2>2. \A m : LeadsBy(<<e>>, m, "pending")
      BY <2>1 DEF LeadsBy, MovesTo
    <2>3. ReadBy(<<e>>, 0, "pending", 0)
      BY <1>3, <2>2 DEF ReadBy, Read
    <2>. QED  BY <1>3, <2>2, <2>3 DEF LogInv
  <1>6. Len(orders[o].history) = 0
    BY <1>2 DEF OrdersInv, OrderInv, Exists
  <1>7. Follows(row, o)
    BY <1>2, <1>3, <1>4, <1>5, <1>6 DEF Follows
  <1>. QED  BY <1>1, <1>2, <1>7, OrderCommitKeeps

LEMMA CommitUpdateKeeps ==
  ASSUME OrdersInv, NEW w \in OrderRequests, CommitUpdate(w)
  PROVE  OrdersInv'
  <1> DEFINE q == writers[w]
             o == q.order
             h == orders[o].history
             e == [previous |-> q.read, new |-> q.new, changedAt |-> q.changedAt, seen |-> q.seen]
             row == Changed(orders[o], q)
  <1>1. /\ q.at = "timed"
        /\ orders' = [orders EXCEPT ![o] = Changed(@, q)] /\ UNCHANGED <<told, clock>>
        /\ writers' = [writers EXCEPT ![w] = NoRequest]
    BY DEF CommitUpdate, Ends
  <1>2. /\ q \in Changes /\ Exists(o) /\ ReadBy(h, q.seen, q.read, q.changedAt)
        /\ q.changedAt <= clock[o]
    BY <1>1 DEF OrdersInv, WriterInv, NoRequest
  <1>3. /\ o \in Orders /\ q.read \in Statuses /\ q.new \in Statuses /\ q.seen \in Nat
        /\ q.changedAt \in Nat
    BY <1>2 DEF Changes
  <1>4. orders[o] \in OrderType /\ LogInv(h, orders[o].status)
        /\ \A k \in DOMAIN h : h[k].changedAt <= clock[o]
    BY <1>3 DEF OrdersInv, OrderInv
  <1>5. /\ row.number = orders[o].number
        /\ row.status = IF q.new = q.read THEN orders[o].status ELSE q.new
        /\ row.stamps = orders[o].stamps \cup ({q.new} \cap Stamped)
        /\ row.history = Append(h, e)
        /\ row = [number |-> row.number, status |-> row.status, stamps |-> row.stamps,
                  history |-> row.history]
    BY DEF Changed
  <1>6. /\ e \in Entries /\ e.previous = q.read /\ e.new = q.new /\ e.seen = q.seen
        /\ e.changedAt = q.changedAt /\ h \in Seq(Entries) /\ orders[o].number # "none"
        /\ orders[o].number \in Numbers \cup {"none"}
        /\ orders[o].status \in Statuses /\ orders[o].stamps \in SUBSET Stamped
    BY <1>2, <1>3, <1>4 DEF Entries, OrderType, Exists
  <1>7. orders' = [orders EXCEPT ![o] = row]
    BY <1>1
  <1> HIDE DEF row, e, h
  <1>8. /\ row.history \in Seq(Entries) /\ Len(h) <= Len(row.history)
        /\ \A k \in 1..Len(h) : row.history[k] = h[k]
        /\ \A k \in DOMAIN row.history : row.history[k].changedAt <= clock[o]
    BY <1>2, <1>4, <1>5, <1>6
  <1>9. row \in OrderType /\ row.number # "none"
    BY <1>3, <1>5, <1>6, <1>8 DEF OrderType
  <1>10. LogInv(row.history, row.status)
    BY <1>2, <1>4, <1>5, <1>6, LogOn
  <1>11. \A v \in OrderRequests \ {w} : writers[v].at = "create" => writers[v].order # o
    BY <1>2 DEF OrdersInv, Alone
  <1>12. Follows(row, o)
    BY <1>8, <1>9, <1>10 DEF Follows, h
  <1> HIDE DEF o
  <1>. QED  BY <1>1, <1>3, <1>7, <1>11, <1>12, OrderCommitKeeps

LEMMA OrdersMove == ASSUME OrdersInv, [OrdersNext]_ordersVars PROVE OrdersInv'
  <1>1. ASSUME NEW w \in OrderRequests, NEW o \in Orders, NEW s \in Updates,
               StartUpdate(w, o, s)
        PROVE  OrdersInv'
    BY <1>1, ReadsKeep DEF StartUpdate
  <1>2. ASSUME NEW w \in OrderRequests, NEW o \in Orders, StartVoiceCancel(w, o)
        PROVE  OrdersInv'
    BY <1>2, ReadsKeep DEF StartVoiceCancel, Statuses
  <1>3. CASE OrdersNext
    BY <1>1, <1>2, <1>3, StartCreateKeeps, TakeTimeKeeps, CommitCreateKeeps, CommitUpdateKeeps,
       EndsKeep
       DEF OrdersNext
  <1>4. CASE UNCHANGED ordersVars
    BY <1>4 DEF ordersVars, OrdersInv, OrderInv, WriterInv, Alone, Exists
  <1>. QED  BY <1>3, <1>4

LEMMA OrdersAreInvariant == OrdersSpec => []OrdersInv
  BY OrdersStart, OrdersMove, PTL DEF OrdersSpec

-----------------------------------------------------------------------------
(* The theorems about the orders.                                          *)

\* The change that the log shows last is the one committed last, unless that one
\* took its time before it and so had not seen it.
LEMMA LatestOrOvertaken ==
  ASSUME NEW h \in Seq(Entries), NEW s, LogInv(h, s),
         NEW k \in Moves(h), IsLatest(h, k, Moves(h))
  PROVE  s = h[k].new \/ \E j \in Moves(h) : k < j /\ h[j].seen < k
  <1>1. /\ Len(h) \in Nat /\ DOMAIN h = 1..Len(h) /\ Moves(h) \subseteq DOMAIN h
        /\ MovesTo(h, Len(h)) = Moves(h)
        /\ \A j \in DOMAIN h : h[j].changedAt \in Nat /\ h[j].seen \in Nat
    BY EntryTypes DEF MovesTo, Moves
  <1>2. PICK m \in DOMAIN h : LastMove(h, Len(h), m) /\ s = h[m].new
    BY <1>1 DEF LogInv, LeadsBy
  <1>3. m \in Moves(h) /\ k <= m /\ h[m].changedAt <= h[k].changedAt
    BY <1>1, <1>2 DEF LastMove, IsLatest
  <1>4. CASE k < m
    <2>1. \A j \in 1..h[m].seen : h[j].changedAt < h[m].changedAt
      BY <1>3 DEF LogInv, ReadBy
    <2>2. ~(k <= h[m].seen)
      BY <1>1, <1>3, <2>1
    <2>. QED  BY <1>1, <1>3, <1>4, <2>2
  <1>. QED  BY <1>1, <1>2, <1>3, <1>4

\* However updates overlap and in whatever order they commit, the order is in
\* the status of the change that its log shows last, or that change had a later
\* one committed that had not read it (update_status, add_status_history).
THEOREM LogLeadsToStatus == OrdersSpec => []StatusIsLastChange
  <1>1. OrdersInv => StatusIsLastChange
    <2> SUFFICES ASSUME OrdersInv, NEW o \in Orders
                 PROVE  LET h == orders[o].history IN
                        /\ Moves(h) = {} => orders[o].status = "pending"
                        /\ \A k \in Moves(h) : IsLatest(h, k, Moves(h)) =>
                              \/ orders[o].status = h[k].new
                              \/ \E j \in Moves(h) : k < j /\ h[j].seen < k
      BY DEF StatusIsLastChange
    <2>1. orders[o].history \in Seq(Entries) /\ LogInv(orders[o].history, orders[o].status)
      BY DEF OrdersInv, OrderInv, OrderType
    <2>2. Moves(orders[o].history) = {} => orders[o].status = "pending"
      BY <2>1 DEF LogInv, LeadsBy, LastMove, MovesTo
    <2>. QED  BY <2>1, <2>2, LatestOrOvertaken
  <1>. QED  BY OrdersAreInvariant, <1>1, PTL

\* Of entries no two of which overlapped, each had seen all that the log shows
\* before it.
LEMMA NoOverlapSeesAll ==
  ASSUME NEW h \in Seq(Entries), NEW s, LogInv(h, s), NEW k \in DOMAIN h,
         \A i, j \in Before(h, k) \cup {k} : ~Overlapped(h, i, j)
  PROVE  /\ Before(h, k) = 1..h[k].seen
         /\ \A i, j \in Before(h, k) : i < j => h[i].changedAt < h[j].changedAt
  <1>1. /\ Len(h) \in Nat /\ DOMAIN h = 1..Len(h)
        /\ \A j \in DOMAIN h : h[j].changedAt \in Nat /\ h[j].seen \in Nat
    BY EntryTypes
  <1>2. \A j \in DOMAIN h : /\ h[j].seen < j
                            /\ \A i \in 1..h[j].seen : h[i].changedAt < h[j].changedAt
    BY DEF LogInv, ReadBy
  <1>3. 1..h[k].seen \subseteq Before(h, k)
    BY <1>1, <1>2 DEF Before
  <1>4. ASSUME NEW j \in Before(h, k), j > h[k].seen PROVE FALSE
    <2>1. j \in DOMAIN h /\ h[j].changedAt < h[k].changedAt /\ j # k
      BY <1>1 DEF Before
    <2>2. ~(k <= h[j].seen)
      BY <1>1, <1>2, <2>1
    <2>3. Overlapped(h, j, k)
      BY <1>1, <1>4, <2>1, <2>2 DEF Overlapped
    <2>. QED  BY <2>3
  <1>5. ASSUME NEW i \in Before(h, k), NEW j \in Before(h, k), i < j
        PROVE  h[i].changedAt < h[j].changedAt
    <2>1. i \in DOMAIN h /\ j \in DOMAIN h
      BY DEF Before
    <2>2. h[i].seen < j
      BY <1>1, <1>2, <1>5, <2>1
    <2>3. ~(h[j].seen < i)
      BY <1>1, <1>5, <2>1, <2>2 DEF Overlapped
    <2>. QED  BY <1>1, <1>2, <2>1, <2>3
  <1>6. \A j \in Before(h, k) : j \in 1..h[k].seen
    <2>1. \A j \in Before(h, k) : j \in Nat /\ j >= 1
      BY <1>1 DEF Before
    <2>. QED  BY <1>1, <1>4, <2>1
  <1>. QED  BY <1>3, <1>5, <1>6

\* A wrong previous_status is written only where requests overlapped: run one
\* after the other they leave a log without a gap (update_status).
THEOREM GapsAreOverlaps == OrdersSpec => []GapsNeedOverlap
  <1>1. ASSUME NEW h \in Seq(Entries), NEW s, LogInv(h, s), NEW k \in DOMAIN h,
               \A i, j \in Before(h, k) \cup {k} : ~Overlapped(h, i, j)
        PROVE  h[k].previous = LedTo(h, Before(h, k))
    <2> DEFINE n == h[k].seen
               moves == Moves(h) \cap Before(h, k)
    <2>1. /\ Before(h, k) = 1..n
          /\ \A i, j \in Before(h, k) : i < j => h[i].changedAt < h[j].changedAt
      BY <1>1, NoOverlapSeesAll
    <2>2. moves = MovesTo(h, n) /\ LeadsBy(h, n, h[k].previous) /\ n \in Nat
      BY <1>1, <2>1 DEF MovesTo, LogInv, ReadBy, Read, Entries
    <2> HIDE DEF n, moves
    <2>3. CASE moves = {}
      BY <2>2, <2>3 DEF LeadsBy, LastMove, LedTo, moves
    <2>4. CASE moves # {}
      <3>1. PICK m \in DOMAIN h : LastMove(h, n, m) /\ h[k].previous = h[m].new
        BY <2>2, <2>4 DEF LeadsBy
      <3>2. /\ m \in moves /\ \A j \in moves : j <= m
            /\ \A j \in moves : j \in DOMAIN h /\ j \in Before(h, k) /\ j \in Nat
            /\ \A j \in DOMAIN h : h[j].changedAt \in Nat
        BY <2>2, <3>1, EntryTypes DEF LastMove, moves, Moves
      <3>3. \A j \in moves : j # m => h[j].changedAt < h[m].changedAt
        BY <2>1, <3>2
      <3>4. IsLatest(h, m, moves) /\ \A i \in moves : IsLatest(h, i, moves) => i = m
        BY <3>2, <3>3 DEF IsLatest
      <3>5. m = CHOOSE i \in moves : IsLatest(h, i, moves)
        BY <3>2, <3>4
      <3>. QED  BY <2>4, <3>1, <3>5 DEF LedTo, moves
    <2>. QED  BY <2>3, <2>4
  <1>2. OrdersInv => GapsNeedOverlap
    <2>1. OrdersInv => \A o \in Orders : /\ orders[o].history \in Seq(Entries)
                                         /\ LogInv(orders[o].history, orders[o].status)
      BY DEF OrdersInv, OrderInv, OrderType
    <2>. QED  BY <1>1, <2>1 DEF GapsNeedOverlap
  <1>. QED  BY OrdersAreInvariant, <1>2, PTL

-----------------------------------------------------------------------------
(* The stock.                                                              *)

Positive(n) == IF n > 0 THEN n ELSE 0
Negative(n) == IF n < 0 THEN 0 - n ELSE 0

\* What a request read is what there was, or what there was before others
\* committed: it will leave no more reserved than was promised with what it
\* promises itself, and no less than was given back with what it gives back.
ClerkInv(k) ==
    LET q == clerks[k] IN
    \/ q = NoClerk
    \/ /\ q.at = "restock" /\ q.product \in Products
       /\ stock[q.product].listed
       /\ q.available \in Int
    \/ /\ q.at = "reserve" /\ q.product \in Products
       /\ stock[q.product].listed
       /\ q.quantity \in Int /\ q.reserved \in Int /\ q.seen \in Nat
       /\ q.seen <= answered[q.product].times
       /\ q.reserved <= answered[q.product].promised + Positive(q.quantity)
       /\ 0 - (answered[q.product].returned + Negative(q.quantity)) <= q.reserved
       /\ q.seen = answered[q.product].times => q.reserved = stock[q.product].reserved + q.quantity

\* A product that is not there has promised nothing.
StockInv ==
    /\ stock \in [Products -> [listed : BOOLEAN, available : Int, reserved : Int]]
    /\ answered \in [Products -> [times : Nat, promised : Nat, returned : Nat,
                                  apart : BOOLEAN]]
    /\ \A p \in Products : ~stock[p].listed => answered[p] = NoReservation
    /\ \A k \in StockRequests : ClerkInv(k)
    /\ OversellNeedsOverlap
    /\ DOMAIN clerks = StockRequests

LEMMA StockStarts == InventoryInit => StockInv
  BY DEF InventoryInit, StockInv, NoProduct, NoReservation, NoClerk, ClerkInv, OversellNeedsOverlap

\* A new product: nobody works on it yet.
LEMMA CreateProductKeeps ==
  ASSUME StockInv, NEW p \in Products, NEW units \in InitialStocks, CreateProduct(p, units)
  PROVE  StockInv'
  <1>1. units \in Int
    BY InventoryAssumption
  <1>2. \A k \in StockRequests : ClerkInv(k)'
    <2> SUFFICES ASSUME NEW k \in StockRequests PROVE ClerkInv(k)'
      OBVIOUS
    <2>1. ClerkInv(k) /\ clerks'[k] = clerks[k] /\ answered' = answered
      BY DEF StockInv, CreateProduct
    <2>2. clerks[k].at \in {"restock", "reserve"} => stock'[clerks[k].product] = stock[clerks[k].product]
      BY <2>1 DEF StockInv, CreateProduct, ClerkInv, NoClerk
    <2> QED BY <2>1, <2>2 DEF ClerkInv
  <1> QED BY <1>1, <1>2 DEF StockInv, CreateProduct, OversellNeedsOverlap, NoReservation

\* A request that reads, or fails, takes or leaves its place.
LEMMA ClerkReadsKeep ==
  ASSUME StockInv, NEW k0 \in StockRequests, NEW q,
         UNCHANGED <<stock, answered>>, clerks' = [clerks EXCEPT ![k0] = q],
         ClerkInv(k0)'
  PROVE  StockInv'
  <1>1. ASSUME NEW k \in StockRequests PROVE ClerkInv(k)'
    <2>1. CASE k = k0
      BY <2>1
    <2>2. CASE k # k0
      <3>1. clerks'[k] = clerks[k] /\ ClerkInv(k)
        BY <2>2 DEF StockInv
      <3> QED BY <3>1 DEF ClerkInv
    <2> QED BY <2>1, <2>2
  <1> QED BY <1>1 DEF StockInv, OversellNeedsOverlap

LEMMA StartRestockKeeps ==
  ASSUME StockInv, NEW k \in StockRequests, NEW p \in Products, NEW d \in Int, StartRestock(k, p, d)
  PROVE  StockInv'
  <1> DEFINE sum == stock[p].available + d
             q == [at |-> "restock", product |-> p, available |-> IF sum < 0 THEN 0 ELSE sum]
  <1>1. clerks' = [clerks EXCEPT ![k] = q] /\ UNCHANGED <<stock, answered>> /\ stock[p].listed
    BY DEF StartRestock
  <1>2. sum \in Int
    BY DEF StockInv
  <1>3. clerks'[k] = q
    BY <1>1 DEF StockInv
  <1>4. ClerkInv(k)'
    BY <1>1, <1>2, <1>3 DEF ClerkInv
  <1> HIDE DEF q
  <1> QED BY <1>1, <1>4, ClerkReadsKeep

LEMMA StartReserveKeeps ==
  ASSUME StockInv, NEW k \in StockRequests, NEW p \in Products, NEW n \in Quantities,
         StartReserve(k, p, n)
  PROVE  StockInv'
  <1> DEFINE q == [at |-> "reserve", product |-> p, quantity |-> n,
                   reserved |-> stock[p].reserved + n, seen |-> answered[p].times]
  <1>1. clerks' = [clerks EXCEPT ![k] = q] /\ UNCHANGED <<stock, answered>> /\ stock[p].listed
    BY DEF StartReserve
  <1>2. n \in Int
    BY InventoryAssumption
  <1>3. clerks'[k] = q
    BY <1>1 DEF StockInv
  <1>4. ClerkInv(k)'
    BY <1>1, <1>2, <1>3 DEF ClerkInv, StockInv, OversellNeedsOverlap, Positive, Negative
  <1> HIDE DEF q
  <1> QED BY <1>1, <1>4, ClerkReadsKeep

LEMMA FailStockKeeps ==
  ASSUME StockInv, NEW k \in StockRequests, FailStock(k)
  PROVE  StockInv'
  <1>1. clerks' = [clerks EXCEPT ![k] = NoClerk] /\ UNCHANGED <<stock, answered>>
    BY DEF FailStock
  <1>2. clerks'[k] = NoClerk
    BY <1>1 DEF StockInv
  <1>3. ClerkInv(k)'
    BY <1>2 DEF ClerkInv
  <1> QED BY <1>1, <1>3, ClerkReadsKeep

\* The column a delivery writes is not the one a reservation does.
LEMMA CommitRestockKeeps ==
  ASSUME StockInv, NEW k0 \in StockRequests, CommitRestock(k0)
  PROVE  StockInv'
  <1>1. PICK p \in Products, a \in Int :
           stock' = [stock EXCEPT ![p].available = a] /\ stock[p].listed
    <2>1. ClerkInv(k0) /\ clerks[k0].at = "restock"
      BY DEF CommitRestock, StockInv
    <2>2. /\ clerks[k0].product \in Products /\ clerks[k0].available \in Int
          /\ stock[clerks[k0].product].listed
      BY <2>1 DEF ClerkInv, NoClerk
    <2> QED BY <2>2 DEF CommitRestock
  <1>2. clerks' = [clerks EXCEPT ![k0] = NoClerk] /\ UNCHANGED answered
    BY DEF CommitRestock
  <1>3. \A p1 \in Products : stock'[p1].reserved = stock[p1].reserved /\ stock'[p1].listed = stock[p1].listed
    BY <1>1 DEF StockInv
  <1>4. ASSUME NEW k \in StockRequests PROVE ClerkInv(k)'
    <2>1. CASE k = k0
      BY <1>2, <2>1 DEF StockInv, ClerkInv
    <2>2. CASE k # k0
      <3>1. clerks'[k] = clerks[k] /\ ClerkInv(k)
        BY <1>2, <2>2 DEF StockInv
      <3> QED BY <1>2, <1>3, <3>1 DEF ClerkInv
    <2> QED BY <2>1, <2>2
  <1>5. stock' \in [Products -> [listed : BOOLEAN, available : Int, reserved : Int]]
    BY <1>1 DEF StockInv
  <1> QED BY <1>2, <1>3, <1>4, <1>5 DEF StockInv, OversellNeedsOverlap

\* One reservation more: whoever read the row before has now overlapped.
LEMMA CommitReserveKeeps ==
  ASSUME StockInv, NEW k0 \in StockRequests, CommitReserve(k0)
  PROVE  StockInv'
  <1>1. PICK q : q = clerks[k0]
    OBVIOUS
  <1>2. /\ q.product \in Products /\ stock[q.product].listed
        /\ q.quantity \in Int /\ q.reserved \in Int /\ q.seen \in Nat
        /\ q.seen <= answered[q.product].times
        /\ q.reserved <= answered[q.product].promised + Positive(q.quantity)
        /\ 0 - (answered[q.product].returned + Negative(q.quantity)) <= q.reserved
        /\ q.seen = answered[q.product].times =>
              q.reserved = stock[q.product].reserved + q.quantity
    BY <1>1 DEF CommitReserve, StockInv, ClerkInv, NoClerk
  <1>3. PICK p \in Products : p = q.product
    BY <1>2
  <1> DEFINE old == answered[p]
             new == [times |-> old.times + 1,
                     promised |-> IF q.quantity > 0 THEN old.promised + q.quantity
                                                    ELSE old.promised,
                     returned |-> IF q.quantity < 0 THEN old.returned - q.quantity
                                                    ELSE old.returned,
                     apart |-> old.apart /\ q.seen = old.times]
  <1>4. /\ stock' = [stock EXCEPT ![p].reserved = q.reserved]
        /\ answered' = [answered EXCEPT ![p] = new]
        /\ clerks' = [clerks EXCEPT ![k0] = NoClerk]
    BY <1>1, <1>3 DEF CommitReserve
  <1>5. old.times \in Nat /\ old.promised \in Nat /\ old.returned \in Nat /\ old.apart \in BOOLEAN
    BY DEF StockInv
  <1>6. answered'[p] = new /\ \A p1 \in Products \ {p} : answered'[p1] = answered[p1]
    BY <1>4 DEF StockInv
  <1>7. /\ stock'[p].reserved = q.reserved
        /\ \A p1 \in Products : stock'[p1].listed = stock[p1].listed
        /\ \A p1 \in Products \ {p} : stock'[p1] = stock[p1]
    BY <1>4 DEF StockInv
  <1>8. /\ new.times = old.times + 1
        /\ new.promised = old.promised + Positive(q.quantity)
        /\ new.returned = old.returned + Negative(q.quantity)
        /\ new.apart <=> old.apart /\ q.seen = old.times
        /\ Positive(q.quantity) \in Nat /\ Negative(q.quantity) \in Nat
        /\ q.quantity = Positive(q.quantity) - Negative(q.quantity)
    <2>1. new.times = old.times + 1 /\ (new.apart <=> old.apart /\ q.seen = old.times)
      BY <1>5
    <2>2. /\ new.promised = IF q.quantity > 0 THEN old.promised + q.quantity ELSE old.promised
          /\ new.returned = IF q.quantity < 0 THEN old.returned - q.quantity ELSE old.returned
      OBVIOUS
    <2> HIDE DEF new, old
    <2>. QED  BY <1>2, <1>5, <2>1, <2>2 DEF Positive, Negative
  <1>9. answered' \in [Products -> [times : Nat, promised : Nat, returned : Nat,
                                    apart : BOOLEAN]]
    <2>1. new \in [times : Nat, promised : Nat, returned : Nat, apart : BOOLEAN]
      BY <1>2, <1>5
    <2> HIDE DEF new
    <2> QED BY <1>4, <2>1 DEF StockInv
  <1> HIDE DEF new
  <1>10. stock' \in [Products -> [listed : BOOLEAN, available : Int, reserved : Int]]
    BY <1>2, <1>4 DEF StockInv
  <1>11. ASSUME NEW k \in StockRequests PROVE ClerkInv(k)'
    <2>1. CASE k = k0
      BY <1>4, <2>1 DEF StockInv, ClerkInv
    <2>2. CASE k # k0
      <3>1. clerks'[k] = clerks[k] /\ ClerkInv(k)
        BY <1>4, <2>2 DEF StockInv
      <3>2. CASE clerks[k].product # p
        BY <1>6, <1>7, <3>1, <3>2 DEF ClerkInv
      <3>3. CASE clerks[k].product = p
        <4>1. /\ new.times \in Nat /\ new.promised \in Nat /\ new.returned \in Nat
              /\ old.times < new.times /\ old.promised <= new.promised
              /\ old.returned <= new.returned
          BY <1>5, <1>8
        <4>2. clerks[k].at = "reserve" => /\ Positive(clerks[k].quantity) \in Nat
                                          /\ Negative(clerks[k].quantity) \in Nat
          BY <3>1 DEF ClerkInv, NoClerk, Positive, Negative
        <4>. QED  BY <1>5, <1>6, <1>7, <3>1, <3>3, <4>1, <4>2 DEF ClerkInv
      <3> QED BY <3>2, <3>3
    <2> QED BY <2>1, <2>2
  <1>12. OversellNeedsOverlap'
    <2> SUFFICES ASSUME NEW p1 \in Products
                 PROVE  /\ 0 - answered'[p1].returned <= stock'[p1].reserved
                        /\ stock'[p1].reserved <= answered'[p1].promised
                        /\ answered'[p1].apart => stock'[p1].reserved =
                              answered'[p1].promised - answered'[p1].returned
      BY DEF OversellNeedsOverlap
    <2>1. /\ 0 - answered[p1].returned <= stock[p1].reserved
          /\ stock[p1].reserved <= answered[p1].promised
          /\ answered[p1].apart => stock[p1].reserved =
                answered[p1].promised - answered[p1].returned
      BY DEF StockInv, OversellNeedsOverlap
    <2>2. CASE p1 = p
      BY <1>2, <1>3, <1>5, <1>6, <1>7, <1>8, <2>1, <2>2
    <2>3. CASE p1 # p
      BY <1>6, <1>7, <2>1, <2>3
    <2> QED BY <2>2, <2>3
  <1>13. \A p1 \in Products : ~stock'[p1].listed => answered'[p1] = NoReservation
    BY <1>2, <1>3, <1>6, <1>7 DEF StockInv
  <1>14. DOMAIN clerks' = StockRequests
    BY <1>4 DEF StockInv
  <1> QED BY <1>9, <1>10, <1>11, <1>12, <1>13, <1>14 DEF StockInv

LEMMA StockMoves == ASSUME StockInv, [InventoryNext]_inventoryVars PROVE StockInv'
  <1>1. CASE UNCHANGED inventoryVars
    BY <1>1 DEF inventoryVars, StockInv, ClerkInv, OversellNeedsOverlap
  <1>2. ASSUME NEW p \in Products, NEW units \in InitialStocks, CreateProduct(p, units)
        PROVE  StockInv'
    BY <1>2, CreateProductKeeps
  <1>3. ASSUME NEW k \in StockRequests, NEW p \in Products,
               \/ \E d \in Deltas : StartRestock(k, p, d)
               \/ \E n \in Quantities : StartReserve(k, p, n)
        PROVE  StockInv'
    <2>1. \A d \in Deltas : d \in Int
      BY InventoryAssumption
    <2> QED BY <1>3, <2>1, StartRestockKeeps, StartReserveKeeps
  <1>4. ASSUME NEW k \in StockRequests, CommitRestock(k) \/ CommitReserve(k) \/ FailStock(k)
        PROVE  StockInv'
    BY <1>4, CommitRestockKeeps, CommitReserveKeeps, FailStockKeeps
  <1> QED BY <1>1, <1>2, <1>3, <1>4 DEF InventoryNext

LEMMA StockIsInvariant == InventorySpec => []StockInv
  BY StockStarts, StockMoves, PTL DEF InventorySpec

\* For any products, requests at once, deliveries and quantities, negative ones
\* too: what was promised less what was given back is reserved unless two
\* reservations of the product overlapped, no delivery makes any difference, and
\* nothing that overlaps counts twice (reserve_stock, update_stock).
THEOREM StockIsOversoldByOverlap == InventorySpec => []OversellNeedsOverlap
  BY StockIsInvariant, PTL DEF StockInv

-----------------------------------------------------------------------------
(* The shop.                                                               *)

StoreInv == OrdersInv /\ LoyaltyInv /\ StockInv

LEMMA StoreIsInvariant == StoreSpec => []StoreInv
  <1>1. StoreInit => StoreInv
    BY OrdersStart, LoyaltyStarts, StockStarts DEF StoreInit, StoreInv
  <1>2. StoreInv /\ [StoreNext]_StoreVars => StoreInv'
    <2> SUFFICES ASSUME StoreInv, [StoreNext]_StoreVars PROVE StoreInv'
      OBVIOUS
    <2>1. [OrdersNext]_ordersVars /\ [LoyaltyNext]_loyaltyVars /\ [InventoryNext]_inventoryVars
      BY DEF StoreNext, OrdersStep, LoyaltyStep, InventoryStep, StoreVars
    <2> QED BY <2>1, OrdersMove, LoyaltyMoves, StockMoves DEF StoreInv
  <1> QED BY <1>1, <1>2, PTL DEF StoreSpec

\* The three tables of the shop, and all that the requests on them hold, keep
\* their types.
THEOREM StoreIsTyped == StoreSpec => []StoreTypeOK
  <1>1. OrdersInv => OrdersTypeOK
    BY DEF OrdersInv, OrderInv, WriterInv, OrdersTypeOK
  <1>2. LoyaltyInv => LoyaltyTypeOK
    BY DEF LoyaltyInv, RequestInv, LoyaltyTypeOK
  <1>3. StockInv => InventoryTypeOK
    BY DEF StockInv, ClerkInv, InventoryTypeOK
  <1>4. StoreInv => StoreTypeOK
    BY <1>1, <1>2, <1>3 DEF StoreInv, StoreTypeOK
  <1> QED BY <1>4, StoreIsInvariant, PTL
=============================================================================
