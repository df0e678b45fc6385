------------------------------- MODULE Orders -------------------------------
(***************************************************************************)
(* The shop's orders (src/src/services/order_service.py over               *)
(* src/src/repositories/order_repository.py): creation under a generated   *)
(* number, status updates with their audit log, and the cancellation the   *)
(* voice agent offers (src/src/core/order_voice_handler.py).               *)
(*                                                                         *)
(* A request is a step that reads and a step that commits, and an update   *)
(* takes the time of its log entry in between.  The session writes the     *)
(* columns whose new value differs from the one it read, and leaves the    *)
(* others as other requests have made them meanwhile.  Items, amounts,     *)
(* tenants and notes are left out.  Of the timestamps of a row it is kept  *)
(* which are set; changed_at, which alone orders the log, is a reading of  *)
(* one clock that goes on at each.                                         *)
(***************************************************************************)
EXTENDS Naturals, Sequences

CONSTANTS
    Orders,         \* ids of orders
    Numbers,        \* order numbers the generator may draw
    OrderRequests,  \* requests the server works on at a time
    Updates,        \* statuses the administrators send
    MaxHistory      \* bound: times taken for the changes of one order

Statuses == {"pending", "confirmed", "processing", "shipped", "in_transit",
             "out_for_delivery", "delivered", "cancelled", "refunded"}

ASSUME OrdersAssumption ==
    /\ Updates \subseteq Statuses
    /\ MaxHistory \in Nat
    /\ "none" \notin Numbers

VARIABLES
    orders,         \* the table orders, each with its status_history
    writers,        \* what each request has read and will commit
    told,           \* the orders whose customer was told "cancelado"
    clock           \* external: the last time taken for a change of each order

ordersVars == <<orders, writers, told, clock>>

\* The statuses that set a timestamp of their own.
Stamped == {"confirmed", "shipped", "delivered"}

\* history has the entries as they were committed, which no column tells: its
\* order, and the number of entries that the request had seen when it read, are
\* history of the model.  The program sorts the entries by changed_at.
Entries == [previous : Statuses, new : Statuses, changedAt : Nat, seen : Nat]
OrderType == [number : Numbers \cup {"none"}, status : Statuses,
              stamps : SUBSET Stamped, history : Seq(Entries)]
NoOrder == [number |-> "none", status |-> "pending", stamps |-> {}, history |-> <<>>]
NoRequest == [at |-> "idle"]
Changes == [at : {"update", "timed", "voice"}, order : Orders, read : Statuses,
            new : Statuses, changedAt : Nat, seen : Nat]

OrdersTypeOK ==
    /\ orders \in [Orders -> OrderType]
    /\ told \subseteq Orders
    /\ clock \in [Orders -> Nat]
    /\ \A w \in OrderRequests :
          LET q == writers[w] IN
          \/ q = NoRequest
          \/ q.at = "create" /\ q.order \in Orders /\ q.number \in Numbers
          \/ q \in Changes

OrdersInit ==
    /\ orders = [o \in Orders |-> NoOrder]
    /\ writers = [w \in OrderRequests |-> NoRequest]
    /\ told = {}
    /\ clock = [o \in Orders |-> 0]

Exists(o) == orders[o].number # "none"
Taken(n) == \E o \in Orders : orders[o].number = n
Begins(w, q) == writers[w] = NoRequest /\ writers' = [writers EXCEPT ![w] = q]
Ends(w) == writers' = [writers EXCEPT ![w] = NoRequest]

-----------------------------------------------------------------------------
(* Creation.                                                               *)

\* A number nobody has yet, and a new uuid.
StartCreate(w, o, n) ==
    /\ ~Exists(o) /\ ~Taken(n)
    /\ \A v \in OrderRequests : writers[v].at = "create" => writers[v].order # o
    /\ Begins(w, [at |-> "create", order |-> o, number |-> n])
    /\ UNCHANGED <<orders, told, clock>>

\* The row and its first log entry, unless the unique column refuses.
Insert(o, n) ==
    /\ ~Taken(n)
    /\ orders' = [orders EXCEPT ![o] =
          [number |-> n, status |-> "pending", stamps |-> {},
           history |-> <<[previous |-> "pending", new |-> "pending",
                          changedAt |-> 0, seen |-> 0]>>]]

CommitCreate(w) ==
    /\ writers[w].at = "create"
    /\ Insert(writers[w].order, writers[w].number)
    /\ Ends(w) /\ UNCHANGED <<told, clock>>

-----------------------------------------------------------------------------
(* Changes of a status.                                                    *)

\* MUTANT: the status read is that of an object kept from the creation.
MutantReadFor(kind, o, s) ==
    [at |-> kind, order |-> o, read |-> "pending", new |-> s,
     changedAt |-> 0, seen |-> Len(orders[o].history)]

\* What a request that wants status s takes from the row.
ReadFor(kind, o, s) ==
    [at |-> kind, order |-> o, read |-> orders[o].status, new |-> s,
     changedAt |-> 0, seen |-> Len(orders[o].history)]

\* An administrator may send any status, whatever the order's is.
StartUpdate(w, o, s) ==
    /\ Exists(o)
    /\ Begins(w, ReadFor("update", o, s))
    /\ UNCHANGED <<orders, told, clock>>

\* changed_at is taken when the row has been read, before anything is written
\* or locked: by then another request may have read it too, or committed.
TakeTime(w) ==
    LET o == writers[w].order IN
    /\ writers[w].at = "update"
    /\ clock[o] < MaxHistory
    /\ clock' = [clock EXCEPT ![o] = @ + 1]
    /\ writers' = [writers EXCEPT ![w].at = "timed", ![w].changedAt = clock[o] + 1]
    /\ UNCHANGED <<orders, told>>

\* MUTANT: previous_status is taken after the status was assigned.
MutantChanged(row, q) ==
    [number |-> row.number,
     status |-> IF q.new = q.read THEN row.status ELSE q.new,
     stamps |-> row.stamps \cup ({q.new} \cap Stamped),
     history |-> Append(row.history, [previous |-> q.new, new |-> q.new,
                                      changedAt |-> q.changedAt, seen |-> q.seen])]

\* The row after the commit: a status equal to the one read is not written.
Changed(row, q) ==
    [number |-> row.number,
     status |-> IF q.new = q.read THEN row.status ELSE q.new,
     stamps |-> row.stamps \cup ({q.new} \cap Stamped),
     history |-> Append(row.history, [previous |-> q.read, new |-> q.new,
                                      changedAt |-> q.changedAt, seen |-> q.seen])]

CommitUpdate(w) ==
    /\ writers[w].at = "timed"
    /\ orders' = [orders EXCEPT ![writers[w].order] = Changed(@, writers[w])]
    /\ Ends(w) /\ UNCHANGED <<told, clock>>

\* The voice agent: the handler refuses what is delivered or cancelled.
StartVoiceCancel(w, o) ==
    /\ Exists(o) /\ orders[o].status \notin {"delivered", "cancelled"}
    /\ Begins(w, ReadFor("voice", o, "cancelled"))
    /\ UNCHANGED <<orders, told, clock>>

\* The handler's session is its own: it flushes, is closed uncommitted, and
\* the customer is told that the order is cancelled.
TellCancelled(w) ==
    /\ writers[w].at = "voice"
    /\ told' = told \cup {writers[w].order}
    /\ Ends(w) /\ UNCHANGED <<orders, clock>>

\* A refused insert, or any other exception: the session rolls back.
FailOrder(w) ==
    /\ writers[w] # NoRequest
    /\ Ends(w) /\ UNCHANGED <<orders, told, clock>>

OrdersNext ==
    \E w \in OrderRequests :
        \/ \E o \in Orders :
              \/ \E n \in Numbers : StartCreate(w, o, n)
              \/ \E s \in Updates : StartUpdate(w, o, s)
              \/ StartVoiceCancel(w, o)
        \/ CommitCreate(w)
        \/ TakeTime(w)
        \/ CommitUpdate(w)
        \/ TellCancelled(w)
        \/ FailOrder(w)

OrdersSpec == OrdersInit /\ [][OrdersNext]_ordersVars

-----------------------------------------------------------------------------
(* Properties.                                                             *)

Moves(h) == {k \in DOMAIN h : h[k].previous # h[k].new}

\* The entries of a log before one of them, as status_history sorts them.
Before(h, k) == {j \in DOMAIN h : h[j].changedAt < h[k].changedAt}
IsLatest(h, k, entries) == \A j \in entries : h[j].changedAt <= h[k].changedAt

\* The status that some entries of a log lead to, in that order.
LedTo(h, entries) ==
    LET moves == Moves(h) \cap entries IN
    IF moves = {} THEN "pending" ELSE h[CHOOSE k \in moves : IsLatest(h, k, moves)].new

\* Two entries of requests each of which read before the other committed.
Overlapped(h, j, k) == j # k /\ h[j].seen < k /\ h[k].seen < j

\* The audit log and the order agree: the order is in the status of the latest
\* change its log shows, unless that very change was overtaken: another, which
\* had read the order before it, was committed after it.  A request that changes
\* nothing is logged too, and whatever overlaps among the older entries, the
\* status is right.
StatusIsLastChange ==
    \A o \in Orders :
        LET h == orders[o].history IN
        /\ Moves(h) = {} => orders[o].status = "pending"
        /\ \A k \in Moves(h) : IsLatest(h, k, Moves(h)) =>
              \/ orders[o].status = h[k].new
              \/ \E j \in Moves(h) : k < j /\ h[j].seen < k

\* An entry of which previous_status is not what the entries before it lead to
\* is no sign of a lost update by itself; but two requests did overlap, its own
\* and an earlier one or two earlier ones.  Run one after the other, updates
\* leave an unbroken log.
GapsNeedOverlap ==
    \A o \in Orders : \A k \in DOMAIN orders[o].history :
        LET h == orders[o].history IN
        h[k].previous # LedTo(h, Before(h, k)) =>
            \E i, j \in Before(h, k) \cup {k} : Overlapped(h, i, j)

\* A customer who is told that the order was cancelled has a cancelled order
\* (test_cancel_order: "should set its status to 'cancelled'").
ToldMeansCancelled ==
    [][\A o \in told' \ told : orders'[o].status = "cancelled"]_ordersVars
=============================================================================
