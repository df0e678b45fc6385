--------------------------- MODULE BillingProofs ----------------------------
(***************************************************************************)
(* For any tenants, customers, subscriptions, plans and any number of      *)
(* requests at once: the types, the two promises about whose a row, an     *)
(* invoice and a plan are, and that a tenant with one customer has one     *)
(* row.  The argument is that a request's decision stays right however     *)
(* stale the row is it was taken on, because a row never changes its       *)
(* tenant, and a subscription neither its tenant nor its customer, and the *)
(* tenants that hold a customer only become more.                          *)
(***************************************************************************)
EXTENDS Billing, FiniteSetTheorems, TLAPS

\* A row is its tenant's: the subscription on it is, and the tenant holds the
\* customer, by the holders o and the Stripe subscriptions s.
Belongs(row, o, s) ==
    /\ row.tenant \in Tenants
    /\ row.customer \in Customers
    /\ row.tenant \in o[row.customer]
    /\ row.sub # "none" => s[row.sub].tenant = row.tenant

Bought(t, p, s) == p = "basic" \/ \E i \in Subs : s[i].tenant = t /\ s[i].plan = p

\* A plan may be changed to p when a subscription ended, or p was bought.
Asked(t, seen, p, s) ==
    p = seen \/ \E i \in Subs : s[i].tenant = t /\ (s[i].status = "canceled" \/ s[i].plan = p)

Writing == {"checkout", "opened", "event", "endpoint"}
Writes(q) == q.at \in Writing

\* A session is for a customer its tenant holds, and an invoice's tenant holds
\* the customer of the subscription.
Holds(n, o) == n.tenant \in o[n.customer]
Bills(t, i, o, s) ==
    s[i].tenant \in Tenants /\ s[i].customer \in Customers /\ t \in o[s[i].customer]

\* What a request will commit is its tenant's.
Sound(q, o, s) ==
    /\ Writes(q) =>
          /\ Belongs(q.new, o, s)
          /\ q.new.tenant = q.tenant
          /\ q.seen = Absent \/ q.seen.tenant = q.tenant
          /\ Bought(q.tenant, q.planNew, s)
          /\ Asked(q.tenant, q.planSeen, q.planNew, s)
    /\ q.at \in {"checkout", "opened"} => Holds(q.about, o)
    /\ q.at = "invoice" => Bills(q.tenant, q.about.sub, o, s)

RequestType == request = [r \in Requests |-> request[r]]

RowFacts == \A x \in Rows : rows[x] = Absent \/ Belongs(rows[x], holders, stripe)

StripeFacts ==
    /\ \A i \in Subs : stripe[i].tenant = "none" => stripe[i] = Unborn
    /\ \A i \in Subs : stripe[i].tenant \in Tenants =>
          stripe[i].customer \in Customers /\ Holds(stripe[i], holders)
    /\ \A n \in sessions : Holds(n, holders)
    /\ \A e \in events : stripe[e.sub].tenant \in Tenants
    /\ \A e \in events : e.type = "deleted" => stripe[e.sub].status = "canceled"
    /\ \A i \in Subs : invoices[i] # "none" => Bills(invoices[i], i, holders, stripe)

PlanFacts == \A t \in Tenants : Bought(t, plan[t], stripe)

RequestFacts == \A r \in Requests : Sound(request[r], holders, stripe)

\* A new row's id is reserved for the request that will insert it; any other
\* request works on a row of its tenant's.
Reserved ==
    \A r \in Requests : Writes(request[r]) =>
        IF request[r].seen = Absent
        THEN /\ rows[request[r].row] = Absent
             /\ \A p \in Requests \ {r} : Writes(request[p]) => request[p].row # request[r].row
        ELSE rows[request[r].row].tenant = request[r].tenant

IInv == TypeOK /\ RequestType /\ RowFacts /\ StripeFacts /\ PlanFacts /\ RequestFacts /\ Reserved

-----------------------------------------------------------------------------
(* Facts about the helpers.                                                *)

Pick(f, now, seen, new) == IF new[f] = seen[f] THEN now[f] ELSE new[f]

\* A merged row, column by column.
LEMMA MergeColumns ==
  ASSUME NEW now \in RowType, NEW seen \in RowType, NEW new \in RowType
  PROVE  Merge(now, seen, new) =
            [tenant |-> Pick("tenant", now, seen, new),
             customer |-> Pick("customer", now, seen, new),
             sub |-> Pick("sub", now, seen, new),
             status |-> Pick("status", now, seen, new),
             cancels |-> Pick("cancels", now, seen, new)]
  <1>1. DOMAIN now = {"tenant", "customer", "sub", "status", "cancels"}
    BY DEF RowType
  <1> QED
    BY <1>1 DEF Merge, Pick

\* A merged row is a row.
LEMMA MergeTyped ==
  ASSUME NEW now \in RowType, NEW seen \in RowType, NEW new \in RowType
  PROVE  Merge(now, seen, new) \in RowType
  <1>1. /\ Pick("tenant", now, seen, new) \in Tenants \cup {"none"}
        /\ Pick("customer", now, seen, new) \in Customers \cup {"none"}
        /\ Pick("sub", now, seen, new) \in Subs \cup {"none"}
        /\ Pick("status", now, seen, new) \in RowStatuses
    BY DEF Pick, RowType
  <1>2. Pick("cancels", now, seen, new) \in BOOLEAN
    <2>1. now.cancels \in BOOLEAN /\ new.cancels \in BOOLEAN
      BY DEF RowType
    <2> QED
      BY <2>1, Zenon DEF Pick
  <1> QED
    BY <1>1, <1>2, MergeColumns DEF RowType

\* Nothing is lost in the merge of a new row.
LEMMA MergeNew ==
  ASSUME NEW new \in RowType
  PROVE  Absent \in RowType /\ Merge(Absent, Absent, new) = new
  <1>1. Absent \in RowType
    BY DEF Absent, RowType, RowStatuses
  <1>2. Merge(Absent, Absent, new) =
            [tenant |-> new.tenant, customer |-> new.customer, sub |-> new.sub,
             status |-> new.status, cancels |-> new.cancels]
    BY <1>1, MergeColumns DEF Pick
  <1> QED
    BY <1>1, <1>2 DEF RowType

\* The merge of two rows of one tenant is a row of that tenant.
LEMMA MergeBelongs ==
  ASSUME NEW now \in RowType, NEW seen \in RowType, NEW new \in RowType, NEW o, NEW s,
         Belongs(now, o, s), Belongs(new, o, s), new.tenant = now.tenant
  PROVE  /\ Belongs(Merge(now, seen, new), o, s)
         /\ Merge(now, seen, new).tenant = now.tenant
  <1> DEFINE m == Merge(now, seen, new)
  <1>1. /\ m.tenant \in {now.tenant, new.tenant}
        /\ m.customer \in {now.customer, new.customer}
        /\ m.sub \in {now.sub, new.sub}
    BY MergeColumns DEF Pick
  <1> QED
    BY <1>1 DEF Belongs

-----------------------------------------------------------------------------
(* What only grows: the holders of a customer, and the subscriptions.      *)

Grows(o, p) == \A c \in Customers : o[c] \subseteq p[c]

Keeps(s, u) ==
    \A i \in Subs : s[i].tenant \in Tenants =>
        /\ u[i].tenant = s[i].tenant /\ u[i].customer = s[i].customer /\ u[i].plan = s[i].plan
        /\ s[i].status = "canceled" => u[i].status = "canceled"

\* What belongs to a tenant, and what it bought, it keeps.
LEMMA BelongsKept ==
  ASSUME NEW row \in RowType, NEW o, NEW p, NEW s, NEW u, Grows(o, p), Keeps(s, u),
         Belongs(row, o, s)
  PROVE  Belongs(row, p, u)
  <1>1. row.sub # "none" => row.sub \in Subs
    BY DEF RowType
  <1> QED
    BY <1>1 DEF Belongs, Grows, Keeps

\* What a tenant bought stays bought.
LEMMA BoughtKept ==
  ASSUME NEW t \in Tenants, NEW p, NEW s, NEW u, Keeps(s, u), Bought(t, p, s)
  PROVE  Bought(t, p, u)
  <1> QED
    BY DEF Bought, Keeps

\* What a plan may be changed to, it may be changed to later.
LEMMA AskedKept ==
  ASSUME NEW t \in Tenants, NEW seen, NEW p, NEW s, NEW u, Keeps(s, u), Asked(t, seen, p, s)
  PROVE  Asked(t, seen, p, u)
  <1> QED
    BY DEF Asked, Keeps

\* The type of one request, and of its columns.
ReqType(q) == q \in RequestStates

Fields(q) ==
    \/ q = Idle
    \/ q.at = "invoice" /\ q.tenant \in Tenants /\ q.about \in Events
    \/ /\ q.at \in Writing
       /\ q.about \in IF q.at \in {"checkout", "opened"} THEN Sessions ELSE Events
       /\ q.row \in Rows /\ q.seen \in RowType /\ q.new \in RowType
       /\ q.tenant \in Tenants /\ q.planSeen \in TenantPlans /\ q.planNew \in TenantPlans

\* A request of the type has columns of their types.
LEMMA TypedFields ==
  ASSUME NEW q, ReqType(q)
  PROVE  Fields(q)
  <1>1. CASE q = Idle
    BY <1>1 DEF Fields
  <1>2. CASE q \in [at : {"invoice"}, about : Events, tenant : Tenants]
    BY <1>2 DEF Fields
  <1>3. CASE q \in Decision({"checkout", "opened"}, Sessions)
    BY <1>3 DEF Fields, Decision, Writing
  <1>4. CASE q \in Decision({"event", "endpoint"}, Events)
    BY <1>4 DEF Fields, Decision, Writing
  <1> QED
    BY <1>1, <1>2, <1>3, <1>4 DEF ReqType, RequestStates

\* The type of the requests, by itself.
LEMMA RequestsTyped == TypeOK => \A r \in Requests : ReqType(request[r]) /\ Fields(request[r])
  <1> QED
    BY TypedFields DEF TypeOK, ReqType

\* What a request is about to commit stays right while others go on.
LEMMA SoundKept ==
  ASSUME NEW q, NEW o, NEW p, NEW s, NEW u, ReqType(q), Grows(o, p), Keeps(s, u),
         Sound(q, o, s)
  PROVE  Sound(q, p, u)
  <1>1. CASE q = Idle
    BY <1>1 DEF Idle, Sound, Writes, Writing
  <1>2. CASE q.at = "invoice" /\ q.tenant \in Tenants /\ q.about \in Events
    BY <1>2 DEF Sound, Writes, Writing, Bills, Grows, Keeps, Events
  <1>3. CASE /\ q.at \in Writing
             /\ q.about \in IF q.at \in {"checkout", "opened"} THEN Sessions ELSE Events
             /\ q.row \in Rows /\ q.seen \in RowType /\ q.new \in RowType
             /\ q.tenant \in Tenants /\ q.planSeen \in TenantPlans /\ q.planNew \in TenantPlans
    <2>1. Belongs(q.new, p, u)
      BY <1>3, BelongsKept DEF Sound, Writes, Writing
    <2>2. Bought(q.tenant, q.planNew, u)
      BY <1>3, BoughtKept DEF Sound, Writes, Writing
    <2>4. Asked(q.tenant, q.planSeen, q.planNew, u)
      BY <1>3, AskedKept DEF Sound, Writes, Writing
    <2>3. q.at \in {"checkout", "opened"} => Holds(q.about, p)
      BY <1>3 DEF Sound, Writes, Writing, Grows, Holds, Sessions
    <2> QED
      BY <1>3, <2>1, <2>2, <2>3, <2>4 DEF Sound, Writes, Writing
  <1> QED
    BY <1>1, <1>2, <1>3, TypedFields DEF Fields

\* The reservation of request r in state of the tables by the requests f.
Holding(r, f, table) ==
    Writes(f[r]) =>
        IF f[r].seen = Absent
        THEN /\ table[f[r].row] = Absent
             /\ \A p \in Requests \ {r} : Writes(f[p]) => f[p].row # f[r].row
        ELSE table[f[r].row].tenant = f[r].tenant

\* A request that decides leaves the others right.
LEMMA Decided ==
  ASSUME IInv, NEW r \in Requests, NEW q, ReqType(q), Grows(holders, holders'), Keeps(stripe, stripe'),
         request' = [request EXCEPT ![r] = q], Sound(q, holders', stripe'),
         UNCHANGED rows, Holding(r, [request EXCEPT ![r] = q], rows),
         \A p \in Requests \ {r} :
            /\ Writes(q) /\ Writes(request[p]) /\ request[p].seen = Absent
            => request[p].row # q.row
  PROVE  /\ RequestType' /\ RequestFacts' /\ Reserved'
         /\ \A p \in Requests : ReqType(request'[p])
  <1>1. \A p \in Requests : request'[p] = IF p = r THEN q ELSE request[p]
    BY DEF IInv, RequestType
  <1>2. RequestType'
    BY <1>1 DEF IInv, RequestType
  <1>3. \A p \in Requests : ReqType(request'[p])
    BY <1>1, RequestsTyped DEF IInv
  <1>4. RequestFacts'
    BY <1>1, RequestsTyped, SoundKept DEF IInv, RequestFacts
  <1>5. Reserved'
    BY <1>1 DEF IInv, Reserved, Holding
  <1> QED
    BY <1>2, <1>3, <1>4, <1>5
-----------------------------------------------------------------------------
(* What the actions have in common.                                        *)

Tables ==
    /\ rows \in [Rows -> RowType]
    /\ plan \in [Tenants -> TenantPlans]
    /\ invoices \in [Subs -> Tenants \cup {"none"}]
    /\ holders \in [Customers -> SUBSET Tenants]
    /\ sessions \subseteq Sessions
    /\ stripe \in [Subs -> StripeType]
    /\ events \subseteq Events

\* The types are those of the tables and those of the requests.
LEMMA TypesSplit ==
  /\ TypeOK => Tables /\ \A r \in Requests : ReqType(request[r])
  /\ Tables /\ RequestType /\ (\A r \in Requests : ReqType(request[r])) => TypeOK
  /\ Tables' /\ RequestType' /\ (\A r \in Requests : ReqType(request'[r])) => TypeOK'
  <1> QED
    BY DEF TypeOK, Tables, ReqType, RequestType

\* The tables' facts, when the tables stay and Stripe goes on.
LEMMA TablesKept ==
  ASSUME IInv, Grows(holders, holders'), Keeps(stripe, stripe'), UNCHANGED <<rows, plan>>
  PROVE  RowFacts' /\ PlanFacts'
  <1>1. RowFacts'
    <2> SUFFICES ASSUME NEW x \in Rows, rows[x] # Absent
                 PROVE  Belongs(rows[x], holders', stripe')
      BY DEF RowFacts
    <2>1. rows[x] \in RowType /\ Belongs(rows[x], holders, stripe)
      BY DEF IInv, TypeOK, RowFacts
    <2> QED
      BY <2>1, BelongsKept
  <1>2. PlanFacts'
    <2> SUFFICES ASSUME NEW t \in Tenants
                 PROVE  Bought(t, plan[t], stripe')
      BY DEF PlanFacts
    <2>1. Bought(t, plan[t], stripe)
      BY DEF IInv, PlanFacts
    <2> QED
      BY <2>1, BoughtKept
  <1> QED
    BY <1>1, <1>2

\* The requests' facts, when none of them does a step.
LEMMA Waiting ==
  ASSUME IInv, Grows(holders, holders'), Keeps(stripe, stripe'), UNCHANGED <<rows, request>>
  PROVE  /\ RequestType' /\ RequestFacts' /\ Reserved'
         /\ \A p \in Requests : ReqType(request'[p])
  <1>1. RequestFacts'
    BY RequestsTyped, SoundKept DEF IInv, RequestFacts
  <1>2. RequestType' /\ Reserved'
    BY DEF IInv, RequestType, Reserved, Writes, Writing
  <1> QED
    BY <1>1, <1>2, RequestsTyped DEF IInv

\* A request that ends, and writes nothing to the rows.
LEMMA Ended ==
  ASSUME IInv, NEW r \in Requests, request' = [request EXCEPT ![r] = Idle],
         UNCHANGED <<rows, holders, stripe>>
  PROVE  /\ RequestType' /\ RequestFacts' /\ Reserved'
         /\ \A p \in Requests : ReqType(request'[p])
         /\ Grows(holders, holders') /\ Keeps(stripe, stripe')
  <1>1. Grows(holders, holders') /\ Keeps(stripe, stripe')
    BY DEF Grows, Keeps
  <1>2. ReqType(Idle) /\ ~Writes(Idle) /\ Sound(Idle, holders', stripe')
    BY DEF ReqType, RequestStates, Writes, Writing, Sound, Idle
  <1>3. [request EXCEPT ![r] = Idle][r] = Idle
    BY DEF IInv, RequestType
  <1>4. Holding(r, [request EXCEPT ![r] = Idle], rows)
    BY <1>2, <1>3 DEF Holding
  <1> QED
    BY <1>1, <1>2, <1>4, Decided

\* A commit that goes through.
LEMMA Flushed ==
  ASSUME IInv, NEW r \in Requests, Writes(request[r]),
         request' = [request EXCEPT ![r] = Idle],
         rows' = Written(request[r]),
         plan' = [plan EXCEPT ![request[r].tenant] =
                     IF request[r].planNew = request[r].planSeen THEN @ ELSE request[r].planNew],
         UNCHANGED <<holders, stripe>>
  PROVE  /\ rows' \in [Rows -> RowType] /\ plan' \in [Tenants -> TenantPlans]
         /\ \A p \in Requests : ReqType(request'[p])
         /\ RequestType' /\ RowFacts' /\ PlanFacts' /\ RequestFacts' /\ Reserved'
  <1> DEFINE q == request[r]
             m == Merge(rows[q.row], q.seen, q.new)
  <1>1. /\ q.row \in Rows /\ q.seen \in RowType /\ q.new \in RowType
        /\ q.tenant \in Tenants /\ q.planSeen \in TenantPlans /\ q.planNew \in TenantPlans
    BY RequestsTyped DEF IInv, Fields, Writes, Writing, Idle
  <1>2. /\ Belongs(q.new, holders, stripe) /\ q.new.tenant = q.tenant
        /\ Bought(q.tenant, q.planNew, stripe)
    BY DEF IInv, RequestFacts, Sound
  <1>3. rows \in [Rows -> RowType] /\ plan \in [Tenants -> TenantPlans]
    BY DEF IInv, TypeOK
  <1>4. rows' = [rows EXCEPT ![q.row] = m]
    BY DEF Written
  <1>5. m \in RowType /\ Belongs(m, holders, stripe) /\ m.tenant = q.tenant
    <2>1. CASE q.seen = Absent
      <3>1. rows[q.row] = Absent
        BY <2>1 DEF IInv, Reserved
      <3> QED
        BY <1>1, <1>2, <2>1, <3>1, MergeNew
    <2>2. CASE q.seen # Absent
      <3>1. rows[q.row].tenant = q.tenant
        BY <2>2 DEF IInv, Reserved
      <3>2. rows[q.row] # Absent
        BY <1>1, <3>1, IdsAssumption DEF Absent
      <3>3. Belongs(rows[q.row], holders, stripe)
        BY <1>1, <3>2 DEF IInv, RowFacts
      <3> QED
        BY <1>1, <1>2, <1>3, <3>1, <3>3, MergeTyped, MergeBelongs
    <2> QED
      BY <2>1, <2>2
  <1>6. rows' \in [Rows -> RowType] /\ plan' \in [Tenants -> TenantPlans]
    BY <1>1, <1>3, <1>4, <1>5
  <1>7. \A p \in Requests : request'[p] = IF p = r THEN Idle ELSE request[p]
    BY DEF IInv, RequestType
  <1>8. ReqType(Idle) /\ ~Writes(Idle) /\ Sound(Idle, holders, stripe)
    BY DEF ReqType, RequestStates, Writes, Writing, Sound, Idle
  <1>9. \A p \in Requests : ReqType(request'[p])
    BY <1>7, <1>8, RequestsTyped DEF IInv
  <1>10. RequestType'
    BY <1>7 DEF IInv, RequestType
  <1>11. RowFacts'
    BY <1>1, <1>3, <1>4, <1>5 DEF IInv, RowFacts
  <1>12. PlanFacts'
    BY <1>1, <1>2, <1>3 DEF IInv, PlanFacts
  <1>13. RequestFacts'
    BY <1>7, <1>8 DEF IInv, RequestFacts
  <1>14. Reserved'
    <2> SUFFICES ASSUME NEW p \in Requests, p # r, Writes(request[p])
                 PROVE  IF request[p].seen = Absent
                        THEN /\ rows'[request[p].row] = Absent
                             /\ \A o \in Requests \ {p} :
                                   Writes(request'[o]) => request'[o].row # request[p].row
                        ELSE rows'[request[p].row].tenant = request[p].tenant
      BY <1>7, <1>8 DEF Reserved
    <2>1. request[p].row \in Rows /\ request[p].seen \in RowType /\ request[p].tenant \in Tenants
      BY RequestsTyped DEF IInv, Fields, Writes, Writing, Idle
    <2>2. CASE request[p].seen = Absent
      <3>1. /\ rows[request[p].row] = Absent
            /\ \A o \in Requests \ {p} : Writes(request[o]) => request[o].row # request[p].row
        BY <2>2 DEF IInv, Reserved
      <3>2. rows'[request[p].row] = Absent
        BY <1>1, <1>3, <1>4, <2>1, <3>1
      <3> QED
        BY <1>7, <1>8, <2>2, <3>1, <3>2
    <2>3. CASE request[p].seen # Absent
      <3>1. rows[request[p].row].tenant = request[p].tenant
        BY <2>3 DEF IInv, Reserved
      <3>2. CASE request[p].row # q.row
        BY <1>3, <1>4, <2>1, <2>3, <3>1, <3>2
      <3>3. CASE request[p].row = q.row
        <4>1. q.seen # Absent
          BY <2>1, <3>1, <3>3, IdsAssumption DEF IInv, Reserved, Absent
        <4>2. rows[q.row].tenant = q.tenant
          BY <4>1 DEF IInv, Reserved
        <4> QED
          BY <1>1, <1>3, <1>4, <1>5, <2>3, <3>1, <3>3, <4>2
      <3> QED
        BY <3>2, <3>3
    <2> QED
      BY <2>2, <2>3
  <1> QED
    BY <1>6, <1>9, <1>10, <1>11, <1>12, <1>13, <1>14
\* A request that decides on a new row, or on a row of its tenant's.
LEMMA DecidesRow ==
  ASSUME IInv, NEW r \in Requests, NEW kind \in Writing, NEW about,
         about \in IF kind \in {"checkout", "opened"} THEN Sessions ELSE Events,
         NEW x \in Rows, NEW new \in RowType, NEW t \in Tenants, NEW p \in TenantPlans,
         request' = [request EXCEPT ![r] = Decide(kind, about, x, new, t, p)],
         Grows(holders, holders'), Keeps(stripe, stripe'), UNCHANGED rows,
         Fresh(x) \/ rows[x].tenant = t,
         Belongs(new, holders', stripe'), new.tenant = t, Bought(t, p, stripe'),
         Asked(t, plan[t], p, stripe'),
         kind \in {"checkout", "opened"} => Holds(about, holders')
  PROVE  /\ RequestType' /\ RequestFacts' /\ Reserved'
         /\ \A o \in Requests : ReqType(request'[o])
  <1> DEFINE q == Decide(kind, about, x, new, t, p)
  <1>1. /\ q.at = kind /\ q.about = about /\ q.row = x /\ q.seen = rows[x] /\ q.new = new
        /\ q.tenant = t /\ q.planSeen = plan[t] /\ q.planNew = p
    BY DEF Decide
  <1>2. rows[x] \in RowType /\ plan[t] \in TenantPlans
    BY DEF IInv, TypeOK
  <1>3. [request EXCEPT ![r] = q][r] = q
    BY DEF IInv, RequestType
  <1>4. \A o \in Requests \ {r} : [request EXCEPT ![r] = q][o] = request[o]
    BY DEF IInv, RequestType
  <1>5. Fresh(x) => /\ rows[x] = Absent
                    /\ \A o \in Requests : Writes(request[o]) => request[o].row # x
    BY DEF Fresh, Writers, Writes, Writing
  <1>6. rows[x].tenant = t => rows[x] # Absent
    BY IdsAssumption DEF Absent
  <1>7. ReqType(q) /\ Writes(q)
    BY <1>2 DEF ReqType, RequestStates, Decision, Decide, Writes, Writing
  <1> HIDE DEF q
  <1>8. Sound(q, holders', stripe')
    BY <1>1, <1>5 DEF Sound, Writing
  <1>9. Holding(r, [request EXCEPT ![r] = q], rows)
    BY <1>1, <1>3, <1>4, <1>5, <1>6 DEF Holding
  <1>10. \A o \in Requests \ {r} :
            /\ Writes(q) /\ Writes(request[o]) /\ request[o].seen = Absent
            => request[o].row # q.row
    BY <1>1, <1>5, <1>6 DEF IInv, Reserved
  <1>11. request' = [request EXCEPT ![r] = q]
    BY DEF q
  <1> QED
    BY <1>7, <1>8, <1>9, <1>10, <1>11, Decided

\* A row that is there is its tenant's.
LEMMA RowsBelong ==
  ASSUME IInv, NEW x \in Rows, rows[x] # Absent
  PROVE  /\ rows[x] \in RowType /\ Belongs(rows[x], holders, stripe)
         /\ rows[x].tenant \in Tenants /\ plan[rows[x].tenant] \in TenantPlans
         /\ Bought(rows[x].tenant, plan[rows[x].tenant], stripe)
  <1>1. rows[x] \in RowType /\ Belongs(rows[x], holders, stripe)
    BY DEF IInv, TypeOK, RowFacts
  <1>2. rows[x].tenant \in Tenants
    BY <1>1 DEF Belongs
  <1> QED
    BY <1>1, <1>2 DEF IInv, TypeOK, PlanFacts

-----------------------------------------------------------------------------
(* Requests of the tenant.                                                 *)

\* A checkout decides on a row of its own, or on the tenant's.
LEMMA CheckoutStep ==
  ASSUME IInv, NEW r \in Requests, NEW t \in Tenants, NEW c \in Customers, NEW p \in Plans,
         Checkout(r, t, c, p)
  PROVE  IInv'
  <1> DEFINE n == [tenant |-> t, customer |-> c, plan |-> p]
             own == [Absent EXCEPT !.tenant = t]
             linked == [own EXCEPT !.customer = c]
             fresh == [linked EXCEPT !.status = "incomplete"]
  <1>1. /\ request[r] = Idle
        /\ holders' = [holders EXCEPT ![c] = @ \cup {t}]
        /\ UNCHANGED <<rows, plan, invoices, sessions, stripe, events>>
    BY DEF Checkout, database
  <1>2. Tables /\ holders \in [Customers -> SUBSET Tenants]
    BY TypesSplit DEF IInv, Tables
  <1>3. /\ holders' \in [Customers -> SUBSET Tenants] /\ t \in holders'[c]
        /\ Grows(holders, holders') /\ Keeps(stripe, stripe')
    BY <1>1, <1>2 DEF Grows, Keeps
  <1>4. Tables'
    BY <1>1, <1>2, <1>3 DEF Tables
  <1>5. RowFacts' /\ PlanFacts'
    BY <1>1, <1>3, TablesKept
  <1>6. StripeFacts'
    BY <1>1, <1>2, <1>3 DEF IInv, StripeFacts, Holds, Bills, Grows, Tables, Sessions
  <1>7. fresh \in RowType /\ fresh.tenant = t /\ fresh.customer = c /\ fresh.sub = "none"
    <2>1. Absent \in RowType /\ Absent.sub = "none"
      BY DEF Absent, RowType, RowStatuses
    <2>2. own \in RowType /\ own.tenant = t /\ own.sub = "none"
      BY <2>1 DEF RowType
    <2> HIDE DEF own
    <2>3. linked \in RowType /\ linked.tenant = t /\ linked.customer = c /\ linked.sub = "none"
      BY <2>2 DEF RowType
    <2> HIDE DEF linked
    <2> QED
      BY <2>3 DEF RowType, RowStatuses
  <1>8. \/ \E x \in Rows :
              /\ Fresh(x)
              /\ request' = [request EXCEPT ![r] = Decide("checkout", n, x, fresh, t, plan[t])]
        \/ \E x \in Rows :
              /\ RowsOf(t) = {x}
              /\ request' = [request EXCEPT ![r] = Decide("checkout", n, x, rows[x], t, plan[t])]
        \/ UNCHANGED request
    BY DEF Checkout
  <1>9. n \in Sessions /\ Holds(n, holders')
    BY <1>3 DEF Sessions, Holds
  <1>10. /\ plan[t] \in TenantPlans /\ Bought(t, plan[t], stripe')
         /\ Asked(t, plan[t], plan[t], stripe')
    BY <1>1, <1>2, <1>5 DEF Tables, PlanFacts, Asked
  <1> HIDE DEF n, own, linked, fresh
  <1>11. /\ RequestType' /\ RequestFacts' /\ Reserved'
         /\ \A o \in Requests : ReqType(request'[o])
    <2>1. CASE UNCHANGED request
      BY <1>1, <1>3, <2>1, Waiting
    <2>2. ASSUME NEW x \in Rows, Fresh(x),
                 request' = [request EXCEPT ![r] = Decide("checkout", n, x, fresh, t, plan[t])]
          PROVE  <1>11!1 /\ <1>11!2
      <3>1. Belongs(fresh, holders', stripe')
        BY <1>3, <1>7 DEF Belongs
      <3> QED
        BY <1>1, <1>3, <1>7, <1>9, <1>10, <2>2, <3>1, DecidesRow DEF Writing
    <2>3. ASSUME NEW x \in Rows, RowsOf(t) = {x},
                 request' = [request EXCEPT ![r] = Decide("checkout", n, x, rows[x], t, plan[t])]
          PROVE  <1>11!1 /\ <1>11!2
      <3>1. rows[x].tenant = t /\ rows[x] # Absent
        BY <2>3, IdsAssumption DEF RowsOf, Absent
      <3>2. rows[x] \in RowType /\ Belongs(rows[x], holders', stripe')
        BY <1>1, <1>5, <3>1, RowsBelong DEF RowFacts
      <3> QED
        BY <1>1, <1>3, <1>9, <1>10, <2>3, <3>1, <3>2, DecidesRow DEF Writing
    <2> QED
      BY <1>8, <2>1, <2>2, <2>3
  <1> QED
    BY <1>4, <1>5, <1>6, <1>11, TypesSplit DEF IInv
\* Stripe changes a subscription's state, and tells it.
LEMMA SubscriptionChanges ==
  ASSUME IInv, NEW s \in Subs, stripe[s].tenant \in Tenants,
         NEW st \in RowStatuses, NEW flag \in BOOLEAN, NEW k \in {"updated", "deleted"},
         stripe[s].status = "canceled" \/ k = "deleted" => st = "canceled",
         stripe' = [stripe EXCEPT ![s] = [tenant |-> @.tenant, customer |-> @.customer,
                                          plan |-> @.plan, status |-> st, cancels |-> flag]],
         events' = events \/ events' = events \cup {Event(k, s, stripe'[s])},
         UNCHANGED <<database, holders, sessions>>
  PROVE  /\ Tables' /\ RowFacts' /\ PlanFacts' /\ StripeFacts'
         /\ Grows(holders, holders') /\ Keeps(stripe, stripe')
         /\ Event(k, s, stripe'[s]) \in Events
  <1>1. Tables /\ stripe \in [Subs -> StripeType] /\ stripe[s] \in StripeType
    BY TypesSplit DEF IInv, Tables
  <1>2. /\ rows' = rows /\ plan' = plan /\ invoices' = invoices
        /\ holders' = holders /\ sessions' = sessions
    BY DEF database
  <1> DEFINE u == [tenant |-> stripe[s].tenant, customer |-> stripe[s].customer,
                   plan |-> stripe[s].plan, status |-> st, cancels |-> flag]
  <1>3. u \in StripeType
    BY <1>1 DEF StripeType
  <1>4. /\ u.tenant = stripe[s].tenant /\ u.customer = stripe[s].customer /\ u.plan = stripe[s].plan
        /\ u.status = st /\ u.cancels = flag
    OBVIOUS
  <1>5. stripe' = [stripe EXCEPT ![s] = u]
    OBVIOUS
  <1> HIDE DEF u
  <1>6. stripe' \in [Subs -> StripeType] /\ stripe'[s] = u
    BY <1>1, <1>3, <1>5
  <1>7. /\ Event(k, s, stripe'[s]) \in Events
        /\ Event(k, s, stripe'[s]).sub = s /\ Event(k, s, stripe'[s]).type = k
    BY <1>4, <1>6 DEF Event, Events
  <1>8. Tables'
    BY <1>1, <1>2, <1>6, <1>7 DEF Tables
  <1>9. \A i \in Subs : stripe'[i] = IF i = s THEN u ELSE stripe[i]
    BY <1>1, <1>5
  <1>10. Grows(holders, holders') /\ Keeps(stripe, stripe')
    BY <1>2, <1>4, <1>9 DEF Grows, Keeps
  <1>11. RowFacts' /\ PlanFacts'
    BY <1>2, <1>10, TablesKept
  <1>12. StripeFacts'
    <2>1. \A i \in Subs : stripe'[i].tenant = stripe[i].tenant
      BY <1>4, <1>9
    <2>2. \A i \in Subs : stripe'[i].customer = stripe[i].customer
      BY <1>4, <1>9
    <2>3. \A i \in Subs : stripe'[i].tenant = "none" => stripe'[i] = Unborn
      BY <1>9, <2>1, IdsAssumption DEF IInv, StripeFacts
    <2>4. \A e \in events' : e.sub \in Subs /\ stripe[e.sub].tenant \in Tenants
      BY <1>1, <1>7 DEF IInv, StripeFacts, Tables, Events
    <2>5. \A e \in events' : e.type = "deleted" => stripe'[e.sub].status = "canceled"
      BY <1>4, <1>7, <1>9, <2>4 DEF IInv, StripeFacts
    <2> QED
      BY <1>2, <2>1, <2>2, <2>3, <2>4, <2>5 DEF IInv, StripeFacts, Holds, Bills
  <1> QED
    BY <1>7, <1>8, <1>10, <1>11, <1>12

\* A subscription that is there is somebody's.
LEMMA SubscriptionOwned ==
  ASSUME IInv, NEW s \in Subs, stripe[s].status # "none"
  PROVE  stripe[s].tenant \in Tenants /\ stripe[s] \in StripeType
  <1>1. stripe[s] \in StripeType /\ stripe[s] # Unborn
    BY DEF IInv, TypeOK, Unborn
  <1> QED
    BY <1>1 DEF IInv, StripeFacts, StripeType

\* Cancelling writes a flag to the tenant's row and to a subscription of somebody's.
LEMMA SetCancelStep ==
  ASSUME IInv, NEW r \in Requests, NEW t \in Tenants, NEW flag \in BOOLEAN,
         SetCancel(r, t, flag)
  PROVE  IInv'
  <1>1. PICK x \in Rows, s \in Subs :
          /\ RowsOf(t) = {x}
          /\ stripe[s].status \in {"active", "past_due"}
          /\ stripe' = [stripe EXCEPT ![s].cancels = flag]
          /\ \/ events' = events
             \/ events' = events \cup {Event("updated", s, stripe'[s])}
          /\ request' = [request EXCEPT ![r] =
                Decide("endpoint", Event("updated", s, stripe'[s]), x,
                       [rows[x] EXCEPT !.cancels = flag], t, plan[t])]
    BY DEF SetCancel
  <1>2. UNCHANGED <<database, holders, sessions>>
    BY DEF SetCancel
  <1>3. stripe[s].tenant \in Tenants /\ stripe[s] \in StripeType
    BY <1>1, SubscriptionOwned
  <1>4. stripe' = [stripe EXCEPT ![s] = [tenant |-> @.tenant, customer |-> @.customer,
                      plan |-> @.plan, status |-> stripe[s].status, cancels |-> flag]]
    <2>1. [stripe[s] EXCEPT !.cancels = flag] =
             [tenant |-> stripe[s].tenant, customer |-> stripe[s].customer,
              plan |-> stripe[s].plan, status |-> stripe[s].status, cancels |-> flag]
      BY <1>3 DEF StripeType
    <2> QED
      BY <1>1, <2>1
  <1>5. /\ Tables' /\ RowFacts' /\ PlanFacts' /\ StripeFacts'
        /\ Grows(holders, holders') /\ Keeps(stripe, stripe')
        /\ Event("updated", s, stripe'[s]) \in Events
    <2>1. stripe[s].status \in RowStatuses
      BY <1>1 DEF RowStatuses
    <2> QED
      BY <1>1, <1>2, <1>3, <1>4, <2>1, SubscriptionChanges
  <1>6. rows[x].tenant = t /\ rows[x] # Absent /\ rows' = rows /\ plan' = plan
    BY <1>1, <1>2, IdsAssumption DEF RowsOf, Absent, database
  <1> DEFINE new == [rows[x] EXCEPT !.cancels = flag]
  <1>7. /\ rows[x] \in RowType /\ Belongs(rows[x], holders', stripe')
        /\ plan[t] \in TenantPlans /\ Bought(t, plan[t], stripe')
        /\ Asked(t, plan[t], plan[t], stripe')
    BY <1>5, <1>6, RowsBelong DEF RowFacts, PlanFacts, Asked
  <1>8. /\ new \in RowType /\ new.tenant = t
        /\ new.customer = rows[x].customer /\ new.sub = rows[x].sub
    BY <1>6, <1>7 DEF RowType
  <1>9. request' = [request EXCEPT ![r] =
                Decide("endpoint", Event("updated", s, stripe'[s]), x, new, t, plan[t])]
    BY <1>1
  <1> HIDE DEF new
  <1>10. Belongs(new, holders', stripe')
    BY <1>6, <1>7, <1>8 DEF Belongs
  <1>11. /\ RequestType' /\ RequestFacts' /\ Reserved'
         /\ \A o \in Requests : ReqType(request'[o])
    BY <1>5, <1>6, <1>7, <1>8, <1>9, <1>10, DecidesRow DEF Writing
  <1> QED
    BY <1>5, <1>11, TypesSplit DEF IInv
-----------------------------------------------------------------------------
(* Webhooks.                                                               *)

\* An event that is read or answered leaves the tables as they are.
LEMMA TablesStay ==
  ASSUME IInv, events' \subseteq events, UNCHANGED <<database, holders, sessions, stripe>>
  PROVE  /\ Tables' /\ RowFacts' /\ PlanFacts' /\ StripeFacts'
         /\ Grows(holders, holders') /\ Keeps(stripe, stripe')
  <1>1. /\ rows' = rows /\ plan' = plan /\ invoices' = invoices
        /\ holders' = holders /\ sessions' = sessions /\ stripe' = stripe
    BY DEF database
  <1>2. Tables'
    BY <1>1, TypesSplit DEF IInv, Tables
  <1>3. Grows(holders, holders') /\ Keeps(stripe, stripe')
    BY <1>1 DEF Grows, Keeps
  <1>4. RowFacts' /\ PlanFacts'
    BY <1>1, <1>3, TablesKept
  <1>5. StripeFacts'
    BY <1>1 DEF IInv, StripeFacts
  <1> QED
    BY <1>2, <1>3, <1>4, <1>5

\* A swallowed event changes nothing but what Stripe still sends.
LEMMA SwallowStep ==
  ASSUME IInv, NEW r, NEW e, Swallow(r, e), UNCHANGED <<database, holders, sessions, stripe>>
  PROVE  IInv'
  <1>1. events' \subseteq events /\ UNCHANGED request
    BY DEF Swallow, Answer
  <1>2. /\ Tables' /\ RowFacts' /\ PlanFacts' /\ StripeFacts'
        /\ Grows(holders, holders') /\ Keeps(stripe, stripe')
    BY <1>1, TablesStay
  <1>3. UNCHANGED rows
    BY DEF database
  <1>4. /\ RequestType' /\ RequestFacts' /\ Reserved'
        /\ \A p \in Requests : ReqType(request'[p])
    BY <1>1, <1>2, <1>3, Waiting
  <1> QED
    BY <1>2, <1>4, TypesSplit DEF IInv

\* A handler that decides on a row.
LEMMA HandlerStep ==
  ASSUME IInv, NEW r \in Requests, NEW e \in events, NEW x \in Rows, NEW new \in RowType,
         NEW t \in Tenants, NEW p \in TenantPlans,
         request' = [request EXCEPT ![r] = Decide("event", e, x, new, t, p)],
         UNCHANGED <<database, holders, sessions, stripe, events>>,
         Fresh(x) \/ rows[x].tenant = t,
         Belongs(new, holders, stripe), new.tenant = t, Bought(t, p, stripe),
         Asked(t, plan[t], p, stripe)
  PROVE  IInv'
  <1>1. events' \subseteq events /\ UNCHANGED <<rows, holders, stripe>> /\ e \in Events
    BY DEF database, IInv, TypeOK
  <1>2. /\ Tables' /\ RowFacts' /\ PlanFacts' /\ StripeFacts'
        /\ Grows(holders, holders') /\ Keeps(stripe, stripe')
    BY <1>1, TablesStay
  <1>3. /\ Belongs(new, holders', stripe') /\ Bought(t, p, stripe')
        /\ Asked(t, plan[t], p, stripe')
    BY <1>1
  <1>4. /\ RequestType' /\ RequestFacts' /\ Reserved'
        /\ \A o \in Requests : ReqType(request'[o])
    BY <1>1, <1>2, <1>3, DecidesRow DEF Writing
  <1> QED
    BY <1>2, <1>4, TypesSplit DEF IInv

\* An event is about a subscription of somebody's, with a customer of its own.
LEMMA EventOwned ==
  ASSUME IInv, NEW e \in events
  PROVE  /\ e \in Events /\ e.sub \in Subs /\ stripe[e.sub] \in StripeType
         /\ stripe[e.sub].tenant \in Tenants /\ stripe[e.sub].customer \in Customers
         /\ stripe[e.sub].tenant \in holders[stripe[e.sub].customer]
  <1>1. e \in Events /\ e.sub \in Subs
    BY DEF IInv, TypeOK, Events
  <1> QED
    BY <1>1 DEF IInv, TypeOK, StripeFacts, Holds

\* The row gets the customer and the subscription of one tenant.
LEMMA CheckoutCompletedStep ==
  ASSUME IInv, NEW r \in Requests, NEW e \in events, CheckoutCompleted(r, e)
  PROVE  IInv'
  <1> DEFINE sub == stripe[e.sub]
             t == sub.tenant
             Paid(row) == [row EXCEPT !.tenant = t, !.customer = sub.customer,
                                      !.sub = e.sub, !.status = "active"]
  <1>1. UNCHANGED <<database, holders, sessions, stripe>>
    BY DEF CheckoutCompleted
  <1>2. /\ e \in Events /\ e.sub \in Subs /\ sub \in StripeType
        /\ t \in Tenants /\ sub.customer \in Customers /\ t \in holders[sub.customer]
    BY EventOwned
  <1>3. \/ \E x \in Rows :
             /\ Fresh(x) \/ RowsOf(t) = {x}
             /\ request' = [request EXCEPT ![r] =
                               Decide("event", e, x, Paid(rows[x]), t, sub.plan)]
             /\ UNCHANGED events
        \/ Swallow(r, e)
    BY DEF CheckoutCompleted
  <1>4. CASE Swallow(r, e)
    BY <1>1, <1>4, SwallowStep
  <1>5. ASSUME NEW x \in Rows, Fresh(x) \/ RowsOf(t) = {x},
               request' = [request EXCEPT ![r] =
                              Decide("event", e, x, Paid(rows[x]), t, sub.plan)],
               UNCHANGED events
        PROVE  IInv'
    <2>1. Fresh(x) \/ rows[x].tenant = t
      BY <1>5 DEF RowsOf
    <2> DEFINE a == [rows[x] EXCEPT !.tenant = t]
               b == [a EXCEPT !.customer = sub.customer]
               c == [b EXCEPT !.sub = e.sub]
               new == [c EXCEPT !.status = "active"]
    <2>2. request' = [request EXCEPT ![r] = Decide("event", e, x, new, t, sub.plan)]
      BY <1>5
    <2>3. rows[x] \in RowType
      BY DEF IInv, TypeOK
    <2>4. a \in RowType /\ a.tenant = t
      BY <1>2, <2>3 DEF RowType
    <2> HIDE DEF a
    <2>5. b \in RowType /\ b.tenant = t /\ b.customer = sub.customer
      BY <1>2, <2>4 DEF RowType
    <2> HIDE DEF b
    <2>6. c \in RowType /\ c.tenant = t /\ c.customer = sub.customer /\ c.sub = e.sub
      BY <1>2, <2>5 DEF RowType
    <2> HIDE DEF c
    <2>7. new \in RowType /\ new.tenant = t /\ new.customer = sub.customer /\ new.sub = e.sub
      BY <2>6 DEF RowType, RowStatuses
    <2> HIDE DEF new
    <2>8. Belongs(new, holders, stripe)
      BY <1>2, <2>7 DEF Belongs
    <2>9. /\ sub.plan \in TenantPlans /\ Bought(t, sub.plan, stripe)
          /\ Asked(t, plan[t], sub.plan, stripe)
      BY <1>2 DEF StripeType, Bought, Asked
    <2>10. UNCHANGED <<database, holders, sessions, stripe, events>>
      BY <1>1, <1>5
    <2> HIDE DEF sub
    <2> QED
      BY <1>2, <2>1, <2>2, <2>7, <2>8, <2>9, <2>10, HandlerStep
  <1> QED
    BY <1>3, <1>4, <1>5

\* The row that is found by its subscription keeps its tenant.
LEMMA SubscriptionUpdatedStep ==
  ASSUME IInv, NEW r \in Requests, NEW e \in events, SubscriptionUpdated(r, e)
  PROVE  IInv'
  <1>1. UNCHANGED <<database, holders, sessions, stripe>>
    BY DEF SubscriptionUpdated
  <1>2. CASE Swallow(r, e)
    BY <1>1, <1>2, SwallowStep
  <1>3. ASSUME NEW x \in RowsWith(e.sub), UNCHANGED events,
               request' = [request EXCEPT ![r] =
                   Decide("event", e, x,
                          [rows[x] EXCEPT !.status = e.status, !.cancels = e.cancels],
                          rows[x].tenant, plan[rows[x].tenant])]
        PROVE  IInv'
    <2>1. e \in Events /\ e.sub \in Subs
      BY EventOwned
    <2>2. x \in Rows /\ rows[x].sub = e.sub
      BY DEF RowsWith
    <2>3. rows[x] # Absent
      BY <2>1, <2>2, IdsAssumption DEF Absent
    <2>4. /\ rows[x] \in RowType /\ Belongs(rows[x], holders, stripe)
          /\ rows[x].tenant \in Tenants /\ plan[rows[x].tenant] \in TenantPlans
          /\ Bought(rows[x].tenant, plan[rows[x].tenant], stripe)
      BY <2>2, <2>3, RowsBelong
    <2> DEFINE a == [rows[x] EXCEPT !.status = e.status]
               new == [a EXCEPT !.cancels = e.cancels]
    <2>5. request' = [request EXCEPT ![r] =
                         Decide("event", e, x, new, rows[x].tenant, plan[rows[x].tenant])]
      BY <1>3
    <2>6. e.status \in RowStatuses /\ e.cancels \in BOOLEAN
      BY <2>1 DEF Events
    <2>7. /\ a \in RowType /\ a.tenant = rows[x].tenant
          /\ a.customer = rows[x].customer /\ a.sub = rows[x].sub
      BY <2>4, <2>6 DEF RowType
    <2> HIDE DEF a
    <2>8. /\ new \in RowType /\ new.tenant = rows[x].tenant
          /\ new.customer = rows[x].customer /\ new.sub = rows[x].sub
      BY <2>6, <2>7 DEF RowType
    <2> HIDE DEF new
    <2>9. /\ Belongs(new, holders, stripe)
          /\ Asked(rows[x].tenant, plan[rows[x].tenant], plan[rows[x].tenant], stripe)
      BY <2>4, <2>8 DEF Belongs, Asked
    <2> QED
      BY <1>1, <1>3, <2>2, <2>4, <2>5, <2>8, <2>9, HandlerStep
  <1> QED
    BY <1>2, <1>3 DEF SubscriptionUpdated

\* The basic plan is given only after the subscription ended.
LEMMA SubscriptionDeletedStep ==
  ASSUME IInv, NEW r \in Requests, NEW e \in events, SubscriptionDeleted(r, e)
  PROVE  IInv'
  <1>1. UNCHANGED <<database, holders, sessions, stripe>>
    BY DEF SubscriptionDeleted
  <1>2. CASE Swallow(r, e)
    BY <1>1, <1>2, SwallowStep
  <1>3. ASSUME NEW x \in RowsWith(e.sub), UNCHANGED events,
               request' = [request EXCEPT ![r] =
                   Decide("event", e, x, [rows[x] EXCEPT !.status = "canceled"],
                          rows[x].tenant, "basic")]
        PROVE  IInv'
    <2>1. e \in Events /\ e.sub \in Subs
      BY EventOwned
    <2>2. x \in Rows /\ rows[x].sub = e.sub
      BY DEF RowsWith
    <2>3. rows[x] # Absent
      BY <2>1, <2>2, IdsAssumption DEF Absent
    <2>4. /\ rows[x] \in RowType /\ Belongs(rows[x], holders, stripe)
          /\ rows[x].tenant \in Tenants
      BY <2>2, <2>3, RowsBelong
    <2> DEFINE new == [rows[x] EXCEPT !.status = "canceled"]
    <2>5. request' = [request EXCEPT ![r] =
                         Decide("event", e, x, new, rows[x].tenant, "basic")]
      BY <1>3
    <2>6. /\ new \in RowType /\ new.tenant = rows[x].tenant
          /\ new.customer = rows[x].customer /\ new.sub = rows[x].sub
      BY <2>4 DEF RowType, RowStatuses
    <2> HIDE DEF new
    <2>7. Belongs(new, holders, stripe)
      BY <2>4, <2>6 DEF Belongs
    <2>8. "basic" \in TenantPlans /\ Bought(rows[x].tenant, "basic", stripe)
      BY DEF TenantPlans, Bought
    <2>9. Asked(rows[x].tenant, plan[rows[x].tenant], "basic", stripe)
      <3>1. stripe[e.sub].status = "canceled"
        BY DEF SubscriptionDeleted, IInv, StripeFacts
      <3> QED
        BY <2>1, <2>2, <2>4, <3>1, IdsAssumption DEF Asked, Belongs
    <2> QED
      BY <1>1, <1>3, <2>2, <2>4, <2>5, <2>6, <2>7, <2>8, <2>9, HandlerStep
  <1> QED
    BY <1>2, <1>3 DEF SubscriptionDeleted

\* The row that is found by its customer is of a tenant that holds the customer.
LEMMA InvoicePaidStep ==
  ASSUME IInv, NEW r \in Requests, NEW e \in events, InvoicePaid(r, e)
  PROVE  IInv'
  <1>1. UNCHANGED <<database, holders, sessions, stripe>>
    BY DEF InvoicePaid
  <1>2. CASE Swallow(r, e)
    BY <1>1, <1>2, SwallowStep
  <1>3. ASSUME NEW x \in RowsFor(stripe[e.sub].customer), UNCHANGED events,
               request' = [request EXCEPT ![r] =
                   [at |-> "invoice", about |-> e, tenant |-> rows[x].tenant]]
        PROVE  IInv'
    <2>1. /\ e \in Events /\ stripe[e.sub].customer \in Customers
          /\ stripe[e.sub].tenant \in Tenants
      BY EventOwned
    <2>2. x \in Rows /\ rows[x].customer = stripe[e.sub].customer
      BY DEF RowsFor
    <2>3. rows[x] # Absent
      BY <2>1, <2>2, IdsAssumption DEF Absent
    <2>4. rows[x].tenant \in Tenants /\ Bills(rows[x].tenant, e.sub, holders, stripe)
      BY <2>1, <2>2, <2>3, RowsBelong DEF Belongs, Bills
    <2> DEFINE q == [at |-> "invoice", about |-> e, tenant |-> rows[x].tenant]
    <2>5. q.at = "invoice" /\ q.about = e /\ q.tenant = rows[x].tenant
      OBVIOUS
    <2>6. request' = [request EXCEPT ![r] = q]
      BY <1>3
    <2>7. ReqType(q) /\ ~Writes(q)
      BY <2>1, <2>4 DEF ReqType, RequestStates, Writes, Writing
    <2> HIDE DEF q
    <2>8. /\ Tables' /\ RowFacts' /\ PlanFacts' /\ StripeFacts'
          /\ Grows(holders, holders') /\ Keeps(stripe, stripe')
      BY <1>1, <1>3, TablesStay
    <2>9. UNCHANGED <<rows, holders, stripe>>
      BY <1>1 DEF database
    <2>10. Sound(q, holders', stripe')
      BY <2>4, <2>5, <2>7, <2>9 DEF Sound
    <2>11. Holding(r, [request EXCEPT ![r] = q], rows)
      BY <2>7 DEF Holding, IInv, RequestType
    <2>12. /\ RequestType' /\ RequestFacts' /\ Reserved'
           /\ \A o \in Requests : ReqType(request'[o])
      BY <2>6, <2>8, <2>7, <2>9, <2>10, <2>11, Decided
    <2> QED
      BY <2>8, <2>12, TypesSplit DEF IInv
  <1> QED
    BY <1>2, <1>3 DEF InvoicePaid
-----------------------------------------------------------------------------
(* The ends of requests.                                                   *)

\* The commit of a session, whether it goes through or not.
LEMMA FlushKeeps ==
  ASSUME IInv, NEW r \in Requests, Writes(request[r]), Flush(request[r]),
         request' = [request EXCEPT ![r] = Idle], UNCHANGED <<holders, stripe>>
  PROVE  /\ rows' \in [Rows -> RowType] /\ plan' \in [Tenants -> TenantPlans]
         /\ \A p \in Requests : ReqType(request'[p])
         /\ RequestType' /\ RowFacts' /\ PlanFacts' /\ RequestFacts' /\ Reserved'
  <1>1. CASE Unique(Written(request[r]))
    <2>1. /\ rows' = Written(request[r])
          /\ plan' = [plan EXCEPT ![request[r].tenant] =
                         IF request[r].planNew = request[r].planSeen THEN @ ELSE request[r].planNew]
      BY <1>1 DEF Flush
    <2> QED
      BY <2>1, Flushed
  <1>2. CASE ~ Unique(Written(request[r]))
    <2>1. UNCHANGED <<rows, plan>>
      BY <1>2 DEF Flush
    <2>2. /\ RequestType' /\ RequestFacts' /\ Reserved'
          /\ \A p \in Requests : ReqType(request'[p])
          /\ Grows(holders, holders') /\ Keeps(stripe, stripe')
      BY <2>1, Ended
    <2>3. rows' \in [Rows -> RowType] /\ plan' \in [Tenants -> TenantPlans]
      BY <2>1 DEF IInv, TypeOK
    <2> QED
      BY <2>1, <2>2, <2>3, TablesKept
  <1> QED
    BY <1>1, <1>2

\* The tenant of a checkout's session holds its customer.
LEMMA SessionHeld ==
  ASSUME IInv, NEW r \in Requests, request[r].at = "checkout"
  PROVE  request[r].about \in Sessions /\ Holds(request[r].about, holders)
  <1> QED
    BY RequestsTyped DEF IInv, RequestFacts, Sound, Fields, Idle

\* The session to pay is for a customer that its tenant holds, and the request
\* goes on with what it decided.
LEMMA OpenSessionStep ==
  ASSUME IInv, NEW r \in Requests, OpenSession(r)
  PROVE  IInv'
  <1> DEFINE q == [request[r] EXCEPT !.at = "opened"]
  <1>1. /\ request[r].at = "checkout" /\ UNCHANGED <<rows, plan, invoices, holders, stripe, events>>
        /\ sessions' \in {sessions, sessions \cup {request[r].about}}
        /\ \/ request' = [request EXCEPT ![r] = Idle]
           \/ request' = [request EXCEPT ![r].at = "opened"]
    BY DEF OpenSession, database
  <1>2. Grows(holders, holders') /\ Keeps(stripe, stripe')
    BY <1>1 DEF Grows, Keeps
  <1>3. RowFacts' /\ PlanFacts'
    BY <1>1, <1>2, TablesKept
  <1>4. Tables'
    BY <1>1, SessionHeld, TypesSplit DEF IInv, Tables
  <1>5. StripeFacts'
    BY <1>1, SessionHeld DEF IInv, StripeFacts, Holds, Bills
  <1>6. /\ RequestType' /\ RequestFacts' /\ Reserved'
        /\ \A p \in Requests : ReqType(request'[p])
    <2>1. CASE request' = [request EXCEPT ![r] = Idle]
      BY <1>1, <2>1, Ended
    <2>2. CASE request' = [request EXCEPT ![r].at = "opened"]
      <3>1. ReqType(request[r]) /\ request[r] # Idle /\ Sound(request[r], holders, stripe)
        BY <1>1, RequestsTyped DEF IInv, RequestFacts, Idle
      <3>2. request[r] \in Decision({"checkout", "opened"}, Sessions)
        BY <1>1, <3>1 DEF ReqType, RequestStates, Decision, Idle
      <3>3. /\ q.at = "opened" /\ q.about = request[r].about /\ q.row = request[r].row
            /\ q.seen = request[r].seen /\ q.new = request[r].new /\ q.tenant = request[r].tenant
            /\ q.planSeen = request[r].planSeen /\ q.planNew = request[r].planNew
        BY <3>2 DEF Decision
      <3>4. ReqType(q) /\ Writes(q)
        BY <3>2 DEF ReqType, RequestStates, Decision, Writes, Writing
      <3> HIDE DEF q
      <3>5. Sound(q, holders', stripe')
        BY <1>1, <3>1, <3>3 DEF Sound, Writes, Writing
      <3>6. request' = [request EXCEPT ![r] = q]
        BY <2>2 DEF q
      <3>7. \A p \in Requests : [request EXCEPT ![r] = q][p] = IF p = r THEN q ELSE request[p]
        BY DEF IInv, RequestType
      <3>8. Writes(request[r])
        BY <1>1 DEF Writes, Writing
      <3>9. Holding(r, [request EXCEPT ![r] = q], rows)
        BY <3>3, <3>7, <3>8 DEF Holding, IInv, Reserved
      <3>10. \A p \in Requests \ {r} :
                /\ Writes(q) /\ Writes(request[p]) /\ request[p].seen = Absent
                => request[p].row # q.row
        BY <3>3, <3>8 DEF IInv, Reserved
      <3> QED
        BY <1>1, <1>2, <3>4, <3>5, <3>6, <3>9, <3>10, Decided
    <2> QED
      BY <1>1, <2>1, <2>2
  <1> QED
    BY <1>3, <1>4, <1>5, <1>6, TypesSplit DEF IInv

\* The commit of a checkout keeps every part.
LEMMA CommitCheckoutStep ==
  ASSUME IInv, NEW r \in Requests, CommitCheckout(r)
  PROVE  IInv'
  <1>1. /\ Writes(request[r]) /\ Flush(request[r])
        /\ request' = [request EXCEPT ![r] = Idle]
        /\ UNCHANGED <<invoices, holders, sessions, stripe, events>>
    BY DEF CommitCheckout, Writes, Writing
  <1>2. /\ rows' \in [Rows -> RowType] /\ plan' \in [Tenants -> TenantPlans]
        /\ \A p \in Requests : ReqType(request'[p])
        /\ RequestType' /\ RowFacts' /\ PlanFacts' /\ RequestFacts' /\ Reserved'
    BY <1>1, FlushKeeps
  <1>3. Tables'
    BY <1>1, <1>2, TypesSplit DEF IInv, Tables
  <1>4. StripeFacts'
    BY <1>1 DEF IInv, StripeFacts
  <1> QED
    BY <1>2, <1>3, <1>4, TypesSplit DEF IInv

\* The commit of a cancellation keeps every part.
LEMMA CommitEndpointStep ==
  ASSUME IInv, NEW r \in Requests, CommitEndpoint(r)
  PROVE  IInv'
  <1>1. /\ Writes(request[r]) /\ Flush(request[r])
        /\ request' = [request EXCEPT ![r] = Idle]
        /\ UNCHANGED <<invoices, holders, sessions, stripe, events>>
    BY DEF CommitEndpoint, Writes, Writing
  <1>2. /\ rows' \in [Rows -> RowType] /\ plan' \in [Tenants -> TenantPlans]
        /\ \A p \in Requests : ReqType(request'[p])
        /\ RequestType' /\ RowFacts' /\ PlanFacts' /\ RequestFacts' /\ Reserved'
    BY <1>1, FlushKeeps
  <1>3. Tables'
    BY <1>1, <1>2, TypesSplit DEF IInv, Tables
  <1>4. StripeFacts'
    BY <1>1 DEF IInv, StripeFacts
  <1> QED
    BY <1>2, <1>3, <1>4, TypesSplit DEF IInv

\* The commit of a webhook's session keeps every part.
LEMMA CommitEventStep ==
  ASSUME IInv, NEW r \in Requests, CommitEvent(r)
  PROVE  IInv'
  <1>1. /\ Writes(request[r]) /\ Flush(request[r])
        /\ request' = [request EXCEPT ![r] = Idle]
        /\ events' \subseteq events
        /\ UNCHANGED <<invoices, holders, sessions, stripe>>
    BY DEF CommitEvent, Writes, Writing, Answer
  <1>2. /\ rows' \in [Rows -> RowType] /\ plan' \in [Tenants -> TenantPlans]
        /\ \A p \in Requests : ReqType(request'[p])
        /\ RequestType' /\ RowFacts' /\ PlanFacts' /\ RequestFacts' /\ Reserved'
    BY <1>1, FlushKeeps
  <1>3. Tables'
    BY <1>1, <1>2, TypesSplit DEF IInv, Tables
  <1>4. StripeFacts'
    BY <1>1 DEF IInv, StripeFacts
  <1> QED
    BY <1>2, <1>3, <1>4, TypesSplit DEF IInv

\* An invoice is recorded for a tenant that holds its customer.
LEMMA CommitInvoiceStep ==
  ASSUME IInv, NEW r \in Requests, CommitInvoice(r)
  PROVE  IInv'
  <1> DEFINE e == request[r].about
  <1>1. /\ request[r].at = "invoice"
        /\ invoices' = [invoices EXCEPT ![e.sub] = IF @ = "none" THEN request[r].tenant ELSE @]
        /\ request' = [request EXCEPT ![r] = Idle]
        /\ events' \subseteq events
        /\ UNCHANGED <<rows, plan, holders, sessions, stripe>>
    BY DEF CommitInvoice, Answer
  <1>2. e \in Events /\ e.sub \in Subs /\ request[r].tenant \in Tenants
    BY <1>1, RequestsTyped DEF IInv, Fields, Writing, Idle, Events
  <1>3. Bills(request[r].tenant, e.sub, holders, stripe)
    BY <1>1 DEF IInv, RequestFacts, Sound
  <1> HIDE DEF e
  <1>4. /\ RequestType' /\ RequestFacts' /\ Reserved'
        /\ \A p \in Requests : ReqType(request'[p])
        /\ Grows(holders, holders') /\ Keeps(stripe, stripe')
    BY <1>1, Ended
  <1>5. RowFacts' /\ PlanFacts'
    BY <1>1, <1>4, TablesKept
  <1>6. Tables'
    BY <1>1, <1>2, TypesSplit DEF IInv, Tables
  <1>7. StripeFacts'
    <2>1. \A i \in Subs : invoices'[i] = IF i = e.sub /\ invoices[i] = "none"
                                         THEN request[r].tenant ELSE invoices[i]
      BY <1>1, <1>2 DEF IInv, TypeOK
    <2> QED
      BY <1>1, <1>3, <2>1 DEF IInv, StripeFacts, Bills
  <1> QED
    BY <1>4, <1>5, <1>6, <1>7, TypesSplit DEF IInv

\* A request that is rolled back wrote nothing.
LEMMA RollbackStep ==
  ASSUME IInv, NEW r \in Requests, Rollback(r)
  PROVE  IInv'
  <1>1. /\ request' = [request EXCEPT ![r] = Idle]
        /\ events' \subseteq events
        /\ UNCHANGED <<database, holders, sessions, stripe>>
    BY DEF Rollback
  <1>2. UNCHANGED <<rows, holders, stripe>>
    BY <1>1 DEF database
  <1>3. /\ RequestType' /\ RequestFacts' /\ Reserved'
        /\ \A p \in Requests : ReqType(request'[p])
    BY <1>1, <1>2, Ended
  <1> QED
    BY <1>1, <1>3, TablesStay, TypesSplit DEF IInv

-----------------------------------------------------------------------------
(* Stripe.                                                                 *)

\* A new subscription is of a tenant that holds its customer.
LEMMA PayStep ==
  ASSUME IInv, NEW n \in sessions, NEW s \in Subs, Pay(n, s)
  PROVE  IInv'
  <1> DEFINE u == [tenant |-> n.tenant, customer |-> n.customer, plan |-> n.plan,
                   status |-> "active", cancels |-> FALSE]
  <1>1. /\ stripe[s] = Unborn
        /\ stripe' = [stripe EXCEPT ![s] = u]
        /\ events' = events \cup {Event(k, s, stripe'[s]) : k \in {"completed", "invoice"}}
        /\ sessions' \subseteq sessions
    BY DEF Pay
  <1>2. UNCHANGED <<rows, plan, invoices, request, holders>>
    BY DEF Pay, database
  <1>3. Tables /\ stripe \in [Subs -> StripeType]
    BY TypesSplit DEF IInv, Tables
  <1>4. /\ n.tenant \in Tenants /\ n.customer \in Customers /\ n.plan \in TenantPlans
        /\ n.tenant \in holders[n.customer]
    BY <1>3 DEF Tables, Sessions, TenantPlans, IInv, StripeFacts, Holds
  <1>5. /\ u \in StripeType /\ u.tenant = n.tenant /\ u.customer = n.customer
        /\ u.status = "active" /\ u.cancels = FALSE
    BY <1>4 DEF StripeType, RowStatuses
  <1> HIDE DEF u
  <1>6. stripe' \in [Subs -> StripeType] /\ stripe'[s] = u
    BY <1>1, <1>3, <1>5
  <1>7. \A e \in events' : e \in events \/ (e \in Events /\ e.sub = s /\ e.type # "deleted")
    <2>1. ASSUME NEW k \in {"completed", "invoice"}
          PROVE  /\ Event(k, s, u) \in Events
                 /\ Event(k, s, u).sub = s /\ Event(k, s, u).type = k
      <3>1. Event(k, s, u) = [type |-> k, sub |-> s, status |-> "active", cancels |-> FALSE]
        BY <1>5 DEF Event
      <3> QED
        BY <3>1 DEF Events, RowStatuses
    <2> QED
      BY <1>1, <1>6, <2>1
  <1>8. Tables'
    BY <1>1, <1>2, <1>3, <1>6, <1>7 DEF Tables
  <1>9. \A i \in Subs : stripe'[i] = IF i = s THEN u ELSE stripe[i]
    BY <1>1, <1>3
  <1>10. stripe[s].tenant = "none" /\ stripe[s].status # "canceled"
    BY <1>1 DEF Unborn
  <1>11. Grows(holders, holders') /\ Keeps(stripe, stripe')
    BY <1>2, <1>9, <1>10, IdsAssumption DEF Grows, Keeps
  <1>12. RowFacts' /\ PlanFacts'
    BY <1>2, <1>11, TablesKept
  <1>13. StripeFacts'
    <2>1. \A i \in Subs : stripe'[i].tenant = "none" => stripe'[i] = Unborn
      BY <1>4, <1>5, <1>9, IdsAssumption DEF IInv, StripeFacts
    <2>2. \A i \in Subs : stripe'[i].tenant \in Tenants =>
             stripe'[i].customer \in Customers /\ Holds(stripe'[i], holders')
      BY <1>2, <1>4, <1>5, <1>9 DEF IInv, StripeFacts, Holds
    <2>3. \A e \in events' : stripe'[e.sub].tenant \in Tenants
      BY <1>3, <1>4, <1>5, <1>7, <1>9 DEF IInv, StripeFacts, Tables, Events
    <2>4. \A i \in Subs : invoices'[i] # "none" => Bills(invoices'[i], i, holders', stripe')
      BY <1>2, <1>9, <1>10, IdsAssumption DEF IInv, StripeFacts, Bills
    <2>5. \A m \in sessions' : Holds(m, holders')
      BY <1>1, <1>2 DEF IInv, StripeFacts, Holds
    <2>6. \A e \in events' : e.type = "deleted" => stripe'[e.sub].status = "canceled"
      BY <1>3, <1>7, <1>9, <1>10, IdsAssumption DEF IInv, StripeFacts, Tables, Events
    <2> QED
      BY <2>1, <2>2, <2>3, <2>4, <2>5, <2>6 DEF StripeFacts
  <1>14. /\ RequestType' /\ RequestFacts' /\ Reserved'
         /\ \A p \in Requests : ReqType(request'[p])
    BY <1>2, <1>11, Waiting
  <1> QED
    BY <1>8, <1>12, <1>13, <1>14, TypesSplit DEF IInv

\* A subscription that goes on or ends is still the same one.
LEMMA RenewOrEndStep ==
  ASSUME IInv, NEW s \in Subs, Renew(s) \/ End(s)
  PROVE  IInv'
  <1>1. PICK st \in RowStatuses, k \in {"updated", "deleted"} :
          /\ stripe[s].status # "none"
          /\ stripe[s].status = "canceled" \/ k = "deleted" => st = "canceled"
          /\ stripe' = [stripe EXCEPT ![s].status = st]
          /\ events' = events \cup {Event(k, s, stripe'[s])}
    <2>1. CASE Renew(s)
      BY <2>1 DEF Renew, RowStatuses
    <2>2. CASE End(s)
      BY <2>2 DEF End, RowStatuses
    <2> QED
      BY <2>1, <2>2
  <1>2. UNCHANGED <<database, request, holders, sessions>>
    BY DEF Renew, End
  <1>3. stripe[s].tenant \in Tenants /\ stripe[s] \in StripeType
    BY <1>1, SubscriptionOwned
  <1>4. stripe' = [stripe EXCEPT ![s] = [tenant |-> @.tenant, customer |-> @.customer,
                      plan |-> @.plan, status |-> st, cancels |-> stripe[s].cancels]]
    <2>1. [stripe[s] EXCEPT !.status = st] =
             [tenant |-> stripe[s].tenant, customer |-> stripe[s].customer,
              plan |-> stripe[s].plan, status |-> st, cancels |-> stripe[s].cancels]
      BY <1>3 DEF StripeType
    <2> QED
      BY <1>1, <2>1
  <1>5. /\ Tables' /\ RowFacts' /\ PlanFacts' /\ StripeFacts'
        /\ Grows(holders, holders') /\ Keeps(stripe, stripe')
    <2>1. stripe[s].cancels \in BOOLEAN
      BY <1>3 DEF StripeType
    <2> QED
      BY <1>1, <1>2, <1>3, <1>4, <2>1, SubscriptionChanges
  <1>6. UNCHANGED <<rows, request>>
    BY <1>2 DEF database
  <1>7. /\ RequestType' /\ RequestFacts' /\ Reserved'
        /\ \A p \in Requests : ReqType(request'[p])
    BY <1>5, <1>6, Waiting
  <1> QED
    BY <1>5, <1>7, TypesSplit DEF IInv
-----------------------------------------------------------------------------
(* The theorems.                                                           *)

\* At first there is nothing to be wrong about.
LEMMA InitIInv == Init => IInv
  <1> SUFFICES ASSUME Init
               PROVE  IInv
    OBVIOUS
  <1>1. TypeOK
    <2>1. Absent \in RowType
      BY DEF Absent, RowType, RowStatuses
    <2>2. Unborn \in StripeType
      BY DEF Unborn, StripeType, TenantPlans, RowStatuses
    <2> QED
      BY <2>1, <2>2 DEF Init, TypeOK, TenantPlans, RequestStates
  <1>2. RequestType /\ RequestFacts /\ Reserved
    BY DEF Init, RequestType, RequestFacts, Reserved, Sound, Writes, Writing, Idle
  <1>3. RowFacts /\ PlanFacts
    BY DEF Init, RowFacts, PlanFacts, Bought
  <1>4. StripeFacts
    BY IdsAssumption DEF Init, StripeFacts, Unborn
  <1> QED
    BY <1>1, <1>2, <1>3, <1>4 DEF IInv

\* Every action keeps every part.
LEMMA NextIInv ==
  ASSUME IInv, [Next]_vars
  PROVE  IInv'
  <1>1. ASSUME NEW r \in Requests, NEW t \in Tenants, NEW c \in Customers, NEW p \in Plans,
               Checkout(r, t, c, p)
        PROVE  IInv'
    BY <1>1, CheckoutStep
  <1>2. ASSUME NEW r \in Requests, NEW t \in Tenants, NEW flag \in BOOLEAN, SetCancel(r, t, flag)
        PROVE  IInv'
    BY <1>2, SetCancelStep
  <1>3. ASSUME NEW r \in Requests, NEW e \in events, Handle(r, e)
        PROVE  IInv'
    BY <1>3, CheckoutCompletedStep, SubscriptionUpdatedStep, SubscriptionDeletedStep,
       InvoicePaidStep DEF Handle
  <1>4. ASSUME NEW r \in Requests, Commit(r) \/ Rollback(r)
        PROVE  IInv'
    BY <1>4, OpenSessionStep, CommitCheckoutStep, CommitEndpointStep, CommitEventStep,
       CommitInvoiceStep, RollbackStep DEF Commit
  <1>5. ASSUME NEW n \in sessions, NEW s \in Subs, Pay(n, s)
        PROVE  IInv'
    BY <1>5, PayStep
  <1>6. ASSUME NEW s \in Subs, Renew(s) \/ End(s)
        PROVE  IInv'
    BY <1>6, RenewOrEndStep
  <1>7. CASE UNCHANGED vars
    <2>1. UNCHANGED <<rows, plan, invoices, request, holders, sessions, stripe, events>>
      BY <1>7 DEF vars, database
    <2> QED
      BY <2>1 DEF IInv, TypeOK, RequestType, RowFacts, StripeFacts, PlanFacts, RequestFacts,
                  Reserved, Writes
  <1> QED
    BY <1>1, <1>2, <1>3, <1>4, <1>5, <1>6, <1>7 DEF Next

\* So the invariant holds always.
LEMMA Invariance == Spec => []IInv
  <1> QED
    BY InitIInv, NextIInv, PTL DEF Spec

\* Every table holds values of its columns, and every request carries what a
\* session carries: the type invariant of billing.py's tables and handlers.
THEOREM TypeCorrect == Spec => []TypeOK
  <1>1. IInv => TypeOK
    BY DEF IInv
  <1> QED
    BY <1>1, Invariance, PTL

\* However many requests and webhooks work at once, on rows as stale as may be,
\* and however many tenants share an e-mail and with it a customer: a row's
\* subscription is its tenant's, and an invoice goes to a tenant that was given
\* its customer.
THEOREM NothingCrosses == Spec => []NothingCrossesTenants
  <1>1. IInv => NothingCrossesTenants
    BY DEF IInv, RowFacts, Belongs, StripeFacts, Bills, NothingCrossesTenants
  <1> QED
    BY <1>1, Invariance, PTL

\* tenant.plan is the basic plan or one the tenant bought at Stripe, whatever
\* order the webhooks come in.
THEOREM PlansAreBought == Spec => []PlanWasBought
  <1>1. IInv => PlanWasBought
    BY DEF IInv, PlanFacts, Bought, PlanWasBought
  <1> QED
    BY <1>1, Invariance, PTL

\* What the table refuses a second time stays single, and of the customers
\* there may be, each tenant has been given finitely many.
Owned(t) == {c \in Customers : t \in holders[c]}
SingleInv == Unique(rows) /\ \A t \in Tenants : IsFiniteSet(Owned(t))

\* Rows and plans are written by commits only, and customers given to tenants by
\* checkouts only.
LEMMA WhoWrites ==
  ASSUME Next
  PROVE  /\ UNCHANGED <<rows, plan>> \/ \E r \in Requests : Writes(request[r]) /\ Flush(request[r])
         /\ UNCHANGED holders \/ \E t \in Tenants, c \in Customers :
               holders' = [holders EXCEPT ![c] = @ \cup {t}]
  <1> DEFINE Table == UNCHANGED <<rows, plan>>
                      \/ \E r \in Requests : Writes(request[r]) /\ Flush(request[r])
             Created == UNCHANGED holders \/ \E t \in Tenants, c \in Customers :
                           holders' = [holders EXCEPT ![c] = @ \cup {t}]
  <1>1. ASSUME NEW r \in Requests, NEW t \in Tenants, NEW c \in Customers, NEW p \in Plans,
               Checkout(r, t, c, p)
        PROVE  Table /\ Created
    <2>1. Table
      BY <1>1 DEF Checkout, database
    <2>2. Created
      BY <1>1 DEF Checkout
    <2> QED
      BY <2>1, <2>2
  <1>2. ASSUME NEW r \in Requests, NEW t \in Tenants, NEW flag \in BOOLEAN, SetCancel(r, t, flag)
        PROVE  Table /\ Created
    BY <1>2 DEF SetCancel, database
  <1>3. ASSUME NEW r \in Requests, NEW e \in events, Handle(r, e)
        PROVE  Table /\ Created
    <2>1. CASE CheckoutCompleted(r, e)
      BY <2>1 DEF CheckoutCompleted, database
    <2>2. CASE SubscriptionUpdated(r, e)
      BY <2>2 DEF SubscriptionUpdated, database
    <2>3. CASE SubscriptionDeleted(r, e)
      BY <2>3 DEF SubscriptionDeleted, database
    <2>4. CASE InvoicePaid(r, e)
      BY <2>4 DEF InvoicePaid, database
    <2> QED
      BY <1>3, <2>1, <2>2, <2>3, <2>4 DEF Handle
  <1>4. ASSUME NEW r \in Requests, Commit(r)
        PROVE  Table /\ Created
    <2>1. CASE CommitInvoice(r)
      BY <2>1 DEF CommitInvoice
    <2>2. CASE CommitCheckout(r) \/ CommitEndpoint(r) \/ CommitEvent(r)
      BY <2>2 DEF CommitCheckout, CommitEndpoint, CommitEvent, Writes, Writing
    <2>3. CASE OpenSession(r)
      BY <2>3 DEF OpenSession, database
    <2> QED
      BY <1>4, <2>1, <2>2, <2>3 DEF Commit
  <1>5. ASSUME NEW r \in Requests, Rollback(r)
        PROVE  Table /\ Created
    BY <1>5 DEF Rollback, database
  <1>6. ASSUME NEW n \in sessions, NEW s \in Subs, Pay(n, s)
        PROVE  Table /\ Created
    BY <1>6 DEF Pay, database
  <1>7. ASSUME NEW s \in Subs, Renew(s) \/ End(s)
        PROVE  Table /\ Created
    BY <1>7 DEF Renew, End, database
  <1>8. Table /\ Created
    BY <1>1, <1>2, <1>3, <1>4, <1>5, <1>6, <1>7 DEF Next
  <1> QED
    BY <1>8

LEMMA SingleKept ==
  ASSUME IInv, SingleInv, [Next]_vars
  PROVE  SingleInv'
  <1>1. CASE UNCHANGED vars
    BY <1>1 DEF vars, database, SingleInv, Unique, Owned
  <1>2. CASE Next
    <2>1. Unique(rows')
      <3>1. ASSUME NEW r \in Requests, Flush(request[r])
            PROVE  Unique(rows')
        BY <3>1 DEF Flush, SingleInv
      <3> QED
        BY <1>2, <3>1, WhoWrites DEF SingleInv
    <2>2. ASSUME NEW t \in Tenants
          PROVE  IsFiniteSet(Owned(t))'
      <3>1. CASE UNCHANGED holders
        BY <3>1 DEF SingleInv, Owned
      <3>2. ASSUME NEW u \in Tenants, NEW c \in Customers,
                   holders' = [holders EXCEPT ![c] = @ \cup {u}]
            PROVE  IsFiniteSet(Owned(t))'
        <4>1. Owned(t)' = Owned(t) \/ Owned(t)' = Owned(t) \cup {c}
          BY <3>2 DEF Owned, IInv, TypeOK
        <4> QED
          BY <4>1, FS_AddElement DEF SingleInv
      <3> QED
        BY <1>2, <3>1, <3>2, WhoWrites
    <2> QED
      BY <2>1, <2>2 DEF SingleInv, Unique
  <1> QED
    BY <1>1, <1>2

\* However many checkouts and webhooks of a tenant work at once, each on the
\* rows it read, a tenant that was given one customer at Stripe has one row.
THEOREM OneCustomerOneRow == Spec => []OneRowPerTenant
  <1>1. Init => SingleInv
    <2> SUFFICES ASSUME Init PROVE SingleInv
      OBVIOUS
    <2>1. Unique(rows)
      BY DEF Init, Unique, Absent
    <2>2. ASSUME NEW t \in Tenants PROVE Owned(t) = {}
      BY IdsAssumption DEF IdsAssumption, Init, Owned
    <2> QED
      BY <2>1, <2>2, FS_EmptySet DEF SingleInv
  <1>2. IInv /\ SingleInv /\ [Next]_vars => SingleInv'
    BY SingleKept
  <1>3. ASSUME IInv, SingleInv PROVE OneRowPerTenant
    <2> SUFFICES ASSUME NEW t \in Tenants, Cardinality(Owned(t)) <= 1
                 PROVE  Cardinality(RowsOf(t)) <= 1
      BY DEF OneRowPerTenant, Owned
    <2>1. \A x \in RowsOf(t) : rows[x].customer \in Owned(t)
      BY <1>3, IdsAssumption DEF IdsAssumption, RowsOf, Owned, IInv, RowFacts, Belongs, Absent
    <2>2. \A c, d \in Owned(t) : c = d
      <3>1. IsFiniteSet(Owned(t))
        BY <1>3 DEF SingleInv
      <3> SUFFICES ASSUME NEW c \in Owned(t), NEW d \in Owned(t), c # d
                   PROVE  FALSE
        OBVIOUS
      <3>2. Cardinality({c, d}) = 2
        <4>1. IsFiniteSet({c}) /\ Cardinality({c}) = 1
          BY FS_Singleton
        <4>2. {c, d} = {c} \cup {d} /\ d \notin {c}
          OBVIOUS
        <4> QED
          BY <4>1, <4>2, FS_AddElement
      <3>3. Cardinality({c, d}) <= Cardinality(Owned(t))
        BY <3>1, FS_Subset
      <3>4. Cardinality(Owned(t)) \in Nat
        BY <3>1, FS_CardinalityType
      <3> QED
        BY <3>2, <3>3, <3>4
    <2>3. \A x, y \in RowsOf(t) : x = y
      <3> SUFFICES ASSUME NEW x \in RowsOf(t), NEW y \in RowsOf(t)
                   PROVE  x = y
        OBVIOUS
      <3>1. rows[x].customer = rows[y].customer /\ rows[x].customer # "none"
        BY <2>1, <2>2, IdsAssumption DEF IdsAssumption, Owned
      <3> QED
        BY <1>3, <3>1 DEF SingleInv, Unique, RowsOf
    <2>4. RowsOf(t) = {} \/ \E x : RowsOf(t) = {x}
      BY <2>3
    <2>5. CASE RowsOf(t) = {}
      <3>1. Cardinality(RowsOf(t)) = 0
        BY <2>5, FS_EmptySet
      <3> QED
        BY <3>1
    <2>6. ASSUME NEW x, RowsOf(t) = {x}
          PROVE  Cardinality(RowsOf(t)) <= 1
      <3>1. Cardinality(RowsOf(t)) = 1
        BY <2>6, FS_Singleton
      <3> QED
        BY <3>1
    <2> QED
      BY <2>4, <2>5, <2>6
  <1> QED
    BY <1>1, <1>2, <1>3, Invariance, PTL DEF Spec

\* Only the commit of a request writes plans.
LEMMA PlanChanges ==
  ASSUME Next, plan' # plan
  PROVE  \E r \in Requests : Writes(request[r]) /\ Flush(request[r])
  BY WhoWrites

\* A commit changes a tenant's plan only after a subscription of its ended or
\* for a plan it bought, though the handler decided it in an earlier step.
THEOREM DowngradesAreAsked == Spec => NoDowngradeUnasked
  <1> DEFINE A == \A t \in Tenants : plan'[t] # plan[t] =>
                     \E s \in Subs :
                        /\ stripe[s].tenant = t
                        /\ stripe[s].status = "canceled" \/ stripe[s].plan = plan'[t]
  <1>1. ASSUME IInv, [Next]_vars
        PROVE  [A]_vars
    <2> SUFFICES ASSUME Next, NEW t \in Tenants, plan'[t] # plan[t]
                 PROVE  \E s \in Subs :
                           /\ stripe[s].tenant = t
                           /\ stripe[s].status = "canceled" \/ stripe[s].plan = plan'[t]
      BY <1>1
    <2>1. PICK r \in Requests : Writes(request[r]) /\ Flush(request[r])
      BY PlanChanges
    <2>2. /\ request[r].tenant \in Tenants
          /\ Asked(request[r].tenant, request[r].planSeen, request[r].planNew, stripe)
      BY <1>1, <2>1, RequestsTyped DEF IInv, RequestFacts, Sound, Fields, Writes, Writing, Idle
    <2>3. plan \in [Tenants -> TenantPlans]
      BY <1>1 DEF IInv, TypeOK
    <2>4. plan' = [plan EXCEPT ![request[r].tenant] =
                      IF request[r].planNew = request[r].planSeen THEN @ ELSE request[r].planNew]
      BY <2>1 DEF Flush
    <2>5. /\ t = request[r].tenant /\ plan'[t] = request[r].planNew
          /\ request[r].planNew # request[r].planSeen
      BY <2>2, <2>3, <2>4
    <2> QED
      BY <2>2, <2>5 DEF Asked
  <1> QED
    BY <1>1, Invariance, PTL DEF Spec, NoDowngradeUnasked
=============================================================================
