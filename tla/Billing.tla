------------------------------ MODULE Billing -------------------------------
(***************************************************************************)
(* Subscriptions of the SaaS tenants (src/src/api/v1/endpoints/billing.py, *)
(* over src/src/services/stripe_service.py and invoice_service.py): a      *)
(* tenant checks out, pays at Stripe, cancels and reactivates; Stripe      *)
(* reports by webhook; the local rows and tenant.plan follow.              *)
(*                                                                         *)
(* Every request has a database session of its own.  It reads, awaits, and *)
(* commits when it ends: a request is here a step that reads and decides,  *)
(* and a step that commits.  The commit writes the columns whose new value *)
(* differs from the one read, and fails as a whole on a unique column.     *)
(*                                                                         *)
(* Stripe is external: it keeps customers, checkout sessions and           *)
(* subscriptions, and sends its events in any order, once or more.         *)
(* Amounts, periods, prices and PDFs are left out, and the PDF's file      *)
(* name; one subscription has one invoice, whose id is the subscription's. *)
(***************************************************************************)
EXTENDS Naturals, FiniteSets

CONSTANTS
    Tenants,
    Customers,      \* ids of Stripe customers
    Subs,           \* ids of Stripe subscriptions
    Rows,           \* ids of local Subscription rows
    Requests,       \* requests the server works on at a time
    Plans,          \* the plans that are bought
    MaxEvents       \* bound: Stripe does nothing while as many calls are due

ASSUME BoundAssumption == MaxEvents \in Nat

ASSUME IdsAssumption == \A S \in {Tenants, Customers, Subs} : "none" \notin S

VARIABLES
    rows,           \* table subscriptions
    plan,           \* tenant.plan
    invoices,       \* the tenant an invoice is recorded for, if it is
    request,        \* what each request will commit
    holders,        \* Stripe: the tenants that were given a customer, as a new one or
                    \* as the one with their e-mail
    sessions,       \* Stripe: checkout sessions a tenant can still pay
    stripe,         \* Stripe: the subscriptions
    events          \* Stripe: the webhook calls not answered for good

database == <<rows, plan, invoices>>
vars == <<database, request, holders, sessions, stripe, events>>

RowStatuses == {"none", "incomplete", "active", "past_due", "canceled"}
RowType == [tenant : Tenants \cup {"none"}, customer : Customers \cup {"none"},
            sub : Subs \cup {"none"}, status : RowStatuses, cancels : BOOLEAN]

\* A row id that is not in the table.
Absent == [tenant |-> "none", customer |-> "none", sub |-> "none",
           status |-> "none", cancels |-> FALSE]

TenantPlans == Plans \cup {"basic"}
Sessions == [tenant : Tenants, customer : Customers, plan : Plans]
StripeType == [tenant : Tenants \cup {"none"}, customer : Customers \cup {"none"},
               plan : TenantPlans, status : RowStatuses, cancels : BOOLEAN]
Unborn == [tenant |-> "none", customer |-> "none", plan |-> "basic",
           status |-> "none", cancels |-> FALSE]
Events == [type : {"completed", "invoice", "updated", "deleted"}, sub : Subs,
           status : RowStatuses, cancels : BOOLEAN]

\* An event about a subscription, with the state it is in at that moment.
Event(k, s, sub) == [type |-> k, sub |-> s, status |-> sub.status, cancels |-> sub.cancels]

Idle == [at |-> "idle"]
Decision(kinds, abouts) ==
    [at : kinds, about : abouts, row : Rows, seen : RowType, new : RowType,
     tenant : Tenants, planSeen : TenantPlans, planNew : TenantPlans]
RequestStates ==
    {Idle} \cup [at : {"invoice"}, about : Events, tenant : Tenants]
    \cup Decision({"checkout", "opened"}, Sessions) \cup Decision({"event", "endpoint"}, Events)

TypeOK ==
    /\ rows \in [Rows -> RowType]
    /\ plan \in [Tenants -> TenantPlans]
    /\ invoices \in [Subs -> Tenants \cup {"none"}]
    /\ holders \in [Customers -> SUBSET Tenants]
    /\ sessions \subseteq Sessions
    /\ stripe \in [Subs -> StripeType]
    /\ events \subseteq Events
    /\ request \in [Requests -> RequestStates]

Init ==
    /\ rows = [x \in Rows |-> Absent]
    /\ plan = [t \in Tenants |-> "basic"]
    /\ invoices = [s \in Subs |-> "none"]
    /\ request = [r \in Requests |-> Idle]
    /\ holders = [c \in Customers |-> {}]
    /\ sessions = {}
    /\ stripe = [s \in Subs |-> Unborn]
    /\ events = {}

-----------------------------------------------------------------------------
(* The database.                                                           *)

RowsOf(t) == {x \in Rows : rows[x].tenant = t}
RowsWith(s) == {x \in Rows : rows[x].sub = s}
RowsFor(c) == {x \in Rows : rows[x].customer = c}

\* A new uuid.
Writers == {r \in Requests : request[r].at \in {"checkout", "opened", "event", "endpoint"}}
Fresh(x) == rows[x] = Absent /\ \A r \in Writers : request[r].row # x

\* MUTANT: the customer column is not unique.
MutantUnique(table) ==
    \A x, y \in Rows : x # y => table[x].sub = "none" \/ table[x].sub # table[y].sub

\* The unique columns, in which NULL never conflicts.
Unique(table) ==
    \A x, y \in Rows : x # y =>
        /\ table[x].customer = "none" \/ table[x].customer # table[y].customer
        /\ table[x].sub = "none" \/ table[x].sub # table[y].sub

\* What a request takes to its commit: the session or event it is about, the
\* row and the tenant it read, and what it assigned to them.
Decide(kind, about, x, new, t, p) ==
    [at |-> kind, about |-> about, row |-> x, seen |-> rows[x], new |-> new,
     tenant |-> t, planSeen |-> plan[t], planNew |-> p]

\* The assigned columns over the row as it is by now.
Merge(now, seen, new) == [f \in DOMAIN now |-> IF new[f] = seen[f] THEN now[f] ELSE new[f]]

Written(q) == [rows EXCEPT ![q.row] = Merge(@, q.seen, q.new)]

\* MUTANT: every column is written, as with a statement made by hand.
MutantFlush(q) ==
    IF Unique(Written(q))
    THEN rows' = Written(q) /\ plan' = [plan EXCEPT ![q.tenant] = q.planNew]
    ELSE UNCHANGED <<rows, plan>>

\* The commit of the session: all of it, or nothing.
Flush(q) ==
    IF Unique(Written(q))
    THEN /\ rows' = Written(q)
         /\ plan' = [plan EXCEPT ![q.tenant] = IF q.planNew = q.planSeen THEN @ ELSE q.planNew]
    ELSE UNCHANGED <<rows, plan>>

-----------------------------------------------------------------------------
(* Requests of the tenant.                                                 *)

\* MUTANT: the plan is granted when the checkout begins.
MutantCheckout(r, t, c, p) ==
    /\ request[r] = Idle
    /\ holders' = [holders EXCEPT ![c] = @ \cup {t}]
    /\ LET Decided(x, new) ==
               request' = [request EXCEPT ![r] =
                   Decide("checkout", [tenant |-> t, customer |-> c, plan |-> p], x, new, t, p)]
       IN
       \/ /\ RowsOf(t) = {}
          /\ \E x \in Rows :
                /\ Fresh(x)
                /\ Decided(x, [Absent EXCEPT !.tenant = t, !.customer = c, !.status = "incomplete"])
       \/ \E x \in Rows : RowsOf(t) = {x} /\ Decided(x, rows[x])
       \/ Cardinality(RowsOf(t)) > 1 /\ UNCHANGED request
    /\ UNCHANGED <<database, sessions, stripe, events>>

\* create_checkout up to the read: the customer is looked up at Stripe by
\* e-mail, and created if the list does not show one, which two requests can
\* find at once and a changed e-mail brings about again.  The e-mail is the
\* tenant's billing_email, which others may have too, and empty if it is not
\* set: the customer may be any.  The row is created only if the tenant has
\* none; two make the query raise.
Checkout(r, t, c, p) ==
    /\ request[r] = Idle
    /\ holders' = [holders EXCEPT ![c] = @ \cup {t}]
    /\ LET Decided(x, new) ==
               request' = [request EXCEPT ![r] =
                   Decide("checkout", [tenant |-> t, customer |-> c, plan |-> p], x, new, t, plan[t])]
       IN
       \/ /\ RowsOf(t) = {}
          /\ \E x \in Rows :
                /\ Fresh(x)
                /\ Decided(x, [Absent EXCEPT !.tenant = t, !.customer = c, !.status = "incomplete"])
       \/ \E x \in Rows : RowsOf(t) = {x} /\ Decided(x, rows[x])
       \/ Cardinality(RowsOf(t)) > 1 /\ UNCHANGED request
    /\ UNCHANGED <<database, sessions, stripe, events>>

\* The flush, and if it goes through the session at Stripe.  The unique columns
\* are looked at again by the commit: of two that were flushed at once the later
\* one waits in the database, and here it may open its session and lose, as it
\* would have by a rollback.
OpenSession(r) ==
    /\ request[r].at = "checkout"
    /\ IF Unique(Written(request[r]))
       THEN /\ sessions' = sessions \cup {request[r].about}
            /\ request' = [request EXCEPT ![r].at = "opened"]
       ELSE request' = [request EXCEPT ![r] = Idle] /\ UNCHANGED sessions
    /\ UNCHANGED <<database, holders, stripe, events>>

CommitCheckout(r) ==
    /\ request[r].at = "opened"
    /\ Flush(request[r])
    /\ request' = [request EXCEPT ![r] = Idle]
    /\ UNCHANGED <<invoices, holders, sessions, stripe, events>>

\* cancel_subscription and reactivate_subscription up to Stripe's answer.  A
\* subscription that has ended makes Stripe refuse.
SetCancel(r, t, flag) ==
    /\ request[r] = Idle
    /\ \E x \in Rows, s \in Subs :
          /\ RowsOf(t) = {x}
          /\ rows[x].sub = s
          /\ stripe[s].status \in {"active", "past_due"}
          /\ stripe' = [stripe EXCEPT ![s].cancels = flag]
          /\ events' = IF stripe[s].cancels = flag THEN events
                       ELSE events \cup {Event("updated", s, stripe'[s])}
          /\ request' = [request EXCEPT ![r] =
                Decide("endpoint", Event("updated", s, stripe'[s]), x, [rows[x] EXCEPT !.cancels = flag], t, plan[t])]
    /\ UNCHANGED <<database, holders, sessions>>

CommitEndpoint(r) ==
    /\ request[r].at = "endpoint"
    /\ Flush(request[r])
    /\ request' = [request EXCEPT ![r] = Idle]
    /\ UNCHANGED <<invoices, holders, sessions, stripe, events>>

-----------------------------------------------------------------------------
(* Webhooks.  The answer is 200 whatever the handler did.  The event is    *)
(* nevertheless sent again when that answer does not arrive in time.       *)

Answer(e) == events' \in {events, events \ {e}}

\* The handler has nothing to do, or raises before it wrote anything.
Swallow(r, e) == Answer(e) /\ UNCHANGED request

\* _handle_checkout_completed.
CheckoutCompleted(r, e) ==
    /\ request[r] = Idle
    /\ e.type = "completed"
    /\ LET sub == stripe[e.sub]
           t == sub.tenant
           Paid(row) == [row EXCEPT !.tenant = t, !.customer = sub.customer,
                                    !.sub = e.sub, !.status = "active"]
           Decided(x) ==
               /\ request' = [request EXCEPT ![r] =
                                  Decide("event", e, x, Paid(rows[x]), t, sub.plan)]
               /\ UNCHANGED events
       IN
       \/ RowsOf(t) = {} /\ \E x \in Rows : Fresh(x) /\ Decided(x)
       \/ \E x \in Rows : RowsOf(t) = {x} /\ Decided(x)
       \/ Cardinality(RowsOf(t)) > 1 /\ Swallow(r, e)
    /\ UNCHANGED <<database, holders, sessions, stripe>>

\* _handle_subscription_updated: the state the event carries.
SubscriptionUpdated(r, e) ==
    /\ request[r] = Idle
    /\ e.type = "updated"
    /\ \/ RowsWith(e.sub) = {} /\ Swallow(r, e)
       \/ \E x \in RowsWith(e.sub) :
             /\ request' = [request EXCEPT ![r] =
                   Decide("event", e, x,
                          [rows[x] EXCEPT !.status = e.status, !.cancels = e.cancels],
                          rows[x].tenant, plan[rows[x].tenant])]
             /\ UNCHANGED events
    /\ UNCHANGED <<database, holders, sessions, stripe>>

\* MUTANT: the fallback is the free plan of the older plan catalogue.
MutantSubscriptionDeleted(r, e) ==
    /\ request[r] = Idle
    /\ e.type = "deleted"
    /\ \/ RowsWith(e.sub) = {} /\ Swallow(r, e)
       \/ \E x \in RowsWith(e.sub) :
             /\ request' = [request EXCEPT ![r] =
                   Decide("event", e, x, [rows[x] EXCEPT !.status = "canceled"],
                          rows[x].tenant, "free")]
             /\ UNCHANGED events
    /\ UNCHANGED <<database, holders, sessions, stripe>>

\* _handle_subscription_deleted: the tenant falls back to the basic plan.
SubscriptionDeleted(r, e) ==
    /\ request[r] = Idle
    /\ e.type = "deleted"
    /\ \/ RowsWith(e.sub) = {} /\ Swallow(r, e)
       \/ \E x \in RowsWith(e.sub) :
             /\ request' = [request EXCEPT ![r] =
                   Decide("event", e, x, [rows[x] EXCEPT !.status = "canceled"],
                          rows[x].tenant, "basic")]
             /\ UNCHANGED events
    /\ UNCHANGED <<database, holders, sessions, stripe>>

CommitEvent(r) ==
    /\ request[r].at = "event"
    /\ Flush(request[r])
    /\ Answer(request[r].about)
    /\ request' = [request EXCEPT ![r] = Idle]
    /\ UNCHANGED <<invoices, holders, sessions, stripe>>

\* MUTANT: the query for the subscription loses its condition on the customer.
MutantInvoicePaid(r, e) ==
    /\ request[r] = Idle
    /\ e.type = "invoice"
    /\ \/ /\ RowsFor(stripe[e.sub].customer) = {} \/ invoices[e.sub] # "none"
          /\ Swallow(r, e)
       \/ \E x \in {y \in Rows : rows[y] # Absent} :
             /\ invoices[e.sub] = "none"
             /\ request' = [request EXCEPT ![r] =
                   [at |-> "invoice", about |-> e, tenant |-> rows[x].tenant]]
             /\ UNCHANGED events
    /\ UNCHANGED <<database, holders, sessions, stripe>>

\* _handle_invoice_paid: the customer's row tells the tenant; no row, or the
\* invoice there already, and nothing is done.
InvoicePaid(r, e) ==
    /\ request[r] = Idle
    /\ e.type = "invoice"
    /\ \/ /\ RowsFor(stripe[e.sub].customer) = {} \/ invoices[e.sub] # "none"
          /\ Swallow(r, e)
       \/ \E x \in RowsFor(stripe[e.sub].customer) :
             /\ invoices[e.sub] = "none"
             /\ request' = [request EXCEPT ![r] =
                   [at |-> "invoice", about |-> e, tenant |-> rows[x].tenant]]
             /\ UNCHANGED events
    /\ UNCHANGED <<database, holders, sessions, stripe>>

\* stripe_invoice_id is unique: the second of two inserts fails.
CommitInvoice(r) ==
    /\ request[r].at = "invoice"
    /\ LET e == request[r].about IN
          /\ invoices' = [invoices EXCEPT ![e.sub] = IF @ = "none" THEN request[r].tenant ELSE @]
          /\ Answer(e)
    /\ request' = [request EXCEPT ![r] = Idle]
    /\ UNCHANGED <<rows, plan, holders, sessions, stripe>>

\* A request dies, or its commit does: get_db rolls back.  A session that was
\* opened at Stripe stays.
Rollback(r) ==
    /\ request[r] # Idle
    /\ request' = [request EXCEPT ![r] = Idle]
    /\ UNCHANGED <<database, holders, sessions, stripe, events>>

-----------------------------------------------------------------------------
(* Stripe.                                                                 *)

\* A checkout session is paid: a subscription begins.
Pay(n, s) ==
    /\ Cardinality(events) < MaxEvents
    /\ n \in sessions
    /\ stripe[s] = Unborn
    /\ stripe' = [stripe EXCEPT ![s] =
          [tenant |-> n.tenant, customer |-> n.customer, plan |-> n.plan,
           status |-> "active", cancels |-> FALSE]]
    /\ events' = events \cup {Event(k, s, stripe'[s]) : k \in {"completed", "invoice"}}
    /\ sessions' = sessions \ {n}
    /\ UNCHANGED <<database, request, holders>>

\* A renewal fails, or succeeds after all.
Renew(s) ==
    /\ Cardinality(events) < MaxEvents
    /\ stripe[s].status \in {"active", "past_due"}
    /\ stripe' = [stripe EXCEPT ![s].status = IF @ = "active" THEN "past_due" ELSE "active"]
    /\ events' = events \cup {Event("updated", s, stripe'[s])}
    /\ UNCHANGED <<database, request, holders, sessions>>

\* The subscription ends, as asked or because it was not paid.
End(s) ==
    /\ Cardinality(events) < MaxEvents
    /\ stripe[s].status = "past_due" \/ (stripe[s].status = "active" /\ stripe[s].cancels)
    /\ stripe' = [stripe EXCEPT ![s].status = "canceled"]
    /\ events' = events \cup {Event("deleted", s, stripe'[s])}
    /\ UNCHANGED <<database, request, holders, sessions>>

Handle(r, e) ==
    CheckoutCompleted(r, e) \/ SubscriptionUpdated(r, e) \/ SubscriptionDeleted(r, e) \/ InvoicePaid(r, e)

Commit(r) ==
    OpenSession(r) \/ CommitCheckout(r) \/ CommitEndpoint(r) \/ CommitEvent(r) \/ CommitInvoice(r)

Next ==
    \/ \E r \in Requests, t \in Tenants, c \in Customers, p \in Plans : Checkout(r, t, c, p)
    \/ \E r \in Requests, t \in Tenants, flag \in BOOLEAN : SetCancel(r, t, flag)
    \/ \E r \in Requests, e \in events : Handle(r, e)
    \/ \E r \in Requests : Commit(r) \/ Rollback(r)
    \/ \E n \in sessions, s \in Subs : Pay(n, s)
    \/ \E s \in Subs : Renew(s) \/ End(s)

HandleSome(k, s) == \E r \in Requests, e \in events : e.type = k /\ e.sub = s /\ Handle(r, e)
CommitSome(k, s) ==
    \E r \in Requests :
        /\ request[r].at = "event"
        /\ request[r].about.type = k /\ request[r].about.sub = s
        /\ CommitEvent(r)

\* A request ends.  Stripe calls again until it is answered, and neither the
\* calls about a subscription nor their commits fail for ever.
Fairness ==
    /\ \A r \in Requests : WF_vars(Commit(r) \/ Rollback(r))
    /\ \A k \in {"completed", "updated", "deleted"}, s \in Subs :
          SF_vars(HandleSome(k, s)) /\ SF_vars(CommitSome(k, s))

Spec == Init /\ [][Next]_vars /\ Fairness

-----------------------------------------------------------------------------

\* A tenant that was given one customer at Stripe has one subscription row,
\* whatever checkouts and webhooks run at once, as every query takes for granted:
\* what keeps it so is the unique customer, tenant_id not being unique.
OneRowPerTenant ==
    \A t \in Tenants :
        Cardinality({c \in Customers : t \in holders[c]}) <= 1 => Cardinality(RowsOf(t)) <= 1

\* A row's subscription is one its tenant bought, and its customer one its tenant
\* was given.  An invoice is recorded for a tenant that was given its customer:
\* the payer, or one that shares the customer with the payer by an e-mail.
NothingCrossesTenants ==
    /\ \A x \in Rows : rows[x] # Absent =>
          /\ rows[x].tenant \in holders[rows[x].customer]
          /\ rows[x].sub # "none" => stripe[rows[x].sub].tenant = rows[x].tenant
    /\ \A s \in Subs : invoices[s] # "none" => invoices[s] \in holders[stripe[s].customer]

\* A tenant's plan is one it bought.
PlanWasBought ==
    \A t \in Tenants : plan[t] = "basic" \/ \E s \in Subs : stripe[s].tenant = t /\ stripe[s].plan = plan[t]

\* A tenant loses its plan only if a subscription of its has ended, or it has
\* bought another plan.
NoDowngradeUnasked ==
    [][\A t \in Tenants : plan'[t] # plan[t] =>
          \E s \in Subs :
             /\ stripe[s].tenant = t
             /\ stripe[s].status = "canceled" \/ stripe[s].plan = plan'[t]]_vars

\* Every subscription that is paid for gets its row: "On success -> Stripe
\* calls webhook -> subscription activated" (docs/PAYMENT_INTEGRATION.md:48).
PaidIsLinked == \A s \in Subs : (stripe[s] # Unborn) ~> (RowsWith(s) # {})
=============================================================================
