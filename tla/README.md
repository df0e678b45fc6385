# A TLA+ model of AgenteDeVoz

AgenteDeVoz is a voice agent sold as a service: FastAPI endpoints over an async
SQLAlchemy database, callbacks of Twilio and Stripe, and a set of in-process
managers (outgoing webhooks, workflows, a cluster, a rate limiter, and more). The
modules of this directory model the parts of it whose correctness depends on
the order in which several actors or calls do things, check them with TLC on small
instances, and prove what matters most of them with TLAPS for every instance.

## 1. The system

The Python package is `src/src`. What each part keeps, does and shares:

| Part | State | Operations | Hard about it | What makes it correct |
|---|---|---|---|---|
| Outgoing webhooks (`compliance/webhook_retry.py`) | records, dead letter queue, one lock that does not cover the fields of a record | send, attempt, retry job, dead letter, manual retry, cleanup | threads on the same record, a POST between a decision and its write, retries | nothing forgotten, no double post, dead letters are the exhausted ones |
| Workflow engine (`workflows/`) | instances with status and step index | start, run, resume after approval, cancel | another request while a step is awaited; resuming a resumed run | nothing behind an unapproved step; stopped stays stopped; no step twice |
| Tenant billing (`api/v1/endpoints/billing.py`, `services/stripe_service.py`, `services/invoice_service.py`) | subscription and invoice rows, `tenant.plan`; customers, sessions and subscriptions at Stripe | checkout, cancel, reactivate, four webhook handlers | concurrent sessions, repeated and reordered events, a commit that fails after Stripe was called, tenants that share an e-mail | one row per tenant, a subscription is its tenant's, plans are bought, paid is activated |
| Orders (`services/order_service.py`, `repositories/order_repository.py`, `core/order_voice_handler.py`) | orders with their status history | create, update status, cancel by voice | overlapping updates on stale reads, a log sorted by a time taken before the write; a session nobody commits | the latest change of the log is the status; who is told "cancelled" has a cancelled order |
| Loyalty (`services/loyalty_service.py`) | accounts and their transactions | open, earn, bonus, refer, redeem | a balance read and written back, several commits in one request | the account is a points ledger; losses need an overlap |
| Products and stock (`api/v1/endpoints/products.py`) | `quantity_available`, `quantity_reserved` | create, restock, reserve | read, compare, write back | a reservation answered with success is in the row |
| High availability (`infrastructure/high_availability.py`) | nodes with role, status, failures | register, heartbeat, health cycle with failover | flapping and half-recovered nodes, cooldown | the silent are reported; a dead primary is replaced |
| Circuit breaker (`infrastructure/health_check_advanced.py`) | circuit, two counts, time of the last failure | call, force open, force close, register | counts left over by earlier tries | one failure reopens; a component that is back gets its calls |
| Load balancer (`infrastructure/load_balancer.py`) | backends with status and connections | add, remove, mark, drain, select, release | an object replaced under its requests | the count is of the requests; a drained backend empties |
| Rate limiter (`infrastructure/rate_limiter.py`) | a bucket or window per key | check, set limit, reset | lazy refills, limits changed under an object | no stretch of time grants more than its allowance |
| Database replication (`infrastructure/database_replication.py`) | pool of nodes with role, status, lag | register, report lag, promote, pick a node | a demoted primary's old reports; failing back; nodes registered in any status | no read from a node that has not reported; a node to write to |
| Voice calls (`api/voice_routes.py`, `core/agent.py`) | a table of live calls in each worker process | incoming, respond, status | late callbacks, callbacks that go to another worker, an agent that cannot be made, restart | an agent keeps the turns its process answered; what an ended call leaves is accounted for |
| Barge-in (`conversation/barge_in_handler.py`) | state, flags, an event, no lock | start, signal, cancel, end a speech | three threads on the same fields | quiet is idle; a speech can be interrupted |
| Consents (`compliance/consent_manager.py`) | records per user | grant, withdraw, expire | one withdrawal closes one record | no valid consent after a withdrawal |
| Knowledge base (`knowledge_base/kb_manager.py`) | articles, an index of words | create, import, update, delete | an update that raises half-way | a published article is found by its words |

How they interact: an endpoint runs in the event loop, takes a session from
`get_db` (`database.py:81-91`), which commits when the request ends and rolls
back when it raises, and calls the services with it; the loyalty service and the
product endpoints commit by themselves as well, and the voice agent's order
handler opens a session of its own. Endpoints, services and repositories share
nothing but the database, and `voice_routes.py`, whose table of agents is a variable of
the process. The shipped servers run several processes (`deploy/Dockerfile:65-66`
has two workers, `deploy/systemd/agentevoz.service` four, the Kubernetes deployment two
replicas) and nothing keeps a call at one of them. Stripe and Twilio call back over
HTTP. The managers are objects of one process, called directly; the webhook manager has a lock and is to
be used by several threads, the barge-in handler has threads and no lock, the
others are called by one thread at a time. Nothing in the managers survives a
restart. `PROJECT.json` lists these components and the rest of the package, with
the reason for each one that has no module, and the hazards, each at the line
where it bites.

## 2. The modules

| Module | Models | Run by | Proved in |
|---|---|---|---|
| `WebhookRetry` | `compliance/webhook_retry.py` | `MCWebhookRetry` | `WebhookRetryProofs` |
| `Workflow` | `workflows/workflow_engine.py` and its endpoints; the definitions of `return_workflow.py` are in `MCWorkflow` | `MCWorkflow` | `WorkflowProofs` |
| `Billing` | `api/v1/endpoints/billing.py` with the services and the session below it | `MCBilling` | `BillingProofs` |
| `Orders` | `order_service.py`, `order_repository.py`, the cancellation of `order_voice_handler.py` | `MCStore`, and by itself | `StoreProofs` |
| `Loyalty` | `loyalty_service.py` behind its endpoints; implements `PointsLedger` | `MCStore` | `LoyaltyProofs` |
| `PointsLedger` | abstract: what a points account promises | `MCStore`, as a property | `LoyaltyProofs` |
| `Inventory` | the stock of `products.py` | `MCStore` | `StoreProofs` |
| `HighAvailability` | `high_availability.py` | `MCPlatform`, and by itself | `PlatformProofs` |
| `CircuitBreaker` | breaker and checker of `health_check_advanced.py` | `MCPlatform` | `PlatformProofs` |
| `LoadBalancer` | `load_balancer.py` | `MCPlatform` | `PlatformProofs` |
| `RateLimits` | `rate_limiter.py` | `MCPlatform` | `PlatformProofs` |
| `BargeIn` | `barge_in_handler.py` | `MCPlatform` | `CallsProofs` |
| `Replication` | `database_replication.py` | `MCPlatform` | `PlatformProofs` |
| `VoiceCalls` | `voice_routes.py` with the agent's life, against Twilio | `MCPlatform` | `CallsProofs` |
| `Consents` | `consent_manager.py` | `MCPlatform` | `OfficeProofs` |
| `KnowledgeBase` | `kb_manager.py` | `MCPlatform` | `OfficeProofs` |

Every module has the same order: constants and their assumptions, variables,
its type invariant, its initial states, helpers, one action per operation or per step of one, the next-state relation,
fairness, the specification, the properties. A definition named `Mutant...` stands before
the definition it is a plausible wrong version of; nothing uses it, and putting
it in place must break the property `PROJECT.json` names. A variable marked
*auxiliary* is history that no code keeps and no guard reads; one marked
*external* is the world outside.

### WebhookRetry

The threads are the senders (one per webhook), the retry jobs and the operators
who call `retry_dead_letter`. A thread runs without interruption up to a point
where it really blocks: the POST, the acquisition of the lock in `_move_to_dlq`,
and the log calls between the decision of `retry_dead_letter` and its writes.
`SendWebhook`, `ServeNext` and `RestartAttempts` end where the POST leaves
(`BeginAttempt`); `ReplyOK` and `ReplyError` are the rest of `_attempt_delivery`
with what the caller does of the result, `_schedule_retry` included;
`MoveToDLQ` is the queueing once the lock is held. A job's snapshot of the due
records is a set, and a record of it is served without a second look, as in the
code. Time is three facts: a retry time has passed or not (`RetryFallsDue`), a
delivery is older than the cleanup's cutoff or not (`DeliveryAges`, which waits
until no thread holds the record: the cutoff is hours, a POST has a timeout of
30 seconds). `acked` is history: the webhooks for which some thread read a 2xx.

### Workflow

A definition is the sequence of its `requires_human_approval` flags. `_run` is
`Iterate`, from the head of one iteration to the next await or the end:
`RunOut`, `StopAtGate` or `CallStep`. `base` is the number of steps a resumed
run's list lacks, so that `current_step_index`, which the code counts from the
start of that list, keeps the value it has in the code; `Resume` sets
`base` to it exactly as the code slices the full list with it. The engine awaits
whatever step function a definition holds. The registered functions contain no
await of their own, so with them alone a run is never suspended; the model takes
the contract of `StepFn`, under which a cancel can arrive while a step is
awaited. `times` and `approved` are history.

### Billing

A request is two steps: one reads and decides, the other flushes and commits. A
checkout is three: between them `OpenSession` flushes the row and, if the unique
columns let it, opens the session at Stripe, which stays whatever becomes of the
request.
`Decide` keeps what was read and what was assigned, and `Merge` writes, column by
column, the attributes that differ, over the row as it is by then: that is what
an SQLAlchemy session does. `Unique` are the two unique columns; a flush that
violates them fails as a whole. `Answer` covers that a handler's exception is
swallowed and answered 200, and that Stripe sends again when the answer is lost.
Stripe itself (customers, sessions, subscriptions, events) is external, taken
from how the code uses it: `Customer.list` then `Customer.create` by e-mail, a
session with `tenant_id` and `plan` in its metadata, events in any order, once or
more. The e-mail is the tenant's `billing_email`, empty if it is not set
(`billing.py:76`), and nothing makes it unique, so `Checkout` may come back with any
customer, another tenant's too; `holders` are the tenants that were given a customer. Not
in the model: amounts, periods, invoice numbers and PDFs, and the admin's
`TenantService.update_plan`.

### Orders

An update is three steps. `StartUpdate` keeps what was read of the row (`ReadFor`);
`TakeTime` is `datetime.now` (`order_repository.py:222`), after the read and before
anything is written or locked; `CommitUpdate` writes with `Changed`: the
status column only if the value assigned differs from the value read, since
SQLAlchemy writes nothing else, and always one entry of the log, whose `previous`
is the status *read* and whose `changedAt` is the time taken. The program knows the log
in the order of `changed_at` only (`models/order.py:154`), so the properties do too:
`Before` and `IsLatest` compare times. The sequence `history` is in the order of the commits, and
`seen` in an entry is the length of the log when the request read: neither is a
column, and from them the properties tell which requests overlapped. The times are readings
of one clock that differ and only grow, that is of servers whose clocks agree.
`StartCreate` draws a number and `CommitCreate` meets the unique column again.
`TellCancelled` is all that is left of the voice agent's cancellation: the handler
flushes in a session of its own, answers the customer, and closes it.

### Loyalty and PointsLedger

A request holds the rows it read across several commits: `OpenAccount` (one
insert, the unique `customer_id` refuses a second), `PayReferrer` (the referrer's
bonus and the mark on the new account, which share a commit), `AddPoints`,
`CommitRedeem`. `Store` writes column by column what differs from what was read. A
self-referral meets one object twice, which the session's identity map makes the
same (`GetReferred`, `PayReferrer`). `FailLoyalty` leaves what was committed.
Points are counted in units of 250, the smallest bonus; the bonuses and the tier
limits of the code are multiples of it. `earned` is history: the points ever added to
an account, those that a lost update took away included. An overlap can undo an addition,
and it can undo a redemption as well: two redemptions at once pay twice for one balance, and a
bonus written over a redemption gives the points back. `TierWasEarned` bounds a tier and a
balance by `earned` alone and does not claim more.

`PointsLedger` says what an account promises whatever overlaps: each movement
starts from *a* balance the account had, no balance is negative, and the balance
shown is the one after the last movement that moved anything. `Loyalty` implements
it with `available_points` for the balance and (`points`, `balance_after`) for the
log. That it is not the ledger a reader may expect, in which each movement starts
from the last balance, is what lost updates make of it; `LossNeedsOverlap` says that
total, balance and redemptions disagree after overlaps only.

### Inventory

`quantity_available` and `quantity_reserved` are written by different endpoints,
each a read and a commit of one column. A reservation asks for any integer, since
`ReserveStockRequest.quantity` has no bound (`products.py:35`): one below zero passes the
comparison and gives units back, the only way the code has. `answered` is history: how many
reservations were answered with success, how many units they `promised` and how many were
`returned`, and whether each was read and committed with no other in between.

### HighAvailability

Time is in ticks; `silent` and `sinceFailover` stop growing where nothing tells
the values apart. `Heard` is `record_heartbeat`, `Checked` is `check_node_health`,
`HealthCycle` is the whole of `run_health_check_cycle` with the failovers it may
take: of the candidates that are available, those with the least response time first. The
first failover of a cycle starts the cooldown, so there is one, unless
`failover_cooldown_s` is 0, as in the tests: then each failing node has one (`Failovers`).
`alive` is external: who sends heartbeats.

### CircuitBreaker

`CallSucceeds` and `CallFails` are `call` with `_on_success` and `_on_failure`: an
open circuit whose timeout has passed turns half open and goes on in the same
call. The failure count of before the opening is still there half open. `forced`
is history: an operator may open a circuit that has failed less than the
threshold, and then one failure does not reopen it.

### LoadBalancer

A backend is an object; `add_backend` under an id there is puts a new one in its
place while requests are on the old one, and `release` of those counts the new one
down, never below zero. Which available backend a counter, a weight or a hash
picks is left open; least-connections is modelled. `replaced` is history.

### RateLimits

A bucket is refilled when it is asked, a window is cleaned when it is asked, and
an object keeps the limits its key had when it was made. The model keeps that:
`RateTick` only ages. The algorithms `fixed_window` and `leaky_bucket` are declared
in the code and run as token buckets, so there are two here. The limiter starts with
any `default_config`. A window's `_requests` is counted and filtered and never read in
order, so `ages` gives each request a slot and an age in ticks. `spent` is history: what
an object granted in the last *n* ticks, for every *n* up to `Longest`, which fills
any bucket and outlasts any window.

### BargeIn

The fields are read and written one at a time by three kinds of threads, so a
step is one access: `StartSpeech`, `Announce`, `Activate`, `Clear`, `Spawn` are
`start_agent_speech`; `Asks`, `Interrupt`, `Silence`, `Interrupting`, `Processing`
are `signal_user_speech` in either caller; `SpeechEnds`, `AskInterrupted`, `Rest`
are the end of a worker. `crowded` is history: the last start overlapped a speech
or a signal.

### Replication

Registration, lag reports and promotion each are one call. `RegisterDatabase` takes a
node in any role and status, as `register_node` does; the tests register a disconnected
primary. Of a lag it matters only whether it is too large for reading (`late`).
`ReadReplicas` and `WriteNodes` are what `get_read_node` and `get_write_node` choose
from. `silent` and `blind` are history: demoted, or registered as disconnected, and
unheard of since; primary by a promotion or a registration while silent.

### VoiceCalls

No handler of `voice_routes.py` awaits between its first look at `_sessions` and
its last, so a handler is a step. `sessions` is one table for each of `Processes`, and any
process may get any callback. Twilio (`Ring`, `Turn`, `InProgress`, `EndCall`) is
external: it waits for the answer to one turn before the next, delivers status
callbacks in any order, and may end a call with a turn unanswered. `Restart` drops
the table of a process. `answered`, `late` and `closed` are history: the turns a process answered,
the processes that handled a callback after the end, the one that handled the end. With several
processes a conversation is split over as many agents, and the final status clears one
table: `HistoryKept` and `LeftoverIsLate` say what is true of each process, and with one process
they say that a call has its whole context and that only late callbacks leave agents behind. An agent may fail to be made, since its constructor reads files and
settings; respond then hangs up. `transfer-complete` is not an action: nothing
sets the context key `escalated` that leads to it.

### Consents and KnowledgeBase

`GrantConsent` revokes the earlier records for the purpose, expired ones too, and
appends; `WithdrawConsent` closes the first open one only; `Expires` is the ttl.
`CreateArticles` is `create_article` and, for more ids at once, `import_from_json`;
`UpdateArticle` indexes again; `UpdateRaises` is the `ValueError` at an unknown
category, after `setattr` of the fields named before it and before the index.
Words only ever enter the index, as in the code; a search filters by `published`. Words are
those that are indexed (three letters or more, no stop words), and what matches is
returned up to `limit` articles (`kb_manager.py:191`), which the model leaves out.

### MCStore and MCPlatform

The three tables of `MCStore` have no column in common and no request touches two
of them; the nine managers of `MCPlatform` have no field in common and no code of
the repository hands one's state to another. Their product would check nothing
that its factors do not, so an initial choice (`part`, `focus`) picks whose run it
is, and the others keep their initial values.

## 3. What TLC checks

| Run | Instance | Shows |
|---|---|---|
| `webhook_cron` | 3 webhooks, 1 job, 5 attempts | `OnePostAtATime`, `NoPostAfterAccept`, `DeadLettersExhausted`: used as its docstring says, the manager never posts a webhook from two threads or after it was accepted, and dead letters are exactly the exhausted webhooks |
| `webhook_threads` | 2 webhooks, 2 jobs, 1 operator, 2 attempts | `NothingForgotten`, `OnlyAcceptedLeave`, `EventuallyAnswered`, whatever overlaps |
| `webhook_limit` (violated) | 1 webhook, 1 job, 1 operator, 5 attempts | `AtMostMaxAttempts` fails: after a failed manual retry the job posts a sixth time |
| `workflow_all` | `return_order`, `custom_order` and a definition with two gates that meet, all running | `NothingBehindClosedGate`, `CompletedIsWhole`, `OneGateRunsOnce`, `NoStepAfterStop`, `RunEnds` |
| `workflow_custom` (violated) | `custom_order` | `NoStepTwice` fails: the second approval resumes at step 3 |
| `billing_race` | 1 tenant, 1 customer, 2 row ids, 2 requests at once | `OneRowPerTenant`, `NoDowngradeUnasked` |
| `billing_tenants` | 2 tenants, 2 customers either may be given, 1 subscription | `NothingCrossesTenants`: a row's subscription is its tenant's, and an invoice goes to a tenant of the customer; `PlanWasBought` |
| `billing_twice` (violated) | 1 tenant, 2 customers, 2 requests | `PaidIsLinked` fails: two first checkouts at once make the tenant's rows ambiguous for good |
| `store` | 2 requests on 2 orders, on 2 customers, on 1 product | `StatusIsLastChange`, `GapsNeedOverlap`: the log, sorted by `changed_at`, ends in the status of the order unless its latest change was overtaken, and a gap needs an overlap; `ImplementsLedger`, `LossNeedsOverlap`, `TierWasEarned`, `WelcomeIsReferred`: an account is a points ledger, its columns disagree after overlaps only, and it has no tier its additions do not pay for; `OversellNeedsOverlap`: only overlapping reservations lose one |
| `orders_voice` (violated) | 1 order, 1 request | `ToldMeansCancelled` fails: the cancellation is never committed |
| `platform` | nine managers, one at a time | cluster: `SilentIsReported`; circuit: `RecoversWithComponent`; balancer: `CountIsOfFlights`, `DrainEmpties`; limiter: `AllowanceKept`; speech: `QuietIsIdle`, `SpeechCanBeInterrupted`; pool: `ReadsFollowReport`, `WriterLostUnheard`; calls: `HistoryKept`, `LeftoverIsLate`; consents: `WithdrawalHolds`; articles: `FoundByItsWords` |
| `ha_failover` (violated) | 2 nodes, 3 failures | `FailoverHappens` fails: a primary that stays dead counts one failure |

The types of each module are checked in its first run.

**Bounds.** *Webhooks*: `attempt` saturates one above `MaxAttempts`; the code compares it
with 1 and the limit only, and `TypeOK` covers the one value above. Two jobs are
enough for one to act between another's snapshot and its post, the only window
there is; three would add no kind of interleaving, two of them being always in
the same place. With a limit of 2 the first failed retry already exhausts a
webhook, which brings the DLQ into short runs; 5, the code's value, is used where
one job keeps the space small. In `Workflow` nothing is bounded: `times` counts
0, 1, and 2 for more. In `Billing`, `MaxEvents` stops Stripe from producing news while
that many calls are unanswered; 2 lets every pair of event types be pending
together, and since calls repeat and reorder freely, more would repeat the same
pairs. Two row ids are enough to see that a second row appears; two tenants and two
customers, to see a tenant whose row names one customer pay as the other, which is the
other tenant's.

*Shop*: lost updates need two requests, and a third would meet the
row as the second left it. `MaxHistory` 3 lets a log hold the creation, two overlapping
changes, and one that follows them; their times are taken in either order. `MaxMovements` 3 is a bonus with the two
halves of a referral, or a bonus and two redemptions that overlap; `Bonuses`
{4} (1000 points) is the step to silver, so that tiers change; `Redemptions` {2} takes half of it;
`Gains` {0} is the purchase too small to earn, whose transaction moves nothing,
larger ones being bonuses by another name. Three reservations of 2, 1 or -1 with 3
units, a delivery of 2 and a correction of 4 sell out, give back, oversell and go to zero.

*Managers*: a `HeartbeatTimeout` of 1 tick separates heard of, just in time, and
silent; two failures of two nodes reach failover and the cooldown after it;
`ha_failover` takes the code's 3. Circuit thresholds 3 and 2 let counts be left over on
both sides; `RecoveryTimeout` 2 has a tick before and after. Two backends and
three requests with 2 connections fill one, empty one and replace one. Three
database nodes are two that swap roles and one that is read meanwhile or registered as a
second primary. Bursts 1
and 2, one rate, costs 1 and 2 refuse, drain and refill a bucket that is older than its
key's limits; the arithmetic is in ticks of one token. One call with two turns for each of two processes,
since calls share nothing but the tables, by key; a turn here and the next
there, restarts and every order of callbacks are in it. Two workers are an old and a new speech. Four records and
two purposes, one unlimited, make an expired record precede an open one. Two
articles are imported together, and two words tell a changed field from a kept one.

`CHECK_DEADLOCK FALSE` is in every configuration: these systems may rest, with every webhook
answered, every instance ended or waiting for a human, every subscription settled,
every bound reached.

**Symmetry** is used for ids, in runs without liveness. `platform` checks liveness
and has none.

**Fairness.** `WebhookRetry`: a POST ends within its timeout, a thread that runs
goes on, time passes, and the job is called periodically, as the docstring of
`process_retry_queue` asks. Sending, retrying by hand and cleaning up are never
promised. `Workflow`: a step function ends, by returning or raising; nobody
promises an approval or a cancel. `Billing`: a request ends, by commit or
rollback, and Stripe calls until it is answered; strong fairness of the handlers
and their commits says that the same call does not fail for ever.
`HighAvailability`: the health cycle is run again and again (the loop is in
`docs/HIGH_AVAILABILITY.md`), time passes, and a node that stays alive goes on
sending heartbeats; registration, stopping and returning are never promised.
`CircuitBreaker`: the checks are periodic ("Ejecuta checks periodicos") and time
passes; forcing a circuit is never promised. `LoadBalancer`: a request that
has a backend ends and releases it. The others have no liveness to check: their
operations come when they come.

## 4. What the runs found

* **A sixth post** (`webhook_limit`). `retry_dead_letter` announces "Un intento
  mas" (`webhook_retry.py:264`) and does not look at a failure: the record stays
  `RETRYING` with the retry time of its last regular retry, long past, so the
  next run of the job posts it once more and only then returns it to the DLQ.
  The DLQ still lists it meanwhile, which is why `NothingForgotten` and
  `EventuallyAnswered` hold.
* **The second approval resumes too early** (`workflow_custom`).
  `current_step_index` counts from the start of the list of the last run, and
  `resume` cuts the whole definition with it (`workflow_engine.py:213`).
  `custom_order` runs `notify_time` again and waits at `mark_ready` again. With
  one gate, as in `return_order`, the index is right: `OneGateRunsOnce`.
* **A paid subscription that is never activated** (`billing_twice`). Two first
  checkouts at once create two Stripe customers and two rows, since `tenant_id`
  is not unique. Every query by tenant raises from then on, and the webhook
  handler turns the exception into a 200.
* **A cancellation nobody commits** (`orders_voice`). `handle_cancelar_pedido` opens
  `AsyncSessionLocal` itself (`order_voice_handler.py:97`) and the services below it
  only flush; closing the session rolls the change back after the customer was
  told "ha sido cancelado exitosamente".
* **A failover that never comes** (`ha_failover`). `check_node_health` counts a
  failure only on the way into `UNHEALTHY` (`high_availability.py:113`). A primary
  that stays dead counts one, the limit is 3, and the secondary beside it
  waits for ever. Only a primary that comes and goes three times is replaced.

Seen while modelling, in no run: the agent has no `start_call` and no `end_call`, so a
call is greeted with the text of the error branch. A database primary that is
promoted back before it reported, or registered so, stays `DISCONNECTED` for good, since
lag is heard from replicas only: `WriterLostUnheard` says that these are the ways to lose
the writer. A call whose turns go to two workers has two agents, each with half of the
conversation, and the final status removes one of them; the comment at
`voice_routes.py:23` names Redis for production, and the shipped servers do without. Two
tenants with one billing e-mail, or none, get one Stripe customer: the second one's first
checkout fails on the unique column, or, if the first tenant's row names another customer,
takes the customer and with it the invoices of the first. An update of an order that takes its
time first and commits last leaves its status on the order and another's as the last of the log. The index of the knowledge base keeps the words of old texts.
`BudgetAlertManager._in_cooldown` compares a percentage with a fraction, so its
cooldown never applies; `AutoScaler` starts with one replica whatever its minimum;
`IncidentManager.add_update` reopens a resolved incident; `FailoverManager` stays
`DEGRADED` after the primary was restored.

## 5. What is proved

TLC shows the properties for the instances above. The theorems show them for
every value of the constants: any sets of webhooks, jobs, tenants, orders, nodes,
calls, workers or articles, any limits, any definitions of workflows.

`WebhookRetryProofs`, from `LimitAssumption` and `ThreadsAssumption`.
`NothingForgotten` and `OnlyAcceptedLeave` are not inductive: in a state where a
job holds a webhook that its own sender is still posting, or where a dead one has
no retry time, one step loses it, and nothing in the properties says that such a
state is not reached. `IInv` adds four facts that say so. `SenderFacts`: a
webhook's own thread sends once, before there is a retry time. `HelperFacts`: what
a job or an operator holds was scheduled once, so it has a retry time and its
sender is done. `CurFacts`: a thread in the middle of a step has a record in hand,
and removes only accepted ones from the DLQ. `StatusFacts`: a pending webhook is
being sent, a retrying or dead one has a retry time and no sender, a delivered one
was accepted, and a dead one was accepted, is in the DLQ, or is about to be queued.
Each action is a lemma with one step per part.
The three properties of the cron run are proved under the hypothesis `OneJob`, that no
operator retries by hand and that there is at most one job, which is what the
docstring of `process_retry_queue` asks for and what `webhook_cron` gives;
two jobs can hold one record in their snapshots, and a manual retry takes a dead
letter up again, so without it they do not hold. `CronInv` adds
`JobFacts`: what the job snapshot stays retrying with attempts to spare until the job
serves it, for its sender is done and nobody else writes the record; and
`WebhookFacts`, which relates status, attempts, DLQ and history of each webhook.
Theorems: `TypeCorrect`, `NothingIsForgotten`, `OnlyAcceptedAreDropped`; `OnePost`,
`AcceptedIsLeftAlone`, `DeadAreExhausted`.

`WorkflowProofs`, from `DefinitionAssumption`. The strengthening places the run:
a suspended run stands at a step without a gate, a waiting one at a gate, and
every step before the position has run or is an approved gate. That the second
resume goes back, never forward, is what makes `NoGateIsJumped` true in spite of
the finding. Theorems: `TypeCorrect`, `NoGateIsJumped`, `CompletedHasAll`,
`StoppedStaysStopped`, `OneGateNeverRepeats`.

`BillingProofs`, from `IdsAssumption` (no id is the word that stands for NULL). A
handler decides on a row it read and writes after others did, so the properties
say nothing of the decisions under way. `IInv` does. `Sound`: what a request will
commit belongs to its tenant, its plan is bought, a change of plan has a
reason at Stripe, a session's tenant holds its customer (`Holds`), and an invoice's tenant
holds the customer of the subscription (`Bills`). `Reserved`: a new row's id is nobody else's, and any other
request works on a row of its tenant. `RowFacts`, `StripeFacts`, `PlanFacts`: a
row's subscription is its tenant's and its customer one the tenant holds, and so is the
customer of a session and of a subscription, an event is about a subscription somebody has, and a
`deleted` event about one that has ended. A decision, once sound, stays so because
the holders of a customer and the subscriptions only grow (`Grows`, `Keeps`) and a row never changes its
tenant; and the merge of two rows of one tenant, column by column, is a row of that
tenant (`MergeBelongs`). `Decided` and `Flushed` carry this once for all handlers.
`OneRowPerTenant` follows from `RowFacts` with two facts more (`SingleInv`): the columns
are unique, since `Flush` writes nothing else, and a tenant has been given only finitely many
customers, without which the count of them would say nothing. Every row
of a tenant names a customer it was given; where there is one, two rows would share it. No
theorem assumes that a customer has one holder.
Theorems: `TypeCorrect`, `NothingCrosses`, `PlansAreBought`, `OneCustomerOneRow`,
`DowngradesAreAsked`.

`StoreProofs`, from `OrdersAssumption`, `InventoryAssumption` and `LoyaltyAssumption`.
*Orders*: a commit writes what was decided on a read
that may be old, at a time that may be older than those of entries committed since. `LogInv`
says that the status is where the log leads as it was *committed*, and of each entry
that it starts from where the part of the log its request had seen leads, and that its time is
later than all of that part's (`ReadBy`): a time is taken after the read. `WriterInv` says the
same of each request under way. The properties are about the order of `changed_at`, and two lemmas
about any log lead there: `LatestOrOvertaken`, that the latest change is the one committed last
unless that one had not seen it; and `NoOverlapSeesAll`, that of entries no two of which
overlapped each had seen exactly what sorts before it. `Alone` keeps a creation from meeting
another one's order; `LeadsOn` and `LogOn` are about appending to a log.
*Stock*: `StockInv` says of each request under way that it has not read more
reservations than were answered, that what it will write is within what was promised, what was
given back and its own quantity, and that one which none has overtaken holds the row's
reserved units and its own. Theorems: `LogLeadsToStatus`, `GapsAreOverlaps`,
`StockIsOversoldByOverlap`, and `StoreIsTyped` for the three tables together, with no bound on the logs.

`LoyaltyProofs`, from `LoyaltyAssumption`. A request may hold an account through
three commits of its own and any number of others'. `ReadOf` says what such a read is
worth: a balance the account has had, columns that the points added to the account pay for,
and, if no commit has followed and none overlapped before, the account itself.
It survives every commit of anybody, since logs and `earned` only grow; a commit then writes an
account that is sound because its read was. `RequestInv` adds the stage: a request
that adds a welcome bonus finds its customer marked. From this invariant each step
of `Loyalty` is a step of `PointsLedger` or a stutter. Theorems: `AccountsAreLedgers`
(the refinement), `PointsAreLostByOverlap`, `TiersAreEarned`, `WelcomesAreReferred`.

`CallsProofs`. *The tables of agents*: `LiveInv` says of a live call that no final status is
under way or handled, that the agent of each process is up to date with the turns it answered, or not
made, and that no turn precedes the answer to `incoming`: without them a status callback could be
imagined that drops the agent of a live call. `FinalInv`: a call has one final status, so one
process closes it, and it has cleared its table then. Nothing is assumed of the number of
processes or of which of them a callback goes to. *Barge-in*: `TtsInv` and `StateInv` name, for every value of the flags, the thread
that will change it: an active TTS has a speech or a start at it, a state other than
idle and processing has somebody on the way to leave it. `CalmInv` follows
a start that met nobody: it is alone until its speech is there. Theorems:
`ContextIsKept`, `LeftoversAreLate`; `QuietMeansIdle`, `SpeechIsInterruptible`.

`PlatformProofs`, from the assumptions of the nine managers' constants. *Pool*
(`Disconnections`): silent and disconnected are the same, and a disconnected primary came
to the role so, by promotion or by registration. *Cluster*: the types suffice;
`CycleKeepsCluster` follows a promoted node through the cycle's checks, where being available
means that it was heard of in time, and counts the promotions: more than one needs
`FailoverCooldown = 0`. *Circuit* (`CircuitInv`): a circuit that failures opened keeps their
count until it closes. *Balancer* (`LBInv`): the requests on a backend are finitely many,
so that taking one or giving it back changes their number by one. *Limiter*:
`AllowanceKept` is not inductive, for a bucket that has granted all it may could
still be full. `BucketOwes` counts what a bucket would hold if it were refilled now as
if it were granted: for every stretch of *n* ticks the two together stay within
burst and refills, since a tick adds to the left what it adds to the right.
`WindowLists` says that what a window granted in any part of its length is still in its
list, which never outgrows its slots. *All of them*: a step of the platform is a step
of one manager and leaves the others alone. Theorems: `ReadsAreReported`,
`WriterIsLostUnheardOnly`, `CountsAreOfFlights`, `AllowancesAreKept`, `PlatformIsTyped`, and
`OneFailureIsEnough` (`OneFailureReopens`) and `PromotedIsUp` (`FailoverGivesPrimary`), two
action properties that no run repeats.

`OfficeProofs`, from `ConsentsAssumption`. `OneOpen`: a user has at most one open record
for a purpose, expired or not, so the first one that a withdrawal finds is the only
one. `IndexKnows`: the index knows the words of unpublished articles as well, so that
publishing again needs no indexing. Theorems: `OneWithdrawalIsEnough`,
`PublishedIsFound`.

Every invariant and action property of the passing runs, and the refinement, is stated by
one of these theorems. Only model-checked: the liveness properties
(`EventuallyAnswered`, `RunEnds`, `PaidIsLinked`, `SilentIsReported`,
`RecoversWithComponent`, `DrainEmpties`), since fairness and `ENABLED` are out of the
prover's reach. What a fold or a recursive definition computes for every sequence would need
induction over data, which is out of it too: where a property is about a sum (points
added, units promised, tokens granted), a history variable carries the sum from step to
step instead. No module declares a `RECURSIVE` operator.

## 6. What is left

Modules worth adding, in order: the life cycle of a call recording with its
retention; `AutoScaler` with metrics that are older than its last decision; the
circuit breaker of `crm_connector.py`; the stages of `FailoverManager` under callbacks
that fail. Theorems worth proving: the safety half of the liveness arguments, such as the
measure that each retry of a webhook makes smaller; and that a tenant with two rows can no
longer be activated, the invariant behind `billing_twice`.

The modules cover the parts whose state several actors or long sequences of calls
change. Most lines of the package are elsewhere; `PROJECT.json` lists them.

**Not modelled.**

* Order payments: the settings declare no provider key, so every payment stays a
  pending stub. Legacy subscriptions, payments and licences import a package
  `database.models` that does not exist. Coupons, notifications and order analytics
  fail on import. There is no behaviour to be faithful to.
* Authentication, one-time passwords, traffic protection and the other security parts are left aside.
* Incidents, on-call shifts, budgets, GDPR requests, experiments, chaos and observability:
  registers and counters that one call at a time changes; their cases are within the
  reach of unit tests. `PostgreSQL replication`, CDN, CRM and messaging render
  configurations or wrap HTTP calls.
* Language, speech, the wake word, reviews, shipping, branding: classifiers, prompts,
  audio, queries and formatting.
* In modelled parts: amounts, periods, texts, tenants of orders, ranking of searches,
  statistics; each module's comment says what it leaves out. Invoice numbers, whose
  count is read before the insert, are the hazard of billing that no text makes a promise about.
