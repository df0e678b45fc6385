---------------------------- MODULE WebhookRetry ----------------------------
(***************************************************************************)
(* WebhookRetryManager (src/src/compliance/webhook_retry.py): webhooks are *)
(* posted at once, retried by a periodic job with a growing delay, moved   *)
(* to a dead letter queue (DLQ) after max_attempts, and retried from there *)
(* by hand.                                                                *)
(*                                                                         *)
(* The manager is shared by threads and its lock covers only the dict and  *)
(* the appends to the DLQ, never the fields of a record.  A thread runs    *)
(* here without interruption up to a point where it really blocks: the     *)
(* HTTP POST, the acquisition of the lock, and the log calls between a     *)
(* decision and the write it leads to.                                     *)
(*                                                                         *)
(* Abstractions.  Time is what the code asks of it: whether next_retry_at  *)
(* has passed, whether delivered_at is older than the cleanup cutoff.      *)
(* The attempt counter saturates one above max_attempts: the code only     *)
(* compares it with 1 and with max_attempts.  The list of records a job    *)
(* snapshots is a set, served in any order.                                *)
(***************************************************************************)
EXTENDS Naturals, FiniteSets

CONSTANTS
    Webhooks,       \* webhook ids; each is also the thread that sends it
    Jobs,           \* threads that run process_retry_queue
    Operators,      \* threads that run retry_dead_letter
    MaxAttempts     \* record.max_attempts

\* The constructor fixes max_attempts to 5; with 1 the failed immediate
\* attempt would be neither scheduled nor queued, so 2 is the least.
ASSUME LimitAssumption == MaxAttempts \in Nat /\ MaxAttempts >= 2

ASSUME ThreadsAssumption ==
    /\ Webhooks \cap Jobs = {}
    /\ Webhooks \cap Operators = {}
    /\ Jobs \cap Operators = {}

Threads == Webhooks \cup Jobs \cup Operators

VARIABLES
    webhooks,       \* keys of _webhooks
    status,         \* record.status, "none" before the record exists
    attempt,        \* record.attempt
    nextRetryAt,    \* record.next_retry_at against now
    deliveredAt,    \* record.delivered_at against the cleanup cutoff
    dlq,            \* _dead_letter_queue
    pc,             \* where each thread is
    cur,            \* the record a thread works on
    batch,          \* the records a job has still to serve
    acked           \* history: some thread read a 2xx answer for the webhook

record == <<status, attempt, nextRetryAt, deliveredAt>>
thread == <<pc, cur, batch>>
vars == <<webhooks, record, dlq, thread, acked>>

Statuses == {"none", "pending", "delivered", "retrying", "dead"}

TypeOK ==
    /\ webhooks \subseteq Webhooks
    /\ status \in [Webhooks -> Statuses]
    /\ attempt \in [Webhooks -> 0 .. MaxAttempts + 1]
    /\ nextRetryAt \in [Webhooks -> {"none", "future", "past"}]
    /\ deliveredAt \in [Webhooks -> {"none", "recent", "old"}]
    /\ dlq \subseteq Webhooks
    /\ pc \in [Threads -> {"idle", "posting", "queueing", "serving",
                           "restarting", "unqueueing", "done"}]
    /\ cur \in [Threads -> Webhooks \cup {"nothing"}]
    /\ batch \in [Jobs -> SUBSET Webhooks]
    /\ acked \subseteq Webhooks

Init ==
    /\ webhooks = {}
    /\ status = [w \in Webhooks |-> "none"]
    /\ attempt = [w \in Webhooks |-> 0]
    /\ nextRetryAt = [w \in Webhooks |-> "none"]
    /\ deliveredAt = [w \in Webhooks |-> "none"]
    /\ dlq = {}
    /\ pc = [t \in Threads |-> "idle"]
    /\ cur = [t \in Threads |-> "nothing"]
    /\ batch = [j \in Jobs |-> {}]
    /\ acked = {}

-----------------------------------------------------------------------------
(* The parts the three entry points share.                                 *)

\* The thread holds the record: no reference to it is left elsewhere.
Holds(t, w) ==
    \/ pc[t] \in {"posting", "queueing", "restarting", "unqueueing"} /\ cur[t] = w
    \/ t \in Jobs /\ w \in batch[t]

\* _attempt_delivery up to the POST, from attempt number n - 1.
BeginAttempt(t, w, n) ==
    /\ attempt' = [attempt EXCEPT ![w] = IF n > MaxAttempts THEN MaxAttempts + 1 ELSE n]
    /\ status' = [status EXCEPT ![w] = IF n > 1 THEN "retrying" ELSE "pending"]
    /\ pc' = [pc EXCEPT ![t] = "posting"]
    /\ cur' = [cur EXCEPT ![t] = w]

\* What a thread does next when it is finished with the record in hand.
AfterRecord(t) == IF t \in Jobs THEN "serving" ELSE IF t \in Operators THEN "idle" ELSE "done"

\* MUTANT: one attempt too many.
MutantMayRetry(w) == attempt[w] <= MaxAttempts
\* The branch of _schedule_retry, and the caller's guard in send_webhook.
MayRetry(w) == attempt[w] < MaxAttempts

\* MUTANT: an exhausted webhook gets the enumeration's unused status.
MutantScheduleRetry(t, w) ==
    IF MayRetry(w)
    THEN /\ nextRetryAt' = [nextRetryAt EXCEPT ![w] = "future"]
         /\ status' = [status EXCEPT ![w] = "retrying"]
         /\ pc' = [pc EXCEPT ![t] = AfterRecord(t)]
    ELSE /\ status' = [status EXCEPT ![w] = "failed"]
         /\ pc' = [pc EXCEPT ![t] = "queueing"]
         /\ UNCHANGED nextRetryAt

\* _schedule_retry, and the first line of _move_to_dlq.
ScheduleRetry(t, w) ==
    IF MayRetry(w)
    THEN /\ nextRetryAt' = [nextRetryAt EXCEPT ![w] = "future"]
         /\ status' = [status EXCEPT ![w] = "retrying"]
         /\ pc' = [pc EXCEPT ![t] = AfterRecord(t)]
    ELSE /\ status' = [status EXCEPT ![w] = "dead"]
         /\ pc' = [pc EXCEPT ![t] = "queueing"]
         /\ UNCHANGED nextRetryAt

-----------------------------------------------------------------------------
(* The steps of the threads.                                               *)

\* send_webhook: the record is stored and the first POST leaves at once.
SendWebhook(w) ==
    /\ pc[w] = "idle"
    /\ webhooks' = webhooks \cup {w}
    /\ BeginAttempt(w, w, 1)
    /\ UNCHANGED <<nextRetryAt, deliveredAt, dlq, batch, acked>>

\* _attempt_delivery reads a 2xx answer; retry_dead_letter has then a step left.
ReplyOK(t) ==
    /\ pc[t] = "posting"
    /\ status' = [status EXCEPT ![cur[t]] = "delivered"]
    /\ deliveredAt' = [deliveredAt EXCEPT ![cur[t]] = "recent"]
    /\ acked' = acked \cup {cur[t]}
    /\ pc' = [pc EXCEPT ![t] = IF t \in Operators THEN "unqueueing" ELSE AfterRecord(t)]
    /\ UNCHANGED <<webhooks, attempt, nextRetryAt, dlq, cur, batch>>

\* MUTANT: the failed delivery is not rescheduled.
MutantReplyError(t) ==
    /\ pc[t] = "posting"
    /\ pc' = [pc EXCEPT ![t] = AfterRecord(t)]
    /\ UNCHANGED <<status, nextRetryAt>>
    /\ UNCHANGED <<webhooks, attempt, deliveredAt, dlq, cur, batch, acked>>
\* _attempt_delivery reads another answer, or times out.  send_webhook and the
\* job reschedule the record; retry_dead_letter leaves it as it is.
ReplyError(t) ==
    /\ pc[t] = "posting"
    /\ IF t \in Jobs \/ (t \in Webhooks /\ MayRetry(cur[t]))
       THEN ScheduleRetry(t, cur[t])
       ELSE /\ pc' = [pc EXCEPT ![t] = AfterRecord(t)]
            /\ UNCHANGED <<status, nextRetryAt>>
    /\ UNCHANGED <<webhooks, attempt, deliveredAt, dlq, cur, batch, acked>>

\* MUTANT: the webhook is marked dead and not queued.
MutantMoveToDLQ(t) ==
    /\ pc[t] = "queueing"
    /\ pc' = [pc EXCEPT ![t] = AfterRecord(t)]
    /\ UNCHANGED <<webhooks, record, dlq, cur, batch, acked>>
\* The rest of _move_to_dlq, once the lock is held.
MoveToDLQ(t) ==
    /\ pc[t] = "queueing"
    /\ dlq' = dlq \cup {cur[t]}
    /\ pc' = [pc EXCEPT ![t] = AfterRecord(t)]
    /\ UNCHANGED <<webhooks, record, cur, batch, acked>>

\* MUTANT: a webhook being sent for the first time is taken for a due one.
MutantDueAnytime(w) == status[w] \in {"pending", "retrying"}

\* MUTANT: the retry time, which nothing ever clears, decides alone.
MutantDueByTime(w) == nextRetryAt[w] = "past"

\* The filter of process_retry_queue.
Due(w) == status[w] = "retrying" /\ nextRetryAt[w] = "past"

\* process_retry_queue snapshots the due records under the lock.  A call that
\* finds none changes nothing.
TakeSnapshot(j) ==
    /\ pc[j] = "idle"
    /\ \E w \in webhooks : Due(w)
    /\ batch' = [batch EXCEPT ![j] = {w \in webhooks : Due(w)}]
    /\ pc' = [pc EXCEPT ![j] = "serving"]
    /\ UNCHANGED <<webhooks, record, dlq, cur, acked>>

\* The loop of process_retry_queue: the record is not looked at again before
\* it is posted, whatever happened to it since the snapshot.
ServeNext(j) ==
    /\ pc[j] = "serving"
    /\ \E w \in batch[j] :
          /\ batch' = [batch EXCEPT ![j] = @ \ {w}]
          /\ BeginAttempt(j, w, attempt[w] + 1)
    /\ UNCHANGED <<webhooks, nextRetryAt, deliveredAt, dlq, acked>>

FinishBatch(j) ==
    /\ pc[j] = "serving"
    /\ batch[j] = {}
    /\ pc' = [pc EXCEPT ![j] = "idle"]
    /\ UNCHANGED <<webhooks, record, dlq, cur, batch, acked>>

\* retry_dead_letter: the check that the webhook is dead ...
RetryDeadLetter(o, w) ==
    /\ pc[o] = "idle"
    /\ w \in webhooks
    /\ status[w] = "dead"
    /\ pc' = [pc EXCEPT ![o] = "restarting"]
    /\ cur' = [cur EXCEPT ![o] = w]
    /\ UNCHANGED <<webhooks, record, dlq, batch, acked>>

\* MUTANT: the webhook leaves the DLQ when the new attempt begins.
MutantRestartAttempts(o) ==
    /\ pc[o] = "restarting"
    /\ BeginAttempt(o, cur[o], MaxAttempts)
    /\ dlq' = dlq \ {cur[o]}
    /\ UNCHANGED <<webhooks, nextRetryAt, deliveredAt, batch, acked>>

\* ... one attempt more, after the log call, without a second look ...
RestartAttempts(o) ==
    /\ pc[o] = "restarting"
    /\ BeginAttempt(o, cur[o], MaxAttempts)
    /\ UNCHANGED <<webhooks, nextRetryAt, deliveredAt, dlq, batch, acked>>

\* ... and, when it was accepted, the removal from the DLQ, without the lock.
RemoveFromDLQ(o) ==
    /\ pc[o] = "unqueueing"
    /\ dlq' = dlq \ {cur[o]}
    /\ pc' = [pc EXCEPT ![o] = "idle"]
    /\ UNCHANGED <<webhooks, record, cur, batch, acked>>

\* cleanup_old_webhooks deletes the records delivered before the cutoff.
Cleanup ==
    /\ \E w \in webhooks : status[w] = "delivered" /\ deliveredAt[w] = "old"
    /\ webhooks' = {w \in webhooks : ~(status[w] = "delivered" /\ deliveredAt[w] = "old")}
    /\ UNCHANGED <<record, dlq, thread, acked>>

\* The delay computed by _calculate_retry_delay runs out.
RetryFallsDue(w) ==
    /\ nextRetryAt[w] = "future"
    /\ nextRetryAt' = [nextRetryAt EXCEPT ![w] = "past"]
    /\ UNCHANGED <<webhooks, status, attempt, deliveredAt, dlq, thread, acked>>

\* A delivery becomes older than max_age_hours: hours after the 30 s timeout
\* of any request that could still be in a thread's hands.
DeliveryAges(w) ==
    /\ deliveredAt[w] = "recent"
    /\ \A t \in Threads : ~Holds(t, w)
    /\ deliveredAt' = [deliveredAt EXCEPT ![w] = "old"]
    /\ UNCHANGED <<webhooks, status, attempt, nextRetryAt, dlq, thread, acked>>

ThreadStep(t) == ReplyOK(t) \/ ReplyError(t) \/ MoveToDLQ(t)
JobStep(j) == TakeSnapshot(j) \/ ServeNext(j) \/ FinishBatch(j)
OperatorStep(o) == RestartAttempts(o) \/ RemoveFromDLQ(o)

Next ==
    \/ \E w \in Webhooks : SendWebhook(w) \/ RetryFallsDue(w) \/ DeliveryAges(w)
    \/ \E t \in Threads : ThreadStep(t)
    \/ \E j \in Jobs : JobStep(j)
    \/ \E o \in Operators, w \in Webhooks : RetryDeadLetter(o, w)
    \/ \E o \in Operators : OperatorStep(o)
    \/ Cleanup

\* A POST returns within its timeout, a thread that is running goes on, the
\* retry job is called periodically (docstring of process_retry_queue) and
\* time passes.  Nobody has to send, to retry by hand or to clean up.
Fairness ==
    /\ \A t \in Threads : WF_vars(ThreadStep(t))
    /\ \A j \in Jobs : WF_vars(JobStep(j))
    /\ \A o \in Operators : WF_vars(OperatorStep(o))
    /\ \A w \in Webhooks : WF_vars(RetryFallsDue(w))

Spec == Init /\ [][Next]_vars /\ Fairness

-----------------------------------------------------------------------------
(* What must hold however the threads interleave.                          *)

Posting(w) == {t \in Threads : pc[t] = "posting" /\ cur[t] = w}

\* Nothing is forgotten: a webhook that was sent and that no answer ever
\* accepted has a future.  A thread is working on it, or it waits with a retry
\* time set, or it is in the DLQ where an operator finds it.
NothingForgotten ==
    \A w \in webhooks \ acked :
        \/ \E t \in Threads : Holds(t, w)
        \/ status[w] = "retrying" /\ nextRetryAt[w] # "none"
        \/ status[w] = "dead" /\ w \in dlq

\* The table and the DLQ only lose webhooks the receiver has accepted: neither
\* the cleanup nor an operator's retry drops one that was not.
OnlyAcceptedLeave ==
    [][/\ (webhooks \ webhooks') \subseteq acked
       /\ (dlq \ dlq') \subseteq acked]_vars

\* Every webhook that is sent is in the end accepted or put before an operator
\* in the DLQ.
EventuallyAnswered ==
    \A w \in Webhooks : (w \in webhooks) ~> (w \in acked \/ w \in dlq)

-----------------------------------------------------------------------------
(* What holds when there is one job and nobody retries by hand: the use    *)
(* the docstring of process_retry_queue describes.                         *)

\* A webhook is posted by at most one thread at a time: the immediate attempt
\* of send_webhook and the job never meet on one record.
OnePostAtATime == \A w \in Webhooks : Cardinality(Posting(w)) <= 1

\* An accepted webhook is never posted again.
NoPostAfterAccept ==
    [][\A w \in acked : Posting(w)' \subseteq Posting(w)]_vars

\* Dead letters are the webhooks that used up their attempts without being
\* accepted: status, attempt counter, queue and history agree.
DeadLettersExhausted ==
    \A w \in Webhooks :
        /\ w \in dlq => status[w] = "dead"
        /\ status[w] = "dead" =>
              /\ attempt[w] = MaxAttempts
              /\ w \notin acked
              /\ w \in dlq \/ \E t \in Threads : pc[t] = "queueing" /\ cur[t] = w

-----------------------------------------------------------------------------
(* "Despues de 5 intentos: -> Dead Letter Queue" (webhook_retry.py:80).    *)

\* No webhook is posted once more after max_attempts posts, the one more an
\* operator asks for being counted by the code as the last of them.
AtMostMaxAttempts == \A w \in Webhooks : attempt[w] <= MaxAttempts
=============================================================================
