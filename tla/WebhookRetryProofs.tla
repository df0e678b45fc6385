------------------------- MODULE WebhookRetryProofs -------------------------
(***************************************************************************)
(* For any number of webhooks, jobs and operators: the types, and the two  *)
(* promises of the retry manager that survive every interleaving.  Then    *)
(* what it promises besides where one job runs and nobody retries by hand. *)
(***************************************************************************)
EXTENDS WebhookRetry, FiniteSetTheorems, TLAPS

Helpers == Jobs \cup Operators

-----------------------------------------------------------------------------
(* The parts of the inductive invariant.                                   *)

\* Who sends a webhook: its own thread, once, before it has a retry time.
SenderFacts ==
    \A w \in Webhooks :
        /\ pc[w] \in {"idle", "posting", "done"}
        /\ pc[w] = "idle" => status[w] = "none" /\ nextRetryAt[w] = "none" /\ w \notin webhooks
        /\ pc[w] = "posting" => cur[w] = w /\ attempt[w] = 1 /\ nextRetryAt[w] = "none"
        /\ pc[w] # "idle" => status[w] # "none" /\ attempt[w] >= 1

\* The jobs and the operators only ever hold webhooks that were scheduled once.
HelperFacts ==
    \A t \in Helpers, w \in Webhooks : 
        Holds(t, w) => nextRetryAt[w] # "none" /\ pc[w] = "done"

\* Only threads with a record in hand are in the middle of a step.
CurFacts ==
    \A t \in Threads :
        /\ pc[t] \in {"posting", "queueing", "restarting", "unqueueing"} => cur[t] \in Webhooks
        /\ pc[t] = "unqueueing" => cur[t] \in acked

\* Each status tells what else is true of the webhook.
StatusFacts ==
    \A w \in Webhooks :
        /\ status[w] = "pending" => pc[w] = "posting"
        /\ status[w] \in {"retrying", "dead"} => nextRetryAt[w] # "none" /\ pc[w] = "done"
        /\ status[w] = "delivered" => w \in acked
        /\ status[w] = "dead" =>
              \/ w \in acked
              \/ w \in dlq
              \/ \E t \in Threads : pc[t] = "queueing" /\ cur[t] = w

IInv == TypeOK /\ SenderFacts /\ HelperFacts /\ CurFacts /\ StatusFacts
-----------------------------------------------------------------------------
(* The invariant holds at first, and each action keeps each of its parts.  *)

\* Before anything is sent every part holds.
LEMMA InitIInv == Init => IInv
  <1> SUFFICES ASSUME Init PROVE IInv
    OBVIOUS
  <1>1. TypeOK
    BY LimitAssumption DEF Init, TypeOK, Statuses
  <1>2. SenderFacts /\ HelperFacts /\ CurFacts /\ StatusFacts
    BY ThreadsAssumption DEF Init, SenderFacts, HelperFacts, CurFacts, StatusFacts, Holds, Helpers, Threads
  <1> QED
    BY <1>1, <1>2 DEF IInv

\* A webhook that is sent for the first time is held by nobody else.
LEMMA SendWebhookIInv ==
  ASSUME IInv, NEW w0 \in Webhooks, SendWebhook(w0)
  PROVE  IInv'
  <1> USE LimitAssumption, ThreadsAssumption DEF IInv, record, thread, Threads, Helpers
  <1>1. TypeOK'
    BY DEF SendWebhook, BeginAttempt, TypeOK, Statuses
  <1>2. SenderFacts'
    BY DEF SendWebhook, BeginAttempt, SenderFacts, TypeOK, HelperFacts, CurFacts, StatusFacts, Holds, Statuses
  <1>3. HelperFacts'
    BY DEF SendWebhook, BeginAttempt, HelperFacts, TypeOK, SenderFacts, CurFacts, StatusFacts, Holds, Statuses
  <1>4. CurFacts'
    BY DEF SendWebhook, BeginAttempt, CurFacts, TypeOK, SenderFacts, HelperFacts, StatusFacts, Holds, Statuses
  <1>5. StatusFacts'
    BY DEF SendWebhook, BeginAttempt, StatusFacts, TypeOK, SenderFacts, HelperFacts, CurFacts, Holds, Statuses
  <1> QED
    BY <1>1, <1>2, <1>3, <1>4, <1>5

\* An accepted webhook is in the history from then on.
LEMMA ReplyOKIInv ==
  ASSUME IInv, NEW t0 \in Threads, ReplyOK(t0)
  PROVE  IInv'
  <1> USE LimitAssumption, ThreadsAssumption DEF IInv, record, thread, Threads, Helpers
  <1>1. TypeOK'
    BY DEF ReplyOK, AfterRecord, TypeOK, CurFacts, Statuses
  <1>2. SenderFacts'
    BY DEF ReplyOK, AfterRecord, SenderFacts, TypeOK, HelperFacts, CurFacts, StatusFacts, Holds, Statuses
  <1>3. HelperFacts'
    BY DEF ReplyOK, AfterRecord, HelperFacts, TypeOK, SenderFacts, CurFacts, StatusFacts, Holds, Statuses
  <1>4. CurFacts'
    BY DEF ReplyOK, AfterRecord, CurFacts, TypeOK, SenderFacts, HelperFacts, StatusFacts, Holds, Statuses
  <1>5. StatusFacts'
    BY DEF ReplyOK, AfterRecord, StatusFacts, TypeOK, SenderFacts, HelperFacts, CurFacts, Holds, Statuses
  <1> QED
    BY <1>1, <1>2, <1>3, <1>4, <1>5

\* A failed attempt leaves a retry time or a thread about to queue the webhook.
LEMMA ReplyErrorIInv ==
  ASSUME IInv, NEW t0 \in Threads, ReplyError(t0)
  PROVE  IInv'
  <1> USE LimitAssumption, ThreadsAssumption DEF IInv, record, thread, Threads, Helpers
  <1>1. TypeOK'
    BY DEF ReplyError, ScheduleRetry, MayRetry, AfterRecord, TypeOK, Statuses
  <1>2. SenderFacts'
    BY DEF ReplyError, ScheduleRetry, MayRetry, AfterRecord, SenderFacts, TypeOK, HelperFacts, CurFacts, StatusFacts, Holds, Statuses
  <1>3. HelperFacts'
    BY DEF ReplyError, ScheduleRetry, MayRetry, AfterRecord, HelperFacts, TypeOK, SenderFacts, CurFacts, StatusFacts, Holds, Statuses
  <1>4. CurFacts'
    BY DEF ReplyError, ScheduleRetry, MayRetry, AfterRecord, CurFacts, TypeOK, SenderFacts, HelperFacts, StatusFacts, Holds, Statuses
  <1>5. StatusFacts'
    BY DEF ReplyError, ScheduleRetry, MayRetry, AfterRecord, StatusFacts, TypeOK, SenderFacts, HelperFacts, CurFacts, Holds, Statuses
  <1> QED
    BY <1>1, <1>2, <1>3, <1>4, <1>5

\* The thread that was about to queue a webhook leaves it in the DLQ.
LEMMA MoveToDLQIInv ==
  ASSUME IInv, NEW t0 \in Threads, MoveToDLQ(t0)
  PROVE  IInv'
  <1> USE LimitAssumption, ThreadsAssumption DEF IInv, record, thread, Threads, Helpers
  <1>1. TypeOK'
    BY DEF MoveToDLQ, AfterRecord, TypeOK, CurFacts, Statuses
  <1>2. SenderFacts'
    BY DEF MoveToDLQ, AfterRecord, SenderFacts, TypeOK, HelperFacts, CurFacts, StatusFacts, Holds, Statuses
  <1>3. HelperFacts'
    BY DEF MoveToDLQ, AfterRecord, HelperFacts, TypeOK, SenderFacts, CurFacts, StatusFacts, Holds, Statuses
  <1>4. CurFacts'
    BY DEF MoveToDLQ, AfterRecord, CurFacts, TypeOK, SenderFacts, HelperFacts, StatusFacts, Holds, Statuses
  <1>5. StatusFacts'
    BY DEF MoveToDLQ, AfterRecord, StatusFacts, TypeOK, SenderFacts, HelperFacts, CurFacts, Holds, Statuses
  <1> QED
    BY <1>1, <1>2, <1>3, <1>4, <1>5

\* A snapshot holds webhooks that have a retry time.
LEMMA TakeSnapshotIInv ==
  ASSUME IInv, NEW j0 \in Jobs, TakeSnapshot(j0)
  PROVE  IInv'
  <1> USE LimitAssumption, ThreadsAssumption DEF IInv, record, thread, Threads, Helpers
  <1>1. TypeOK'
    BY DEF TakeSnapshot, Due, TypeOK, Statuses
  <1>2. SenderFacts'
    BY DEF TakeSnapshot, Due, SenderFacts, TypeOK, HelperFacts, CurFacts, StatusFacts, Holds, Statuses
  <1>3. HelperFacts'
    BY DEF TakeSnapshot, Due, HelperFacts, TypeOK, SenderFacts, CurFacts, StatusFacts, Holds, Statuses
  <1>4. CurFacts'
    BY DEF TakeSnapshot, Due, CurFacts, TypeOK, SenderFacts, HelperFacts, StatusFacts, Holds, Statuses
  <1>5. StatusFacts'
    BY DEF TakeSnapshot, Due, StatusFacts, TypeOK, SenderFacts, HelperFacts, CurFacts, Holds, Statuses
  <1> QED
    BY <1>1, <1>2, <1>3, <1>4, <1>5

\* A job posts a webhook that was posted before.
LEMMA ServeNextIInv ==
  ASSUME IInv, NEW j0 \in Jobs, ServeNext(j0)
  PROVE  IInv'
  <1> USE LimitAssumption, ThreadsAssumption DEF IInv, record, thread, Threads, Helpers
  <1>1. TypeOK'
    BY DEF ServeNext, BeginAttempt, TypeOK, Statuses
  <1>2. SenderFacts'
    BY DEF ServeNext, BeginAttempt, SenderFacts, TypeOK, HelperFacts, CurFacts, StatusFacts, Holds, Statuses
  <1>3. HelperFacts'
    BY DEF ServeNext, BeginAttempt, HelperFacts, TypeOK, SenderFacts, CurFacts, StatusFacts, Holds, Statuses
  <1>4. CurFacts'
    BY DEF ServeNext, BeginAttempt, CurFacts, TypeOK, SenderFacts, HelperFacts, StatusFacts, Holds, Statuses
  <1>5. StatusFacts'
    BY DEF ServeNext, BeginAttempt, StatusFacts, TypeOK, SenderFacts, HelperFacts, CurFacts, Holds, Statuses
  <1> QED
    BY <1>1, <1>2, <1>3, <1>4, <1>5

\* The end of a batch touches no record.
LEMMA FinishBatchIInv ==
  ASSUME IInv, NEW j0 \in Jobs, FinishBatch(j0)
  PROVE  IInv'
  <1> USE LimitAssumption, ThreadsAssumption DEF IInv, record, thread, Threads, Helpers
  <1>1. TypeOK'
    BY DEF FinishBatch, TypeOK, Statuses
  <1>2. SenderFacts'
    BY DEF FinishBatch, SenderFacts, TypeOK, HelperFacts, CurFacts, StatusFacts, Holds, Statuses
  <1>3. HelperFacts'
    BY DEF FinishBatch, HelperFacts, TypeOK, SenderFacts, CurFacts, StatusFacts, Holds, Statuses
  <1>4. CurFacts'
    BY DEF FinishBatch, CurFacts, TypeOK, SenderFacts, HelperFacts, StatusFacts, Holds, Statuses
  <1>5. StatusFacts'
    BY DEF FinishBatch, StatusFacts, TypeOK, SenderFacts, HelperFacts, CurFacts, Holds, Statuses
  <1> QED
    BY <1>1, <1>2, <1>3, <1>4, <1>5

\* An operator takes up a webhook that has a retry time.
LEMMA RetryDeadLetterIInv ==
  ASSUME IInv, NEW o0 \in Operators, NEW w0 \in Webhooks, RetryDeadLetter(o0, w0)
  PROVE  IInv'
  <1> USE LimitAssumption, ThreadsAssumption DEF IInv, record, thread, Threads, Helpers
  <1>1. TypeOK'
    BY DEF RetryDeadLetter, TypeOK, Statuses
  <1>2. SenderFacts'
    BY DEF RetryDeadLetter, SenderFacts, TypeOK, HelperFacts, CurFacts, StatusFacts, Holds, Statuses
  <1>3. HelperFacts'
    BY DEF RetryDeadLetter, HelperFacts, TypeOK, SenderFacts, CurFacts, StatusFacts, Holds, Statuses
  <1>4. CurFacts'
    BY DEF RetryDeadLetter, CurFacts, TypeOK, SenderFacts, HelperFacts, StatusFacts, Holds, Statuses
  <1>5. StatusFacts'
    BY DEF RetryDeadLetter, StatusFacts, TypeOK, SenderFacts, HelperFacts, CurFacts, Holds, Statuses
  <1> QED
    BY <1>1, <1>2, <1>3, <1>4, <1>5

\* The retry by hand begins an attempt that is not the first.
LEMMA RestartAttemptsIInv ==
  ASSUME IInv, NEW o0 \in Operators, RestartAttempts(o0)
  PROVE  IInv'
  <1> USE LimitAssumption, ThreadsAssumption DEF IInv, record, thread, Threads, Helpers
  <1>1. TypeOK'
    BY DEF RestartAttempts, BeginAttempt, TypeOK, CurFacts, Statuses
  <1>2. SenderFacts'
    BY DEF RestartAttempts, BeginAttempt, SenderFacts, TypeOK, HelperFacts, CurFacts, StatusFacts, Holds, Statuses
  <1>3. HelperFacts'
    BY DEF RestartAttempts, BeginAttempt, HelperFacts, TypeOK, SenderFacts, CurFacts, StatusFacts, Holds, Statuses
  <1>4. CurFacts'
    BY DEF RestartAttempts, BeginAttempt, CurFacts, TypeOK, SenderFacts, HelperFacts, StatusFacts, Holds, Statuses
  <1>5. StatusFacts'
    BY DEF RestartAttempts, BeginAttempt, StatusFacts, TypeOK, SenderFacts, HelperFacts, CurFacts, Holds, Statuses
  <1> QED
    BY <1>1, <1>2, <1>3, <1>4, <1>5

\* Only an accepted webhook is taken from the DLQ.
LEMMA RemoveFromDLQIInv ==
  ASSUME IInv, NEW o0 \in Operators, RemoveFromDLQ(o0)
  PROVE  IInv'
  <1> USE LimitAssumption, ThreadsAssumption DEF IInv, record, thread, Threads, Helpers
  <1>1. TypeOK'
    BY DEF RemoveFromDLQ, TypeOK, Statuses
  <1>2. SenderFacts'
    BY DEF RemoveFromDLQ, SenderFacts, TypeOK, HelperFacts, CurFacts, StatusFacts, Holds, Statuses
  <1>3. HelperFacts'
    BY DEF RemoveFromDLQ, HelperFacts, TypeOK, SenderFacts, CurFacts, StatusFacts, Holds, Statuses
  <1>4. CurFacts'
    BY DEF RemoveFromDLQ, CurFacts, TypeOK, SenderFacts, HelperFacts, StatusFacts, Holds, Statuses
  <1>5. StatusFacts'
    BY DEF RemoveFromDLQ, StatusFacts, TypeOK, SenderFacts, HelperFacts, CurFacts, Holds, Statuses
  <1> QED
    BY <1>1, <1>2, <1>3, <1>4, <1>5

\* The cleanup only makes the table smaller.
LEMMA CleanupIInv ==
  ASSUME IInv, Cleanup
  PROVE  IInv'
  <1> USE LimitAssumption, ThreadsAssumption DEF IInv, record, thread, Threads, Helpers
  <1>1. TypeOK'
    BY DEF Cleanup, TypeOK, Statuses
  <1>2. SenderFacts'
    BY DEF Cleanup, SenderFacts, TypeOK, HelperFacts, CurFacts, StatusFacts, Holds, Statuses
  <1>3. HelperFacts'
    BY DEF Cleanup, HelperFacts, TypeOK, SenderFacts, CurFacts, StatusFacts, Holds, Statuses
  <1>4. CurFacts'
    BY DEF Cleanup, CurFacts, TypeOK, SenderFacts, HelperFacts, StatusFacts, Holds, Statuses
  <1>5. StatusFacts'
    BY DEF Cleanup, StatusFacts, TypeOK, SenderFacts, HelperFacts, CurFacts, Holds, Statuses
  <1> QED
    BY <1>1, <1>2, <1>3, <1>4, <1>5

\* A retry time that has passed is still a retry time.
LEMMA RetryFallsDueIInv ==
  ASSUME IInv, NEW w0 \in Webhooks, RetryFallsDue(w0)
  PROVE  IInv'
  <1> USE LimitAssumption, ThreadsAssumption DEF IInv, record, thread, Threads, Helpers
  <1>1. TypeOK'
    BY DEF RetryFallsDue, TypeOK, Statuses
  <1>2. SenderFacts'
    BY DEF RetryFallsDue, SenderFacts, TypeOK, HelperFacts, CurFacts, StatusFacts, Holds, Statuses
  <1>3. HelperFacts'
    BY DEF RetryFallsDue, HelperFacts, TypeOK, SenderFacts, CurFacts, StatusFacts, Holds, Statuses
  <1>4. CurFacts'
    BY DEF RetryFallsDue, CurFacts, TypeOK, SenderFacts, HelperFacts, StatusFacts, Holds, Statuses
  <1>5. StatusFacts'
    BY DEF RetryFallsDue, StatusFacts, TypeOK, SenderFacts, HelperFacts, CurFacts, Holds, Statuses
  <1> QED
    BY <1>1, <1>2, <1>3, <1>4, <1>5

\* The age of a delivery is in no other fact.
LEMMA DeliveryAgesIInv ==
  ASSUME IInv, NEW w0 \in Webhooks, DeliveryAges(w0)
  PROVE  IInv'
  <1> USE LimitAssumption, ThreadsAssumption DEF IInv, record, thread, Threads, Helpers
  <1>1. TypeOK'
    BY DEF DeliveryAges, TypeOK, Statuses
  <1>2. SenderFacts'
    BY DEF DeliveryAges, SenderFacts, TypeOK, HelperFacts, CurFacts, StatusFacts, Holds, Statuses
  <1>3. HelperFacts'
    BY DEF DeliveryAges, HelperFacts, TypeOK, SenderFacts, CurFacts, StatusFacts, Holds, Statuses
  <1>4. CurFacts'
    BY DEF DeliveryAges, CurFacts, TypeOK, SenderFacts, HelperFacts, StatusFacts, Holds, Statuses
  <1>5. StatusFacts'
    BY DEF DeliveryAges, StatusFacts, TypeOK, SenderFacts, HelperFacts, CurFacts, Holds, Statuses
  <1> QED
    BY <1>1, <1>2, <1>3, <1>4, <1>5

-----------------------------------------------------------------------------
(* Every step keeps the invariant, so it holds in every behaviour.         *)

\* Each step of the manager, and each stuttering step, keeps the invariant.
LEMMA NextIInv == IInv /\ [Next]_vars => IInv'
  <1> SUFFICES ASSUME IInv, [Next]_vars PROVE IInv'
    OBVIOUS
  <1>1. CASE \E w \in Webhooks : SendWebhook(w) \/ RetryFallsDue(w) \/ DeliveryAges(w)
    BY <1>1, SendWebhookIInv, RetryFallsDueIInv, DeliveryAgesIInv
  <1>2. CASE \E t \in Threads : ThreadStep(t)
    BY <1>2, ReplyOKIInv, ReplyErrorIInv, MoveToDLQIInv DEF ThreadStep
  <1>3. CASE \E j \in Jobs : JobStep(j)
    BY <1>3, TakeSnapshotIInv, ServeNextIInv, FinishBatchIInv DEF JobStep
  <1>4. CASE \E o \in Operators, w \in Webhooks : RetryDeadLetter(o, w)
    BY <1>4, RetryDeadLetterIInv
  <1>5. CASE \E o \in Operators : OperatorStep(o)
    BY <1>5, RestartAttemptsIInv, RemoveFromDLQIInv DEF OperatorStep
  <1>6. CASE Cleanup
    BY <1>6, CleanupIInv
  <1>7. CASE UNCHANGED vars
    BY <1>7 DEF IInv, TypeOK, SenderFacts, HelperFacts, CurFacts, StatusFacts, Holds, vars, record, thread
  <1> QED
    BY <1>1, <1>2, <1>3, <1>4, <1>5, <1>6, <1>7 DEF Next

\* The invariant holds in every reachable state.
LEMMA Invariance == Spec => []IInv
  <1> QED
    BY InitIInv, NextIInv, PTL DEF Spec

-----------------------------------------------------------------------------

\* Every field keeps to the values the code gives it: among them, no record
\* ever gets the status WebhookStatus.FAILED.
THEOREM TypeCorrect == Spec => []TypeOK
  <1>1. IInv => TypeOK
    BY DEF IInv
  <1> QED
    BY <1>1, Invariance, PTL

\* With any number of threads, a webhook that was sent and never accepted is
\* in a thread's hands, or has a retry time, or is in the DLQ.
THEOREM NothingIsForgotten == Spec => []NothingForgotten
  <1>1. ASSUME IInv PROVE NothingForgotten
    <2> SUFFICES ASSUME NEW w \in webhooks \ acked
                 PROVE  \/ \E t \in Threads : Holds(t, w)
                        \/ status[w] = "retrying" /\ nextRetryAt[w] # "none"
                        \/ status[w] = "dead" /\ w \in dlq
      BY DEF NothingForgotten
    <2>1. /\ w \in Webhooks
          /\ status[w] \in {"pending", "retrying", "dead"}
      BY <1>1 DEF IInv, TypeOK, Statuses, SenderFacts, StatusFacts
    <2>2. CASE status[w] = "pending"
      BY <1>1, <2>1, <2>2 DEF IInv, SenderFacts, StatusFacts, Holds, Threads
    <2>3. CASE status[w] = "retrying"
      BY <1>1, <2>1, <2>3 DEF IInv, StatusFacts
    <2>4. CASE status[w] = "dead"
      BY <1>1, <2>1, <2>4 DEF IInv, StatusFacts, Holds
    <2> QED
      BY <2>1, <2>2, <2>3, <2>4
  <1> QED
    BY <1>1, Invariance, PTL

\* The cleanup and the retries by hand drop no webhook that was not accepted.
THEOREM OnlyAcceptedAreDropped == Spec => OnlyAcceptedLeave
  <1> DEFINE Leave == /\ (webhooks \ webhooks') \subseteq acked
                     /\ (dlq \ dlq') \subseteq acked
  <1>1. ASSUME IInv, [Next]_vars PROVE [Leave]_vars
    <2>1. CASE Cleanup
      BY <1>1, <2>1 DEF IInv, TypeOK, StatusFacts, Cleanup
    <2>2. CASE \E o \in Operators : OperatorStep(o)
      BY <1>1, <2>2 DEF IInv, CurFacts, Threads, OperatorStep, RestartAttempts, RemoveFromDLQ
    <2>3. CASE UNCHANGED vars
      BY <2>3
    <2>4. CASE \E o \in Operators, w \in Webhooks : RetryDeadLetter(o, w)
      BY <2>4 DEF RetryDeadLetter
    <2>5. CASE \E j \in Jobs : JobStep(j)
      BY <2>5 DEF JobStep, TakeSnapshot, ServeNext, FinishBatch
    <2>6. CASE \E t \in Threads : ThreadStep(t)
      BY <2>6 DEF ThreadStep, ReplyOK, ReplyError, MoveToDLQ
    <2>7. CASE \E w \in Webhooks : SendWebhook(w) \/ RetryFallsDue(w) \/ DeliveryAges(w)
      BY <2>7 DEF SendWebhook, RetryFallsDue, DeliveryAges
    <2> QED
      BY <1>1, <2>1, <2>2, <2>3, <2>4, <2>5, <2>6, <2>7 DEF Next
  <1> QED
    BY <1>1, Invariance, PTL DEF Spec, OnlyAcceptedLeave
-----------------------------------------------------------------------------
(* One job, and nobody who retries by hand.                                *)

\* The use the docstring of process_retry_queue describes.
OneJob == Operators = {} /\ \A i, j \in Jobs : i = j

\* Status, history, attempts and queue of a webhook agree.
WebhookFacts(w) ==
    /\ status[w] = "delivered" <=> w \in acked
    /\ status[w] = "none" => pc[w] = "idle"
    /\ pc[w] = "posting" => status[w] = "pending"
    /\ w \in dlq => status[w] = "dead"
    /\ status[w] = "dead" =>
          /\ attempt[w] = MaxAttempts
          /\ w \in dlq \/ \E t \in Threads : pc[t] = "queueing" /\ cur[t] = w
    /\ attempt[w] <= MaxAttempts
    /\ status[w] = "retrying" =>
          attempt[w] < MaxAttempts \/ \E j \in Jobs : pc[j] = "posting" /\ cur[j] = w

\* What the job snapshot is as it was then until the job serves it.
JobFacts(j) ==
    /\ \A w \in batch[j] :
          /\ status[w] = "retrying" /\ attempt[w] < MaxAttempts
          /\ ~(pc[j] \in {"posting", "queueing"} /\ cur[j] = w)
    /\ pc[j] \in {"idle", "serving", "posting", "queueing"}
    /\ pc[j] = "idle" => batch[j] = {}
    /\ pc[j] = "posting" => status[cur[j]] = "retrying"
    /\ pc[j] = "queueing" => status[cur[j]] = "dead"

CronInv == IInv /\ (\A w \in Webhooks : WebhookFacts(w)) /\ (\A j \in Jobs : JobFacts(j))

\* What the job holds nobody else holds: its sender is done.
LEMMA HeldByTheJob ==
  ASSUME OneJob, CronInv
  PROVE  /\ Threads = Webhooks \cup Jobs
         /\ \A w \in Webhooks : pc[w] = "posting" => cur[w] = w
         /\ \A w \in Webhooks : pc[w] # "queueing"
         /\ \A j \in Jobs, w \in Webhooks :
               (pc[j] \in {"posting", "queueing"} /\ cur[j] = w) \/ w \in batch[j]
                  => pc[w] = "done"
  BY DEF OneJob, CronInv, IInv, SenderFacts, HelperFacts, Helpers, Holds, Threads

LEMMA CronStarts == ASSUME OneJob, Init PROVE CronInv
  <1>1. IInv
    BY InitIInv
  <1> QED
    BY <1>1, LimitAssumption, ThreadsAssumption
    DEF CronInv, OneJob, Init, WebhookFacts, JobFacts, Threads

\* The first attempt: the webhook had no record.
LEMMA SendKeepsCron ==
  ASSUME OneJob, CronInv, NEW w0 \in Webhooks, SendWebhook(w0)
  PROVE  (\A w \in Webhooks : WebhookFacts(w)') /\ (\A j \in Jobs : JobFacts(j)')
  <1> USE LimitAssumption, ThreadsAssumption, HeldByTheJob DEF CronInv, IInv, TypeOK
  <1>1. ASSUME NEW w \in Webhooks PROVE WebhookFacts(w)'
    BY DEF SendWebhook, BeginAttempt, WebhookFacts, SenderFacts, record, thread
  <1>2. ASSUME NEW j \in Jobs PROVE JobFacts(j)'
    BY DEF SendWebhook, BeginAttempt, JobFacts, SenderFacts, record, thread
  <1> QED
    BY <1>1, <1>2

\* An answer: the sender's or the job's.
LEMMA AnswerKeepsCron ==
  ASSUME OneJob, CronInv, NEW t0 \in Threads, ReplyOK(t0) \/ ReplyError(t0)
  PROVE  (\A w \in Webhooks : WebhookFacts(w)') /\ (\A j \in Jobs : JobFacts(j)')
  <1> USE LimitAssumption, ThreadsAssumption, HeldByTheJob DEF CronInv, IInv, TypeOK
  <1>1. t0 \in Webhooks \cup Jobs /\ t0 \notin Operators /\ cur[t0] \in Webhooks
    BY DEF OneJob, CurFacts, ReplyOK, ReplyError
  <1>2. CASE ReplyOK(t0)
    <2>1. ASSUME NEW w \in Webhooks PROVE WebhookFacts(w)'
      BY <1>1, <1>2 DEF OneJob, ReplyOK, WebhookFacts, JobFacts, AfterRecord
    <2>2. ASSUME NEW j \in Jobs PROVE JobFacts(j)'
      BY <1>1, <1>2 DEF OneJob, ReplyOK, WebhookFacts, JobFacts, AfterRecord
    <2> QED
      BY <2>1, <2>2
  <1>3. CASE ReplyError(t0)
    <2>1. ASSUME NEW w \in Webhooks PROVE WebhookFacts(w)'
      BY <1>1, <1>3 DEF OneJob, ReplyError, ScheduleRetry, MayRetry, WebhookFacts, JobFacts,
                        SenderFacts, AfterRecord
    <2>2. ASSUME NEW j \in Jobs PROVE JobFacts(j)'
      <3>1. CASE t0 \in Jobs
        <4>1. t0 = j
          BY <3>1 DEF OneJob
        <4> QED
          BY <1>1, <1>3, <3>1, <4>1 DEF OneJob, ReplyError, ScheduleRetry, MayRetry, JobFacts, AfterRecord
      <3>2. CASE t0 \in Webhooks /\ t0 \notin Jobs
        <4>1. cur[t0] = t0 /\ t0 \notin batch[j] /\ pc'[j] = pc[j] /\ cur' = cur /\ batch' = batch
          BY <1>3, <3>2 DEF ReplyError, ScheduleRetry, SenderFacts
        <4>2. \A w \in Webhooks : w # t0 => status'[w] = status[w] /\ attempt'[w] = attempt[w]
          BY <1>3, <4>1 DEF ReplyError, ScheduleRetry
        <4>3. pc[j] \in {"posting", "queueing"} => cur[j] # t0 /\ cur[j] \in Webhooks
          BY <1>3, <3>2 DEF ReplyError, CurFacts
        <4>4. batch[j] \subseteq Webhooks
          OBVIOUS
        <4> HIDE <1>3
        <4> QED
          BY <4>1, <4>2, <4>3, <4>4 DEF JobFacts
      <3> QED
        BY <1>1, <3>1, <3>2
    <2> QED
      BY <2>1, <2>2
  <1> QED
    BY <1>2, <1>3

\* The steps of the job.
LEMMA JobKeepsCron ==
  ASSUME OneJob, CronInv, NEW j0 \in Jobs, JobStep(j0) \/ MoveToDLQ(j0)
  PROVE  (\A w \in Webhooks : WebhookFacts(w)') /\ (\A j \in Jobs : JobFacts(j)')
  <1> USE LimitAssumption, ThreadsAssumption, HeldByTheJob DEF CronInv, IInv, TypeOK, record, thread
  <1>1. CASE TakeSnapshot(j0)
    <2>1. ASSUME NEW w \in Webhooks PROVE WebhookFacts(w)'
      BY <1>1 DEF TakeSnapshot, WebhookFacts
    <2>2. ASSUME NEW j \in Jobs PROVE JobFacts(j)'
      BY <1>1 DEF OneJob, TakeSnapshot, Due, WebhookFacts, JobFacts
    <2> QED
      BY <2>1, <2>2
  <1>2. CASE ServeNext(j0)
    <2>1. PICK w0 \in batch[j0] : /\ batch' = [batch EXCEPT ![j0] = @ \ {w0}]
                                  /\ BeginAttempt(j0, w0, attempt[w0] + 1)
      BY <1>2 DEF ServeNext
    <2>2. w0 \in Webhooks /\ attempt[w0] \in 1..MaxAttempts - 1
      BY <2>1 DEF JobFacts, SenderFacts
    <2>3. ASSUME NEW w \in Webhooks PROVE WebhookFacts(w)'
      BY <1>2, <2>1, <2>2 DEF ServeNext, BeginAttempt, WebhookFacts, JobFacts
    <2>4. ASSUME NEW j \in Jobs PROVE JobFacts(j)'
      BY <1>2, <2>1, <2>2 DEF OneJob, ServeNext, BeginAttempt, WebhookFacts, JobFacts
    <2> QED
      BY <2>3, <2>4
  <1>3. CASE FinishBatch(j0)
    <2>1. ASSUME NEW w \in Webhooks PROVE WebhookFacts(w)'
      BY <1>3 DEF FinishBatch, WebhookFacts
    <2>2. ASSUME NEW j \in Jobs PROVE JobFacts(j)'
      BY <1>3 DEF OneJob, FinishBatch, WebhookFacts, JobFacts
    <2> QED
      BY <2>1, <2>2
  <1>4. CASE MoveToDLQ(j0)
    <2>1. ASSUME NEW w \in Webhooks PROVE WebhookFacts(w)'
      BY <1>4 DEF MoveToDLQ, AfterRecord, WebhookFacts, JobFacts
    <2>2. ASSUME NEW j \in Jobs PROVE JobFacts(j)'
      BY <1>4 DEF OneJob, MoveToDLQ, AfterRecord, WebhookFacts, JobFacts
    <2> QED
      BY <2>1, <2>2
  <1> QED
    BY <1>1, <1>2, <1>3, <1>4 DEF JobStep

\* Each step keeps what one job relies on.
LEMMA CronStep ==
  ASSUME OneJob, CronInv, [Next]_vars
  PROVE  CronInv'
  <1> USE DEF CronInv
  <1>1. IInv'
    BY NextIInv
  <1>2. (\A w \in Webhooks : WebhookFacts(w)') /\ (\A j \in Jobs : JobFacts(j)')
    <2>1. CASE \E w \in Webhooks : SendWebhook(w)
      BY <2>1, SendKeepsCron
    <2>2. CASE \E w \in Webhooks : RetryFallsDue(w) \/ DeliveryAges(w)
      BY <2>2 DEF RetryFallsDue, DeliveryAges, thread, WebhookFacts, JobFacts
    <2>3. CASE \E t \in Threads : ReplyOK(t) \/ ReplyError(t)
      BY <2>3, AnswerKeepsCron
    <2>4. CASE \E t \in Threads : MoveToDLQ(t)
      BY <2>4, JobKeepsCron, HeldByTheJob DEF MoveToDLQ
    <2>5. CASE \E j \in Jobs : JobStep(j)
      BY <2>5, JobKeepsCron
    <2>6. CASE Cleanup
      BY <2>6 DEF Cleanup, record, thread, WebhookFacts, JobFacts
    <2>7. CASE UNCHANGED vars
      BY <2>7 DEF vars, record, thread, WebhookFacts, JobFacts
    <2> QED
      BY <2>1, <2>2, <2>3, <2>4, <2>5, <2>6, <2>7 DEF Next, ThreadStep, OneJob
  <1> QED
    BY <1>1, <1>2

LEMMA CronInvariance == ASSUME OneJob PROVE Spec => []CronInv
  <1> QED
    BY CronStarts, CronStep, PTL DEF Spec

\* The immediate attempt of send_webhook and the job never post one webhook at
\* the same time, for any number of webhooks and attempts.
THEOREM OnePost == ASSUME OneJob PROVE Spec => []OnePostAtATime
  <1>1. ASSUME CronInv PROVE OnePostAtATime
    <2> SUFFICES ASSUME NEW w \in Webhooks PROVE Cardinality(Posting(w)) <= 1
      BY DEF OnePostAtATime
    <2>1. \A t, u \in Posting(w) : t = u
      BY <1>1, HeldByTheJob DEF OneJob, Posting
    <2>2. Posting(w) = {} \/ \E t : Posting(w) = {t}
      BY <2>1
    <2>3. CASE Posting(w) = {}
      BY <2>3, FS_EmptySet
    <2>4. CASE \E t : Posting(w) = {t}
      <3>1. PICK t : Posting(w) = {t}
        BY <2>4
      <3>2. Cardinality({t}) = 1
        BY FS_Singleton, Zenon
      <3> QED
        BY <3>1, <3>2
    <2> QED
      BY <2>2, <2>3, <2>4
  <1> QED
    BY <1>1, CronInvariance, PTL

\* An accepted webhook keeps its retry time, and only its status keeps the job
\* from posting it again: it is enough.
THEOREM AcceptedIsLeftAlone == ASSUME OneJob PROVE Spec => NoPostAfterAccept
  <1> DEFINE Alone == \A w \in acked : Posting(w)' \subseteq Posting(w)
  <1>1. ASSUME CronInv, [Next]_vars PROVE [Alone]_vars
    <2> SUFFICES ASSUME Next, NEW w \in acked, NEW t \in Posting(w)', t \notin Posting(w)
                 PROVE  FALSE
      BY <1>1
    <2> USE <1>1, HeldByTheJob DEF Posting
    <2>1. w \in Webhooks /\ status[w] = "delivered"
      BY DEF CronInv, IInv, TypeOK, WebhookFacts
    <2>2. t \in Threads /\ pc'[t] = "posting" /\ cur'[t] = w /\ ~(pc[t] = "posting" /\ cur[t] = w)
      OBVIOUS
    <2> USE DEF CronInv, IInv, TypeOK
    <2>3. CASE \E v \in Webhooks : SendWebhook(v)
      BY <2>1, <2>2, <2>3 DEF SendWebhook, BeginAttempt, SenderFacts
    <2>4. CASE \E v \in Webhooks : RetryFallsDue(v) \/ DeliveryAges(v)
      BY <2>2, <2>4 DEF RetryFallsDue, DeliveryAges, thread
    <2>5. CASE \E u \in Threads : ThreadStep(u)
      BY <2>2, <2>5 DEF ThreadStep, ReplyOK, ReplyError, ScheduleRetry, MoveToDLQ, AfterRecord
    <2>6. CASE \E j \in Jobs : JobStep(j)
      BY <2>1, <2>2, <2>6 DEF JobStep, TakeSnapshot, ServeNext, FinishBatch, BeginAttempt, JobFacts
    <2>7. CASE Cleanup
      BY <2>2, <2>7 DEF Cleanup, thread
    <2> QED
      BY <2>3, <2>4, <2>5, <2>6, <2>7 DEF Next, OneJob
  <1> QED
    BY <1>1, CronInvariance, PTL DEF Spec, NoPostAfterAccept

\* The dead letters are the webhooks that used up their attempts unaccepted.
THEOREM DeadAreExhausted == ASSUME OneJob PROVE Spec => []DeadLettersExhausted
  <1>1. ASSUME CronInv PROVE DeadLettersExhausted
    BY <1>1 DEF CronInv, IInv, TypeOK, WebhookFacts, DeadLettersExhausted
  <1> QED
    BY <1>1, CronInvariance, PTL
=============================================================================
