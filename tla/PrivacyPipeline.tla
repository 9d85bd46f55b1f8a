-------------------------- MODULE PrivacyPipeline --------------------------
(***************************************************************************)
(* One worker process of CellophaneMail: the Postmark webhook, the         *)
(* in-memory store of emails (MemoryManager), the background tasks of      *)
(* PrivacyWebhookOrchestrator that analyse and deliver them, the retry     *)
(* loop of IntegratedDeliveryManager, the outbound mail service, and the   *)
(* periodic clean-up.                                                      *)
(*                                                                         *)
(* asyncio runs one callback at a time and no callback here gives up the   *)
(* loop while it holds MemoryManager's lock, so a handler between two      *)
(* suspension points is one action.  The analyser is called synchronously, *)
(* so the whole of a task up to its first send is one action as well; that *)
(* it stops the loop meanwhile shows as time that passes with no step      *)
(* taken (Tick is never held back, so a sweep or a timeout may be late).   *)
(***************************************************************************)
EXTENDS Integers, FiniteSets

CONSTANTS
  Messages,        \* MessageIDs of inbound mail
  MaxCalls,        \* bound: webhook calls in a behaviour
  MaxRestarts,     \* bound: restarts of the process
  MaxTime,         \* bound: the clock stops here
  Capacity,        \* MemoryManager(capacity=100)
  BatchSize,       \* MAX_CLEANUP_BATCH_SIZE = 100
  TTL,             \* EphemeralEmail.ttl_seconds
  Grace,           \* grace_period_minutes of the clean-up service
  Interval,        \* time between two clean-ups
  Timeout,         \* processing_timeout_seconds
  MaxRetries,      \* DeliveryConfiguration.max_retries
  ResultHasScore   \* the processor's result has the field toxicity_score:
                   \*   FALSE in the source, TRUE in the tests' results

ASSUME BoundsAssumption ==
  /\ MaxCalls \in Nat /\ MaxRestarts \in Nat /\ MaxTime \in Nat
ASSUME StoreAssumption ==
  /\ IsFiniteSet(Messages)
  /\ Capacity \in Nat /\ BatchSize \in Nat
  /\ Capacity <= BatchSize
ASSUME TimeAssumption ==
  /\ TTL \in Nat /\ Grace \in Nat /\ Interval \in Nat /\ Timeout \in Nat
ASSUME DeliveryAssumption ==
  /\ MaxRetries \in Nat \ {0}
  /\ ResultHasScore \in BOOLEAN

Calls == 1..MaxCalls   \* the n-th call of the webhook, its email and its task

\* What the analysis decides: "FORWARD" stands for the four actions that
\* require delivery, which differ in the text that is sent and in nothing else.
ProtectionAction == {"FORWARD", "BLOCK_ENTIRELY"}

\* States of a background task: `none' has not been created, `sending' and
\* `backoff' are suspended in send_email and in the sleep between attempts,
\* `lost' went away with its process.
Suspended == {"sending", "backoff"}
Succeeded == {"delivered", "blocked"}
Errored   == {"failed", "timed_out"}
Started   == Suspended \cup Succeeded \cup Errored
TaskStates == Started \cup {"none", "queued", "lost"}

\* Answers to a webhook call: refused is 400 (not the service's domain) or
\* 404 (no active shield address), rejected and accepted are both 202.
Answered202 == {"rejected", "accepted"}
Responses == Answered202 \cup {"none", "refused"}

VARIABLES
  now,          \* time.time() and the loop's clock
  restarts,     \* restarts so far
  calls,        \* webhook calls so far
  response,     \* what call n was answered
  created,      \* EphemeralEmail._created_at of call n
  emails,       \* MemoryManager._emails: which call's email is under an id,
                \*   and which call's insertion gave the key its place
  nextCleanup,  \* when the clean-up loop's sleep ends
  task,         \* state of the task of call n
  action,       \* ProcessingResult.action of call n
  attempt,      \* number of the delivery attempt of call n
  deadline,     \* when wait_for's timeout of call n expires
  wire,         \* <<n, k>>: request of attempt k still on its way
  delivered,    \* <<n, k>>: requests the mail service has accepted
  stats         \* _processing_stats

storeVars == <<emails, nextCleanup>>
emailVars == <<calls, response, created>>
taskVars  == <<task, action, attempt, deadline, stats>>
mailVars  == <<wire, delivered>>
vars == <<now, restarts, emailVars, storeVars, taskVars, mailVars>>

NoEntry == [obj |-> 0, pos |-> 0]
Entries == [obj : Calls, pos : Calls]
Held == {m \in Messages : emails[m] # NoEntry}
NoStats == [processed |-> 0, success |-> 0, error |-> 0]

Init ==
  /\ now = 0
  /\ restarts = 0
  /\ calls = 0
  /\ response = [n \in Calls |-> "none"]
  /\ created = [n \in Calls |-> 0]
  /\ emails = [m \in Messages |-> NoEntry]
  /\ nextCleanup = 0
  /\ task = [n \in Calls |-> "none"]
  /\ action = [n \in Calls |-> "none"]
  /\ attempt = [n \in Calls |-> 0]
  /\ deadline = [n \in Calls |-> 0]
  /\ wire = {}
  /\ delivered = {}
  /\ stats = NoStats

-----------------------------------------------------------------------------
(* The webhook: WebhookController, ProcessingStrategyManager and
   PrivacyWebhookOrchestrator.process_webhook.                             *)

AtCapacityOffByOne == Cardinality(Held) > Capacity   \* seeded fault
AtCapacity == Cardinality(Held) >= Capacity

\* MemoryManager.store_email once there is room.  A key that is already in
\* the dictionary keeps its place in the order of iteration.
Stored(n, m) ==
  [emails EXCEPT ![m] =
     [obj |-> n, pos |-> IF m \in Held THEN emails[m].pos ELSE n]]

NextCall == calls + 1

Answer(r) ==
  /\ calls < MaxCalls
  /\ calls' = NextCall
  /\ response' = [response EXCEPT ![NextCall] = r]

\* An address outside the service's domain, or no active shield address.
RefuseRecipient ==
  /\ Answer("refused")
  /\ UNCHANGED <<now, restarts, created, storeVars, taskVars, mailVars>>

\* The email is created and stored, and its task scheduled.
AcceptWebhook(m) ==
  /\ ~ AtCapacity
  /\ Answer("accepted")
  /\ created' = [created EXCEPT ![NextCall] = now]
  /\ emails' = Stored(NextCall, m)
  /\ task' = [task EXCEPT ![NextCall] = "queued"]
  /\ UNCHANGED <<now, restarts, nextCleanup, action, attempt, deadline, stats, mailVars>>

\* No room: no task is created, and memory_rejections is not counted.
RejectWebhook ==
  /\ AtCapacity
  /\ Answer("rejected")
  /\ UNCHANGED <<now, restarts, created, storeVars, taskVars, mailVars>>

-----------------------------------------------------------------------------
(* The background task: _process_email_async and _process_email_steps.     *)

\* Seeded fault: every task that was not refused counts as a success.
CountTimeoutAsSuccess(s) ==
  IF s # "failed" THEN [stats EXCEPT !.success = @ + 1]
                  ELSE [stats EXCEPT !.error = @ + 1]

\* A task leaves for state s with its counter (success or error) raised.
Count(s) ==
  IF s \in Succeeded THEN [stats EXCEPT !.success = @ + 1]
                     ELSE [stats EXCEPT !.error = @ + 1]

Finish(n, s) ==
  /\ task' = [task EXCEPT ![n] = s]
  /\ stats' = Count(s)

\* The same for a task that finishes in its first step, which also counts
\* itself as processed.
FinishAtOnce(n, s) ==
  /\ task' = [task EXCEPT ![n] = s]
  /\ stats' = [Count(s) EXCEPT !.processed = @ + 1]

\* process_email raises: the analyser failed and there is no fallback.
AnalysisFails(n) ==
  /\ task[n] = "queued"
  /\ FinishAtOnce(n, "failed")
  /\ UNCHANGED <<now, restarts, emailVars, storeVars, action, attempt, deadline, mailVars>>

BlockEmail(n) ==
  /\ task[n] = "queued"
  /\ action' = [action EXCEPT ![n] = "BLOCK_ENTIRELY"]
  /\ FinishAtOnce(n, "blocked")
  /\ UNCHANGED <<now, restarts, emailVars, storeVars, attempt, deadline, mailVars>>

\* compose_email reads toxicity_score.  Without the field that raises, and so
\* does the handler that builds the failed result: nothing is sent.
ComposeFails(n) ==
  /\ task[n] = "queued"
  /\ ~ ResultHasScore
  /\ action' = [action EXCEPT ![n] = "FORWARD"]
  /\ FinishAtOnce(n, "failed")
  /\ UNCHANGED <<now, restarts, emailVars, storeVars, attempt, deadline, mailVars>>

\* The email is composed and the first request sent to the mail service.
StartDelivery(n) ==
  /\ task[n] = "queued"
  /\ ResultHasScore
  /\ action' = [action EXCEPT ![n] = "FORWARD"]
  /\ task' = [task EXCEPT ![n] = "sending"]
  /\ stats' = [stats EXCEPT !.processed = @ + 1]
  /\ attempt' = [attempt EXCEPT ![n] = 1]
  /\ deadline' = [deadline EXCEPT ![n] = now + Timeout]
  /\ wire' = wire \cup {<<n, 1>>}
  /\ UNCHANGED <<now, restarts, emailVars, storeVars, delivered>>

RunTask(n) ==
  \/ AnalysisFails(n)
  \/ BlockEmail(n)
  \/ ComposeFails(n)
  \/ StartDelivery(n)

\* Seeded fault: a request that has been sent counts as delivered.
AcknowledgedOnSend(n) == <<n, attempt[n]>> \in delivered \cup wire
Acknowledged(n) == <<n, attempt[n]>> \in delivered

\* send_email returns True only on the mail service's acknowledgement.
SendSucceeds(n) ==
  /\ task[n] = "sending"
  /\ Acknowledged(n)
  /\ Finish(n, "delivered")
  /\ UNCHANGED <<now, restarts, emailVars, storeVars, action, attempt, deadline, mailVars>>

MoreAttemptsOneTooMany(n) == attempt[n] <= MaxRetries      \* seeded fault
MoreAttemptsOneTooFew(n) == attempt[n] < MaxRetries - 1    \* seeded fault
MoreAttempts(n) == attempt[n] < MaxRetries

\* send_email returns False: an error status or any exception, which also
\* covers an acknowledgement lost after the request was accepted.
SendFails(n) ==
  /\ task[n] = "sending"
  /\ \/ /\ MoreAttempts(n)
        /\ task' = [task EXCEPT ![n] = "backoff"]
        /\ UNCHANGED stats
     \/ /\ ~ MoreAttempts(n)
        /\ Finish(n, "failed")
  /\ UNCHANGED <<now, restarts, emailVars, storeVars, action, attempt, deadline, mailVars>>

\* Seeded faults: the timeout does not reach a task asleep between two
\* attempts, and the last attempt is never made.
RetryReadyAfterTimeout(n) == task[n] = "backoff" \/ (task[n] = "timed_out" /\ MoreAttempts(n))
RetryReadyNotLast(n) == task[n] = "backoff" /\ attempt[n] + 1 < MaxRetries
RetryReady(n) == task[n] = "backoff"

\* The sleep between two attempts ends.
Retry(n) ==
  /\ RetryReady(n)
  /\ task' = [task EXCEPT ![n] = "sending"]
  /\ attempt' = [attempt EXCEPT ![n] = @ + 1]
  /\ wire' = wire \cup {<<n, attempt[n] + 1>>}
  /\ UNCHANGED <<now, restarts, emailVars, storeVars, action, deadline, stats, delivered>>

\* wait_for cancels the task at the await it is suspended in.  A request on
\* its way stays on its way.
TimeOut(n) ==
  /\ task[n] \in Suspended
  /\ deadline[n] <= now
  /\ Finish(n, "timed_out")
  /\ UNCHANGED <<now, restarts, emailVars, storeVars, action, attempt, deadline, mailVars>>

-----------------------------------------------------------------------------
(* The outbound mail service (Postmark or SMTP).                           *)

MailAccepted(r) ==
  /\ r \in wire
  /\ wire' = wire \ {r}
  /\ delivered' = delivered \cup {r}
  /\ UNCHANGED <<now, restarts, emailVars, storeVars, taskVars>>

MailDropped(r) ==
  /\ r \in wire
  /\ wire' = wire \ {r}
  /\ UNCHANGED <<now, restarts, emailVars, storeVars, taskVars, delivered>>

-----------------------------------------------------------------------------
(* The clean-up loop, the life of the process, and time.                   *)

\* Seeded fault: the batch is one email short.
BatchOneShort ==
  {m \in Held :
     Cardinality({k \in Held : emails[k].pos < emails[m].pos}) < BatchSize - 1}

\* The emails a pass looks at: the first BatchSize in the dictionary's order.
Batch ==
  {m \in Held :
     Cardinality({k \in Held : emails[k].pos < emails[m].pos}) < BatchSize}

\* Seeded faults: no grace period, and a grace period for every interval.
OutlivedNoGrace(m) == now - created[emails[m].obj] > TTL
OutlivedTooLate(m) == now - created[emails[m].obj] > TTL + Grace + Interval
Outlived(m) == now - created[emails[m].obj] > TTL + Grace

Cleanup ==
  /\ nextCleanup <= now
  /\ emails' = [m \in Messages |->
                  IF m \in Batch /\ Outlived(m) THEN NoEntry ELSE emails[m]]
  /\ nextCleanup' = now + Interval
  /\ UNCHANGED <<now, restarts, emailVars, taskVars, mailVars>>

\* The process stops, at a shutdown or a crash, and another takes its place.
\* The lifespan handler stops the clean-up loop and waits for no task; the
\* new process starts with an empty store and cleans up at once.
Restart ==
  /\ restarts < MaxRestarts
  /\ restarts' = restarts + 1
  /\ emails' = [m \in Messages |-> NoEntry]
  /\ nextCleanup' = now
  /\ task' = [n \in Calls |-> IF task[n] = "none" THEN "none" ELSE "lost"]
  /\ stats' = NoStats
  /\ UNCHANGED <<now, emailVars, action, attempt, deadline, mailVars>>

Tick ==
  /\ now < MaxTime
  /\ now' = now + 1
  /\ UNCHANGED <<restarts, emailVars, storeVars, taskVars, mailVars>>

-----------------------------------------------------------------------------
Webhook ==
  \/ RefuseRecipient
  \/ RejectWebhook
  \/ \E m \in Messages : AcceptWebhook(m)

TaskStep(n) ==
  \/ RunTask(n)
  \/ SendSucceeds(n)
  \/ SendFails(n)
  \/ Retry(n)
  \/ TimeOut(n)

MailService == \E r \in wire : MailAccepted(r) \/ MailDropped(r)

Next ==
  \/ Webhook
  \/ \E n \in Calls : TaskStep(n)
  \/ MailService
  \/ Cleanup
  \/ Restart
  \/ Tick

\* asyncio runs every ready callback and fires every timer, and the mail
\* client gives up on a request by itself, so no step of a task is put off
\* for ever; time passes.  Nothing is assumed of callers, of the mail service
\* or of restarts.
Fairness ==
  /\ \A n \in Calls : WF_vars(RunTask(n)) /\ WF_vars(SendFails(n)) /\ WF_vars(Retry(n))
  /\ WF_vars(Cleanup)
  /\ WF_vars(Tick)

Spec == Init /\ [][Next]_vars
FairSpec == Spec /\ Fairness

-----------------------------------------------------------------------------
(* Properties.                                                             *)

\* Every variable has its type; no delivery attempt has a number beyond
\* max_retries and no request belongs to an attempt that was not made.
TypeOK ==
  /\ now \in Nat /\ restarts \in 0..MaxRestarts /\ calls \in 0..MaxCalls
  /\ response \in [Calls -> Responses]
  /\ created \in [Calls -> Nat]
  /\ emails \in [Messages -> Entries \cup {NoEntry}]
  /\ nextCleanup \in Nat
  /\ task \in [Calls -> TaskStates]
  /\ action \in [Calls -> ProtectionAction \cup {"none"}]
  /\ attempt \in [Calls -> 0..MaxRetries]
  /\ deadline \in [Calls -> Nat]
  /\ wire \subseteq Calls \X (1..MaxRetries)
  /\ delivered \subseteq Calls \X (1..MaxRetries)
  /\ stats \in [processed : Nat, success : Nat, error : Nat]

\* The store never holds more emails than it was built for, whatever the
\* order of webhooks, duplicates and clean-ups (MemoryManager.store_email).
CapacityBound == Cardinality(Held) <= Capacity

\* As long as the clean-up is not overdue, no content in the store is older
\* than TTL + grace period + one clean-up interval.
RetentionBound ==
  now <= nextCleanup =>
    \A m \in Held : now - created[emails[m].obj] <= TTL + Grace + Interval

\* Each task this process has started is counted once as processed, and once
\* as a success or an error when it ends, however it ends: an error status,
\* an exception, the timeout, a block (_processing_stats).
TasksIn(S) == {n \in Calls : task[n] \in S}
StatsAccount ==
  /\ stats.processed = Cardinality(TasksIn(Started))
  /\ stats.success = Cardinality(TasksIn(Succeeded))
  /\ stats.error = Cardinality(TasksIn(Errored))

\* A task that ended as delivered has a copy at the mail service, and nothing
\* is ever sent for one that blocked its email or has not begun to deliver.
VerdictMatchesMail ==
  \A n \in Calls :
    /\ task[n] = "delivered" => \E k \in 1..MaxRetries : <<n, k>> \in delivered
    /\ ~ \E k \in 1..MaxRetries :
          /\ <<n, k>> \in wire \cup delivered
          /\ k > attempt[n] \/ task[n] \in {"none", "queued", "blocked"}

\* Once a task has ended, by a verdict or by the timeout, no further request
\* of its is sent (the timeout races the sleep between two attempts).
NoSendAfterEnd ==
  [][\A n \in Calls :
       task[n] \notin Suspended \cup {"queued"} =>
         \A k \in 1..MaxRetries : <<n, k>> \in wire' => <<n, k>> \in wire]_vars

\* Once a first request was sent, delivery is given up after max_retries of them
\* and not before: whatever order of errors, lost answers and sleeps came between,
\* a task that failed has sent all of its requests, or none (deliver_email).
GivenUpAfterAllAttempts ==
  \A n \in Calls : task[n] = "failed" => attempt[n] \in {0, MaxRetries}

\* An email that is to be forwarded is not given up before a request was sent.
\* The tests of deliver_email say so; with the result the processor makes it does
\* not hold, for composing the message raises (see ComposeFails).
DeliverableIsTried ==
  \A n \in Calls : task[n] = "failed" /\ action[n] = "FORWARD" => attempt[n] >= 1

\* Every accepted email is dealt with: its task ends, or goes down with the
\* process (nothing is persisted).
AcceptedIsResolved ==
  \A n \in Calls :
    task[n] = "queued" ~> task[n] \in Succeeded \cup Errored \cup {"lost"}

\* Every stored email is forgotten, or replaced by a later one of its id, if
\* the clock runs long enough for its last clean-up.
StoredIsForgotten ==
  \A n \in Calls, m \in Messages :
    emails[m].obj = n /\ created[n] + TTL + Grace + Interval <= MaxTime
      ~> emails[m].obj # n

\* The pipeline's store does what EphemeralStore promises: capacity, the
\* least time content is kept, and what a clean-up leaves behind.
Contents == {<<m, created[emails[m].obj]>> : m \in Held}
Store == INSTANCE EphemeralStore WITH
  MinLife <- TTL + Grace,
  Period  <- Interval,
  held    <- Contents,
  sweepAt <- nextCleanup
StoreSpec == Store!Spec
=============================================================================
