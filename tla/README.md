# CellophaneMail: specifications, model checking and proofs

CellophaneMail puts itself between a user and the people who write to them. A
user hands out a *shield address*; mail for it reaches the service through a
Postmark webhook, is kept in memory only, is analysed by a language model for
hostile patterns, and is forwarded whole, forwarded in an edited form, or
blocked. Around this pipeline there are batch analysis of text messages,
accounts and tokens, billing through Stripe, rate limits and monitoring.

This directory holds TLA+ specifications of that program, the TLC
configurations that check them on small instances, and TLAPS proofs that hold
for every instance. Paths below are relative to `src/src/cellophanemail` unless
they start with a name from the top of the repository (`README.md`, `tests`).

## 1. Inventory

### The pipeline of an email

| part | state | operations | interacts with |
|---|---|---|---|
| `WebhookController` (`routes/webhooks.py`), `ProcessingStrategyManager` | none | `handle_postmark_inbound` | accounts (look-up), orchestrator |
| `PrivacyWebhookOrchestrator` (`features/privacy_integration`) | `_processing_stats`; the set of background tasks | `process_webhook`, `_process_email_async`, `_process_email_steps` | store, processor, delivery |
| `MemoryManager`, `EphemeralEmail` (`features/email_protection`) | the dictionary `_emails`, a lock, the capacity | `store_email`, `get_all_emails`, `remove_email`, `get_stats` | orchestrator, clean-up |
| `BackgroundCleanupService` | its loop and flag | one pass per interval, `start`, `stop` | store, life of the process (`app.py` lifespan) |
| `InMemoryProcessor`, `GraduatedDecisionMaker` | none | `process_email` | analysers |
| `IntegratedDeliveryManager`, `EmailCompositionStrategy` | none (one attempt counter per call) | `deliver_email` | senders |
| Postmark and SMTP senders (`core/email_delivery`) | none | `send_email` | the mail service |

The webhook answers 202 and leaves the work to a task nobody awaits. Hard here:
the task's timeout against the retry loop's sleep and an acknowledgement on its
way; repeated webhook calls for one message id; a store that is full; a clean-up
that looks at a limited batch in the dictionary's order; a shutdown that waits
for nothing. What makes the part correct: the store's capacity and retention
hold in every order of events; verdict, counters and mail service agree; nothing
is sent after the end; every accepted email is dealt with and every stored one
is forgotten.

### The other parts

| part | state | hard behaviour | what makes it correct |
|---|---|---|---|
| Async analysis jobs (`routes/sms.py`, `jobs/`) | one row per job, the arq queue, a task per run | the handler's second save against the worker's updates; a failed enqueue; cancellation at the time limit; a second run | only a further try touches a finished row; progress equals the messages handled; what was started ends |
| Batch analysis, sender aggregates (`services/batch_analyzer.py`, `aggregation_service.py`) | one record per message, one summary per sender | check-then-insert and read-modify-write across awaits | a completed job accounts for every message; none is counted twice |
| Accounts (`services`, `features/user_accounts`, `models`) | users, shield addresses | check-then-create, no rollback, whole-row saves, crashes | one owner per address; success means complete |
| Tokens and sessions (`services/jwt_service.py`, `middleware/jwt_auth.py`, `routes/auth.py`) | signed tokens, a blacklist in memory | refresh against log-out, expiry, restart | a session ends |
| Stripe billing (`routes/stripe_webhooks.py`, `billing.py`) | subscription rows, the user's status | repeated and reordered events, two saves per handler, log-ins that save the same row | a redelivery repairs what went wrong |
| Rate limiter (`features/security/rate_limiter.py`) | counters, windows, a cache of answers, violations | the cache in front of the counters, window edges, limits that change | no more counted grants than the limit; a quiet client is let in |
| Webhook signatures (`webhook_validator.py`) | signatures and times accepted before, a secret, a tolerance | a full store, a new secret, calls signed for a time to come | a signed time is accepted once |
| Request validation, security manager | address list, failures by client, the audit log | strict and lenient mode; failures that get old | the modes agree; old failures do not block |
| Threat scoring, analysers, decisions (`src/src/analysis_engine`, `features/email_protection`) | none | what a model answers: missing, repeated and unknown names, confidences out of range | more evidence is never treated more gently; level and action agree |
| Analyser bridge, content analysis and its cache (`llm_analyzer_bridge.py`, `core/content_analyzer.py`, `services/analysis_cache.py`) | two caches with lifetimes, metrics | fallbacks whose result may be cached | no default of the bridge's own is remembered as an answer, and nothing for too long |
| Monitoring (`features/monitoring`) | counters, processing states, a log, alerts with a cool-down, a kept health answer | a salt that changes in between, evictions, stale answers, reconfiguration | counters agree; probes agree; alerts neither too often nor too seldom |
| Plugins (`plugins`) | the manager's list, a server, a background task | overlapping start, stop and reload | what listens can be stopped, what is listed runs |
| Providers (`providers`) | a registry per process, tables of shield addresses | providers that fail to initialise; spelling of addresses | no unlicensed, failed or replaced provider; known mail is not refused |
| Gmail filters, senders (`services/gmail_filter_manager.py`, `core/email_delivery`, `features/email_protection/immediate_delivery.py`) | labels and filters of a mailbox | chains of requests that break off; batches that end in any order | labels in place; nothing told as sent that was not; harmful bodies stay in |
| Application and configuration (`app.py`, `config`, `production_config.py`) | settings kept after the first read; configuration objects | settings read twice; chains of files, environments and merges | what `get_settings` hands out was checked; guards outlast the ways a configuration is passed on |
| Migrations (`src/migrations`, `models/migrations`) | a database, what it has recorded | two folders with two histories | both lead to the models' tables, and no mixture does |

`PROJECT.json` lists every part with what is left out of it, and every hazard
at its line with the properties that are about it.

## 2. What is modelled

### `PrivacyPipeline`: one worker process of the pipeline

| state | code |
|---|---|
| `calls`, `response` | calls of the webhook so far; the answer to each (`refused` is 400 or 404, `accepted` and `rejected` are both 202) |
| `created` | `_created_at` of the `EphemeralEmail` of a call |
| `emails` | `MemoryManager._emails`: under each message id, the call whose object is stored, and the call that gave the key its place in the dictionary's order (overwriting keeps the place) |
| `nextCleanup` | the end of the clean-up loop's sleep |
| `task`, `action`, `attempt`, `deadline` | the background task of a call, the decision it got, its attempt number, its `wait_for` deadline |
| `wire`, `delivered` | requests on their way to the mail service, and requests it accepted |
| `stats` | `_processing_stats` |
| `now`, `restarts` | clock and number of restarts |

A call of the webhook, the email it creates and the task it starts have one
number, so a repeated message id (Postmark repeats calls) is a second call on
the same key of `emails`.

| actions | code |
|---|---|
| `RefuseRecipient`, `AcceptWebhook`, `RejectWebhook` | `handle_postmark_inbound` down to `store_email` and `create_task` |
| `AnalysisFails`, `BlockEmail`, `ComposeFails`, `StartDelivery` | `_process_email_async` from its start to its end or to its first send |
| `SendSucceeds`, `SendFails`, `Retry` | the loop of `deliver_email` around `send_email` and the backoff |
| `TimeOut` | `wait_for` cancels the task where it is suspended |
| `MailAccepted`, `MailDropped` | the mail service (external) |
| `Cleanup` | one pass of `cleanup_expired_emails` |
| `Restart` | the lifespan handler stops, or the process dies, and another starts |
| `Tick` | time |

*Grain of the actions.* asyncio runs one callback at a time. The analyser is a
synchronous call, composing is synchronous, and nobody holds the store's lock
across a suspension, so a handler between two suspensions is one action and a
clean-up pass is one action. That the analyser stops the whole loop is in the
model too: `Tick` is never held back by work that is due, so a clean-up or a
timeout may come arbitrarily late. Each uvicorn worker has a store of its own
(`memory_manager_singleton.py`), so one process is the whole of the state.

*The result type.* `compose_email` reads `toxicity_score` of the processing
result; the tests build results that have it and `ProcessingResult` has not.
The constant `ResultHasScore` says which of the two is meant. FALSE is the
source as it stands: a deliverable email ends in `ComposeFails` with no attempt
made (`never_tried` shows it, `pipeline_store` uses it). TRUE opens the delivery
loop, which the tests exercise in the same way (`pipeline_delivery`). The proofs
hold for both.

*Abstractions.* Forwarding whole, with a note, redacted or summarised is the one
action `FORWARD`: the four differ in the text that is sent. Addresses are
not in the model; the two refusals of the webhook are one action.

*Not in it.* `shutdown_gracefully`, the `_async`/`_safe` variants and
`cleanup_expired` of the store, and `get_email` are called from tests only.

### `EphemeralStore`: what the store promises

A set of message ids with the time their content was accepted. `Accept` only
with room, `Sweep` forgets exactly what is older than `MinLife`, `Lose` is the
end of the process. `PrivacyPipeline` implements it with `held` the ids and
creation times in `emails`, `MinLife` the TTL plus the grace period, and
`sweepAt` the clean-up's next time. The batch limit and the dictionary's order
exist in the pipeline only: that no stored email escapes a sweep behind the
batch is what the refinement shows.

### `AnalysisJobs`: batch analysis, its queue and its records

| state | code |
|---|---|
| `handler` | how far `create_job` has come: row saved, job enqueued, returned |
| `content` | the messages of a request, each with its sender |
| `row` | the `AnalysisJob`: status, processed and failed counts, `failed_message_ids` |
| `queue`, `tries` | jobs arq has not forgotten, and how often it has started each |
| `run` | a task `analyze_batch_task` or a call of the synchronous endpoint: the statement it comes to next, the message it is at, its counts and list of failures; `left` when the task is over and arq has not forgotten the job |
| `analyses`, `summaries` | the `MessageAnalysis` and `SenderSummary` records, each with the run and the try that inserted it and the message it is of (a summary: the one message it counts) |

| actions | code |
|---|---|
| `CreateJob`, `Enqueue`, `EnqueueFails`, `SaveArqId`, `SaveArqIdFails` | `create_job`, one action per statement |
| `ReceiveBatch` | the synchronous endpoint |
| `NotYetAnalysed`, `AlreadyAnalysed`, `InsertAnalysis` | `analyze_single` |
| `NoSummary`, `SummaryUnreadable`, `InsertSummary` | `update_for_analysis` |
| `MessageFails` | `except Exception` around one message |
| `Progress`, `Complete`, `Raise`, `MarkFailed`, `MarkFailedFails` | the rest of `analyze_batch_task` |
| `Start`, `StartFails` | arq takes a job, and the two statements in front of the `try` |
| `TimeLimit`, `Forget`, `WorkerStops`, `GiveUp` | arq (external) |

*Grain of the actions.* API processes and workers share the database and the
queue only, and every database call is an await. So each statement is an action;
what is computed between two statements belongs to the one before.

*Rows are dictionaries.* Piccolo's `select()` returns dictionaries, as the
repository's own `user_service.py:138` notes. `analyze_single` returns such a
row for a message that was analysed before, and `update_for_analysis` reads
`summary.total_messages` of one: both raise `AttributeError`, which the callers
count as a failed message. A summary is therefore written once and never
updated, and counts one message. `get_job_status` and
`get_job_results` read and fail the same way; they change nothing and are left
out.

*arq.* Modelled from how `jobs/` uses it: an exception of the task ends the job (the
task catches all of its own), a task is cancelled at `job_timeout` and forgotten, a
worker that stops cancels its tasks and starts them again later, a job is started at
most `max_tries` times, at most `max_jobs` run at once. The task commits its last
update of the row, and arq forgets the job in a step of its own (`Forget`): a worker
that dies in between runs a finished job again. A cancellation is not an `Exception`,
so no handler of the task sees it. The constant `SameQueue` is FALSE for the source:
`WorkerSettings` names a queue of its own and `create_job` enqueues in arq's default
queue. With FALSE no job is ever started, so what the two runs say of jobs they say
of a deployment whose worker reads the default queue (TRUE). `Faults` allows the
analyser, a statement or Redis to fail.

The modules below follow the same rule: what the program does without an await
in between, or under one lock, is one action; what other coroutines or processes
can do between two awaits is a step of its own.

### `Tokens`, `Accounts`, `Billing`: users, sessions, subscriptions

`Billing` extends `Accounts`, which extends `Tokens`; it is the composed system,
because log-ins and Stripe's events save the same row of a user.

| state | code |
|---|---|
| `moment`, `issued`, `blacklist`, `admitted` | the clock in units of an access token's life, tokens ever signed, `_token_blacklist`, the token a request was last admitted with; a session has the number of its refresh token |
| `users`, `shields`, `subs` | rows of `User`, `ShieldAddress`, `Subscription`; a row without its key is not there |
| `procs` | handlers under way: what each does, its next statement and the row it has read |
| `sent` | Stripe's events, oldest first; a handler may take any of them, again and in any order |
| `registered`, `ended`, `repaired` | histories the properties read |

| actions | code |
|---|---|
| `IssuePair`, `AuthenticateRequest`, `RefreshAccessToken`, `LogoutUser`, `Elapse` | `jwt_service.py`, `jwt_auth.py`, the handlers of `routes/auth.py` |
| `BeginRegister`, `InsertUser`, `CreateCustomer`, `SaveCustomer`, `FindNewUser`, `SaveShield` | the three versions of registration: the route, `UserAccountService`, `UserService` |
| `BeginAdditional`, `BeginAuthenticate`, `SaveLogin`, `DeactivateShield`, `Deactivate` | further addresses, log-in, deactivation (of a user: an operator, since no code of the program does it) |
| `Send` | Stripe (external) |
| `HandleWithoutEffect`, `BeginPaymentFailed`, `BeginChange`, `SaveSub`, `FindUser`, `SaveUser` | `handle_webhook` and its handlers, one action per statement |
| `StatementFails`, `Crash` | any statement or Stripe call raises; the process ends, and with it its handlers and blacklist |

A save writes the whole row as its handler read it. The database's unique
columns are the only constraint (`Unique`); the look-up before an insert is
what other handlers may come between.

### `RateLimiter`, `WebhookValidator`, `RequestValidator`, `SecurityManager`

`SecurityManager` composes the three over `SecurityClock`: `ValidateRequest`
passes a request through the limiter, the address list, the headers, the
signature and the threat analysis in the order of the code, each reading and
changing its state.

| module | state | actions |
|---|---|---|
| `RateLimiter` | `counts` and `windows` (in memory or Redis), `cache`, `limits`, `load`, `violations`, `rateStats` | `CheckLimit` (answered from the cache or counted, under three strategies, with the clean-up that comes first), `ConfigureLimit`, `AdjustLimitForLoad`, `ResetStats` |
| `WebhookValidator` | `secret`, `tolerance`, `processed`, `rotations`, `hookStats` | `ValidateSignature` with every outcome, `ValidateJsonWebhook`, `UpdateSecret`, `ConfigureTolerance` |
| `RequestValidator` | `whitelist` | additions to the list; the checks of headers and contents are operators |
| `SecurityClock` | `now` | `Tick`; `DropThrough` is how every list in the order of time is cut |
| `SecurityManager` | `failed`, `threshold`, `auditLogs`, `verdict`, `content` | `ValidateRequest`, `RecordFailedRequest`, `RecordEvent`, `ValidateContent`, the configuration of each part |

The code cuts its lists (windows, violations, failures) with a filter on the time
of each entry. They are in the order of time, so what stays is what follows the
last entry that is too old: `DropThrough`. `MCSecurity` checks that the two agree
on every ordered list of its bound (`FiltersAgree`), and the proof of
`CountedGrantsAlwaysFit` that windows are in that order (`Lined`).

A signature is the term that was signed. A call whose header names no time is
valid as often as it is sent in the second it was signed for, because only times
and signatures that came together are remembered; `passes` is the history of every
acceptance, of these calls too. With Redis, every failed request to the store
reads as zero and a window keeps its last `WindowKept` requests (1000); a sliding
window counts refused requests too. The token
bucket reads the time of its last refill from a counter of requests, so that it
is full at every request and refuses nobody unless the limit is 0.

### `MetricsCollector`, `HealthMonitor`, `ObservabilityManager`

| module | state | actions |
|---|---|---|
| `MetricsCollector` | `salt`, `states`, `email`, `security`, `performance` | every `record_...` method; the key of a message is its id under the salt of the moment |
| `HealthMonitor` | `stored`, `checks` under way, `lastCheck` | `BeginCheck` and `EndCheck` around the awaits of `check_all_components_async`; the probes are operators |
| `ObservabilityManager` | `logs`, `active`, `alertHistory`, `lastAlert`, `config` | `LogEmailProcessed` (metrics and alerts in one call), the two recordings that may alert, `ResolveAlert`, the configuration, the clean-up that precedes any of them |

Nothing in the application wires these classes in; their own tests and
docstrings are what they are for.

### `Decisions`, `AnalyzerBridge`, `ContentAnalyzer`, composed by `Analysis`

`Decisions` is the path from the answer of a language model to the content a
user receives: the reading of the answer (`Parsed`, `Analysis`), the level
(`LevelIndex`), the action (`DecideAction`), the heuristics, the mock and the
factory, redaction and summary, in `ProcessInMemory` (the pipeline's processor)
and `ProcessStreamlined` (the graduated decision maker). A text is a set of
lines, a line the listed words it contains and whether it states a fact: all
that the processors look at. `AnalyzerBridge` is the cache, the fallback from the
cloud to the local model and the default behind both; the default the local model
gives for its own failure (`LocalDefault`) is an answer to the bridge, and a value
of its own in the model. `ContentAnalyzer` is the
keyword analysis before the model with the cache of `analysis_cache.py`, whose
keys are the normalised text and the sender, and whose lifetimes depend on the
class. The three share the clock only.

### `PluginManager`, `ShieldAddresses`, `ProviderRegistry`, `GmailFilters`, `SenderFactory`, `Senders`, composed by `Intake`

| module | state | actions |
|---|---|---|
| `PluginManager` | `plugin`, `active`, `servers`, `tasks`, `calls` that wait for a cancelled task | `LoadPlugin`, start, `stop` and `reload` up to their one await and after it, the server's task, another program that takes the port |
| `ShieldAddresses` | one table per long-lived manager | look-up, creation, deactivation |
| `ProviderRegistry` | `registry`, `instances` and what became of each | `GetProviderRegistry`, `GetProvider`, `GetConfigured` inside and outside a running loop |
| `GmailFilters` | `labels`, `filters`, `todo` of each process | one action per request to Gmail, any of which may be refused |
| `Senders` | `requests` (every mail handed to a service, with what of it leaves as it was written), `batch`, `results`, `delivery` | `send_filtered_email`, a batch of `EmailDeliveryService` whose sends end in any order, the retry loop of `ImmediateDeliveryManager` |
| `Intake` | `answer` | mail at the four handlers (the plug-in, the stand-alone server, Gmail, Postmark): refused, accepted, unauthorised, or the answer each gives to the exception in which `EmailProtectionProcessor` ends (451 or 400) |

### `Startup`, `ProductionConfig`, `Migrations`, composed by `Deployment`

`Startup` is the environment, the settings `get_settings` keeps, the checks of
`create_app`, and the controller that reads the settings for itself to make the
sender. `ProductionConfig` makes configurations from profiles, deployment modes,
files, environments and other configurations, and exports them. `Migrations`
applies the migrations of either folder to a database, table by table and
column by column (`With` is a database or table with the entries of another), and
refuses what PostgreSQL would refuse. `Pending` is the first migration of the folder
that the database has not recorded.

## 3. Runs

An `MC` module gives a specification its instance for TLC. Where a specification
joins parts that share little state, a behaviour chooses in its initial state
which part, or which *campaign* of calls, it exercises, and never changes it: one
run covers all of them without multiplying their states.

| run | module | question | properties |
|---|---|---|---|
| `pipeline_delivery` | `MCPrivacyPipeline` | do verdicts, counters and requests agree, is nothing given up half-way nor sent after the end, are accepted emails dealt with and stored ones forgotten | `TypeOK`, `StatsAccount`, `VerdictMatchesMail`, `GivenUpAfterAllAttempts`, `NoSendAfterEnd`, `AcceptedIsResolved`, `StoredIsForgotten` |
| `pipeline_store` | `MCPrivacyPipeline` | capacity, retention, and refinement of `EphemeralStore`, by the source as it stands | `CapacityBound`, `RetentionBound`, `StoreSpec` |
| `never_tried` | `MCPrivacyPipeline` | counterexample, see below | `DeliverableIsTried` |
| `jobs_safety` | `MCAnalysisJobs` | two jobs side by side, cut off and started again: what does a completed row account for, what do the races leave in the records | `TypeOK`, `CompletedIsAccounted`, `RecordsFit` |
| `jobs_faults` | `MCAnalysisJobs` | a job and a batch with failing statements: the counts of a completed row, what changes a finished one, does what was started end | `CompletedProgress`, `FinishedIsLeftAlone`, `StartedIsResolved` |
| `security` | `MCSecurity` | do counted grants fit, are silent clients forgotten, is a signature accepted once, do the modes of the validator agree | `TypeOK`, `CountedGrantsFit`, `ModesAgree`, `AcceptedOnce`, `PastIsForgotten` |
| `accounts` | `MCAccounts` | what do interleaved registrations, saves, events, failures and crashes leave behind; do sessions end | `OneOwnerEach`, `SuccessIsComplete`, `RedeliveryRepairs`, `SessionsEnd` |
| `monitoring` | `MCMonitoring` | do counters, probes and alerts agree with what happened | `MetricsAddUp`, `Probes`, `AlertsKept` |
| `analysis` | `MCAnalysis` | does what is found decide what is done; do caches keep only what they should | `DecisionsFit`, `ContentFits`, `BridgeKeepsItsWord`, `JudgementsFit` |
| `intake` | `MCIntake` | registry, labels, senders, answers to mail, and the plug-in's life | `RegistryUpToDate`, `LabelsInPlace`, `SendersKeepTheirWord`, `AnswersFit`, `PluginInStep` |
| `deployment` | `MCDeployment` | does `get_settings` keep to what was checked; which guards outlast a configuration's way; do the migrations meet | `ServedAsChecked`, `ConfigurationsComeBack`, `HistoriesMeet` |
| `test_token` | `MCDeployment` | counterexample, see below | `FallbackOnlyInDevelopment` |

A property that joins several statements is a conjunction of named parts, each
with its own comment (`AlertsKept` of `AlertsApart`, `AlertedInTime` and
`UnresolvedStay`, for example).

Where the statement is weaker than one may expect, the code is the reason:

- `GivenUpAfterAllAttempts` allows no attempt or all of them, because an email that
  cannot be analysed or composed fails with none. `never_tried` is about those.
- `CompletedIsAccounted` and `RecordsFit` say what is listed and what is not counted
  twice. They do not say that everything analysed is counted, nor that there is one
  record and one summary of each: `RecordsFit` bounds both by the runs that may be
  under way at once.
- `FinishedIsLeftAlone` excepts a further try, after a worker that stopped between
  the commit and arq's forgetting: it sets the row of a finished job back to
  processing.
- `StartedIsResolved` is about jobs a worker has started. By the source none is.
- `CountedGrantsFit` bounds what the limiter counts. Answers repeated from the cache
  are not counted, nor are requests whose call of Redis fails, so that more pass
  than the limit. A fixed window grants up to twice its limit across a boundary. An
  answer cached before the limit was lowered outlives it, so a cached answer is
  compared with the limit it was given under. A sliding window in Redis keeps the
  last `WindowKept` requests and enforces no limit that high.
- `PastIsForgotten` is about a client that stayed silent for a window. Refused
  requests are counted, so one that retries steadily may never be let in.
- `AcceptedOnce` is about one secret. It excepts a signature the full store dropped,
  one accepted before the tolerance changed, and one that came without a time, of
  which it says that it is good for one second.
- `RedeliveryRepairs` speaks of the newest event handled with no handler beside it.
  Between, an older event or a log-in's whole-row save may leave subscription and
  user apart; a second handler beside it may, too.
- `SessionsEnd` excepts a restart between log-out and use, because the blacklist is
  memory. Each of several workers has its own, so what holds of one process holds
  of the service only with one worker.
- `SuccessIsComplete` says nothing of a registration that was not answered with
  success: it may leave a user whose address is taken for good.
- `Probes` compares a kept health answer with the probes made of it, not with what
  failed since. `AlertsKept` compares alerts with the smallest cool-down that was
  configured.
- `ContentFits` lets contempt pass in a line that also states a fact.
- `BridgeKeepsItsWord` says of the bridge's own default that it is never remembered.
  The local model's default is, where that model is asked.
- `RegistryUpToDate` allows a provider that nothing initialised as long as the
  registry has initialised none of its name.
- `SendersKeepTheirWord` keeps the body of a harmful email in, for the sender classes;
  its subject leaves, and `EmailDeliveryService` sends what it is given to whom it
  names. An attempt that raised may have sent, and the next sends again.
- `AnswersFit` says that known mail is not refused and not accepted unread. It may be
  answered "try again" for ever, Gmail's pushes are turned away before their mail is
  looked at, and the handlers that compare the domain as it is spelled do lose mail.
- `PluginInStep` says least of calls that overlap: that the plug-in is listed once at
  most and only while it runs, and that what listens has a task. Two reloads at once
  leave a server behind that nothing refers to.
- `ServedAsChecked` is about what `get_settings` hands out; the orchestrator reads the
  environment for itself.
- `ConfigurationsComeBack` names what outlasts an environment, a file and a merge. A
  file loses the profile and with it the checking of signatures; mode and limits are
  lost through an environment, and so is HTTPS where the profile is development and
  the mode cloud; a merge in development may lose it too.

*The counterexamples.* `never_tried` checks what the tests of `deliver_email` say of an
email that is to be forwarded (`tests/unit/test_integrated_delivery_manager.py`, lines
65-87: at least one attempt, with a result built with a `toxicity_score`). With the
result `InMemoryProcessor` returns, `compose_email` raises, the handler of that
exception raises in its turn, and the email is given up with no attempt made.

`test_token` checks what the comment above the fallback in
`PrivacyWebhookOrchestrator.__init__` says, that it is for tests and development.
With settings that `validate_configuration` accepts in production, the factory
can refuse to make the sender (SMTP settings lack `OUTBOUND_SMTP_USE_TLS`; every
sender asks for a user name that the checks do not), and mail is delivered with
the token `test-token`.

*Bounds of the pipeline.* `pipeline_delivery` has two calls with one message id: two
are enough for any pair of tasks to interleave, and a repeated id is the harder case;
a clock of two with TTL, interval and timeout of one lets each expire before, at and
after the others. `pipeline_store` has three calls, ids of their own or repeated,
against two places, and a clock of six with TTL, grace and interval of one.
`MaxRetries` is 2 (a first attempt, one retry, and giving up), `Capacity` and
`BatchSize` are equal, as both are 100 in the code, and there is one restart. The
clock and the number of calls end a behaviour, so a run without work left may stop:
`CHECK_DEADLOCK FALSE`. `never_tried` needs one call.

*Bounds of the jobs.* `jobs_safety` has two jobs on two slots, which interleave at every
statement and may share a message; nothing fails, but tasks are cut off by time
limits and by a worker that stops at any statement. `jobs_faults` has a job and a
synchronous call over the same messages, and every statement may fail besides. Two
messages make a first and a last one, a failed and an analysed one, and with
`ChunkSize` 1 an update of the progress that is not the last; both are of one sender,
so that the second meets the summary of the first; two tries are a run that is cut
off and one that is not. When every request of the bound has been made and dealt with
the system may stop: `CHECK_DEADLOCK FALSE`.

*Fairness of the pipeline* (`FairSpec`). asyncio runs every ready callback and fires
every timer, so a queued task runs, a sleep ends, the clean-up runs, and time passes;
an HTTP or SMTP client gives up by itself, so a send that is not acknowledged fails.
Nothing is assumed of the mail service, of callers, or of restarts, and not even of
the timeout: tasks end because the attempts do. `StoredIsForgotten` speaks of emails
whose last clean-up falls within the clock's bound.

*Fairness of the jobs* (`FairSpec`). A running worker starts what is in its queue,
forgets what is over and gives up what has had its tries, and the event loop goes on
with every task and every handler. Nothing is assumed of clients, of faults, of time
limits or of the worker's stops: there are at most `max_tries` of these per job that
matter.

*Bounds of `security`.* Two clients, one of which is no address; windows of two
seconds under a clock of four, so that a window, its boundary and the one after are
met; limits of one and two and loads of 0 and 50 per cent; a cache of one answer
living one second, so that it fills, expires and is cut; two bodies, one secret,
tolerances of one and two and a store of one signature, which is full with the first;
windows of two requests in Redis, which a limit of two reaches. Campaigns: five
requests under one change of the limits, for each strategy and store; three signed
calls under two changes; three requests with two changes to addresses, threat
detection and audit log; one content of each kind.

*Bounds of `accounts`.* Two users, two handlers, two email addresses, three shield
addresses. Campaigns: up to three registrations in every version, beside the
creation of further addresses, from empty tables; a session's user with up to four
tokens, access life 1, refresh life 2 and a clock of 4, so that a refresh token
outlives its access token and expires; two events of one subscription handled up
to four times beside log-ins. Two handlers are what any race of the properties
needs, and a third registration starts on what two left behind.

*Bounds of `monitoring`.* A clock of four with a salt, a cool-down and a clean-up
of one or two, one state over which the next pushes out the first, two messages
and four to six calls per campaign.

*Bounds of `analysis`.* Three emails and nine answers, chosen to hold every branch
(no answer, a cut one, thresholds, repeated, unnamed, unrated and unknown
detections, a confidence above one), two of which are processed one after the
other, so that any two outcomes are compared; three texts against a bridge cache
of two, four analyses; four texts, two of them equal but for blanks, two senders,
three requests, and a clock of four against lifetimes of four to one.

*Bounds of `intake`.* Two callers and two ports with three server tasks; two
processes with three calls on one mailbox; three license keys and four instances;
a batch of three; three retries; mails to known, unknown and foreign addresses,
alone, in pairs, in either spelling.

*Bounds of `deployment`.* Every environment, edited twice; chains of three
configurations from four files and three environments; the migrations have no
parameter, so the run is exhaustive for them.

In every one of these a behaviour's calls are bounded, so it may stop:
`CHECK_DEADLOCK FALSE`. They state no fairness: what must eventually happen there
(a retry by Stripe, a further request) is up to others than the program.

*Disagreements that no run is spent on.* Met while modelling, and present in the
models as the code has them:

- content is kept for TTL, one minute of grace and up to a clean-up interval, not
  for five minutes;
- a full store answers 202 as an accepted email does, and the email is lost;
- two jobs that look for the analysis of a message, and find none, both insert one:
  the uniqueness `models/message_analysis.py:90` speaks of is in no migration;
- the second save of `create_job`, for `arq_job_id`, writes the whole row, and a job
  that was completed meanwhile is pending for good;
- a worker that dies between the commit of a finished row and arq's forgetting runs
  the finished job again (`jobs/tasks.py:96-107`);
- the second analysed message of a sender is in the database and in no summary;
- with the worker's own settings no job is ever started (`SameQueue`);
- the store has room for 100 emails per process and `README.md:591` says 50;
- the target of a delivery is the webhook's `To`, the shield address itself, and not
  the user's mailbox (`privacy_webhook_orchestrator.py:128`, `ephemeral_email.py:22`);
- a status request for a job that exists answers 500 (`routes/sms.py:514`);
- every push from Gmail is refused, because a header is looked up in another case
  than the framework gives it;
- `EmailProtectionProcessor.process_email` ends in an exception on every path, so the
  SMTP plug-in answers "try again" to all known mail, and Postmark's handler 400;
- mail whose domain is spelled with capitals is accepted with a 250 and read by nobody
  (`plugins/smtp/server.py:47-49`, `providers/smtp/provider.py:282-287`);
- the security manager announces checks that refuse a request (`security_manager.py:88-107`
  and `290-293`), but `allowed` is computed before they are made: `validate_request`
  refuses nothing, and records no failure;
- a signature header without a time is valid as often as it is sent
  (`webhook_validator.py:194-233`);
- grants repeated from the cache are not counted (`rate_limiter.py:305-310`), and Redis
  keeps a thousand requests of a window, whatever the limit (`rate_limiter.py:190`);
- a summary said to be made without emotional or toxic content keeps every line with a
  fact as it was written (`in_memory_processor.py:215-216`);
- when the local model fails, its analyser answers SAFE with an error
  (`llama_analyzer.py:114-125`), and the bridge takes that for an analysis and caches it
  (`llm_analyzer_bridge.py:174-178`, `199-203`);
- `get_provider` promises an initialised provider and, without a configuration, makes
  and hands out one that nothing has initialised (`registry.py:103-104`);
- the notice in place of a harmful email carries its subject as it was written
  (`core/email_delivery/base.py:102`; a test of the base class asserts it);
- a plug-in that was stopped keeps `is_running` and can neither be started nor reloaded,
  where `plugins/base/plugin.py:56` and `plugins/manager.py:103-123` speak of stopping
  and starting it with a new configuration: the second stop of its controller raises;
- an exported configuration, "deployment-ready" by `production_config.py:390`, is read
  back as one of development with a placeholder for its secret; no configuration
  passes its own `validate` (line 385), which looks for keys in other places than
  `to_dict` puts them; one of development in the cloud comes back from an environment
  without the HTTPS it required;
- the privacy pipeline cannot deliver by SMTP: the settings it hands to the factory
  lack a key the sender reads;
- `processed_message_ids` of the metrics only grows;
- nothing deactivates a user, and `deactivate_user_shields` ends in an error.

*Mutants.* Each property of a passing run has a seeded fault, defined in the module
before the definition it replaces and marked as such: an off-by-one in the capacity
check, a timeout counted as a success, a retry after the timeout, a failed message
that is not listed, a registration that answers before its address is saved, a
log-out that ends the access token only, an event that is skipped when nothing
changed, a cache of every grant, a signature forgotten after one tolerance instead of
two, a cool-down shared by all kinds of alert, a default that is cached as an answer,
a look-up for an earlier analysis left out, a label created without its parent,
settings read anew, and others of the kind. `PROJECT.json` pairs them with the
properties.

## 4. Proofs

`PrivacyPipelineProofs` proves for all values of the constants that satisfy the
assumptions of the module (a finite set of message ids, `Capacity <= BatchSize`,
naturals elsewhere, at least one attempt):

| theorem | property | argument |
|---|---|---|
| `TypeCorrect` | `TypeOK` | `TypeOK` with `BackoffInv`: an attempt is counted up only from a backoff, which is entered only with attempts left |
| `CapacityKept` | `CapacityBound` | the store invariant `SInv`: stored objects and places are earlier calls, and no two keys share a place |
| `RetentionKept` | `RetentionBound` | `SInv` and `Capacity <= BatchSize`: a pass covers every key, so after it nothing is older than TTL and grace, and the next is one interval away |
| `StatsCorrect` | `StatsAccount` | each step moves one task between the three sets it counts; cardinality changes by one exactly then (`TaskMoves`) |
| `VerdictsCorrect` | `VerdictMatchesMail` | the mail invariant `MInv`: requests exist only for attempts made, and a task that has not begun has made none |
| `SilentAfterEnd` | `NoSendAfterEnd` | step by step from the type invariant: only `StartDelivery` and `Retry` add to `wire` |
| `ImplementsStore` | `StoreSpec` | `SInv` for the batch, then one case per action: accept, sweep, lose, pass, or a stutter |

None of the properties is inductive alone. Capacity needs to know that the store
is a finite set; retention needs that a pass misses nobody, which needs the
capacity; the verdicts need that a waiting task has no requests. The invariants
are proved in that order, each resting on the ones before, and the theorems
cite them.

`AnalysisJobsProofs` proves for any sets of messages and senders, any finite
set of jobs, any length of requests and any size of chunks, tries and slots:

| theorem | property | argument |
|---|---|---|
| `TypeCorrect` | `TypeOK` | with `TInv`: the position of a run is one of its messages until it is about to complete (`RunOK`), and a job is not run before it is in the queue nor after its row is finished (`JobOK`) |
| `FinishedRests` | `FinishedIsLeftAlone` | from `TInv`: the task of a finished job has left, so that none of its statements is to come, and the handler is done; what remains is a further start |
| `CompletedAccounts` | `CompletedIsAccounted` | with `AInv`: every message before a run's position is settled, by a summary's record that nobody deletes or in the run's own list (`RunAcc`); `Complete` is reached behind the last one |
| `CompletedTells` | `CompletedProgress` | with `AInv`: a run's counts add up to its position, and the last update of the progress precedes `Complete` |
| `RecordsAlwaysFit` | `RecordsFit` | `RecInv`: a run about to insert has made no record of the message before, and those who have made one, with those who have looked and found none, are no more than run at once (`Bounded`): whoever looked before the first record was there was under way then |

The argument about other actors is stated once: records are only added
(`RecordsStay`), so what holds of a run or a row that does not step itself
holds on (`RunAccStays`, `RowAccStays`), and one lemma (`AInvJobStep`) reduces a
job's step to its own run and row.

`GivenUpLate`, in `PrivacyPipelineProofs`, adds that a delivery fails after every attempt
or after none (`GivenUpAfterAllAttempts`), with either type of result; the property is
inductive together with the fact that a task which has not begun has made no attempt
(`GInv`).

The other proof modules hold for every value of their constants under the named
assumptions of the modules (naturals where something is counted, `CacheKeep <=
CacheLimit`, lifetimes ordered by severity, at least one retry, an initial
database within its own constraints).

| module, theorem | property | argument |
|---|---|---|
| `AccountsProofs`: `AddressesHaveOneOwner` | `OneOwnerEach` | `UsersInv`: rows are distinct, and every row a handler holds still has the email and name of its user (`HandlerFits`), so that a late save of an old row brings back no address that another has taken; with the shields, `AccountsInv` |
| `SuccessIsAlwaysComplete` | `SuccessIsComplete` | `AccountsInv`: no step removes a user or a name (`RegisteredFit`), and every address belongs to a user that is there (`ShieldsFit`) |
| `SessionsAlwaysEnd` | `SessionsEnd` | `TokenInv`: every token expires within the life of its session (`IssuedFit`), a session that was logged out has its refresh token on the list and signs no more access tokens (`EndedFit`) |
| `RedeliveryAlwaysRepairs` | `RedeliveryRepairs` | `RepairInv`: no two users have one customer, in rows and in what handlers are about to save (`CustomersFit`); a handler of an event that began alone, with none begun since, is alone (`AloneFit`), and what it saved of the subscription is still there (`SubsFit`) |
| `SecurityProofs`: `ModesAlwaysAgree` | `ModesAgree` | `ContentInv` and a case for every kind of entry |
| `AcceptedAtMostOnce` | `AcceptedOnce` | `HookInv`: an accepted signature is remembered (`Remembered`), or its time has left the tolerance (`Past`), or it was pushed out, or the tolerance changed (`Excepted`), or it has no time and was accepted in its own second only (`Untimed`) |
| `SecurityTypesAreKept` | `TypeOK` | `AllTypes`: besides the types of the store, a cache cut to its oldest answers stays within its bound, and each list is cut before it grows |
| `PastIsAlwaysForgotten` | `PastIsForgotten` | `QuietInv`: nothing the limiter remembers of a client is more than a window younger than its last check, and only grants are cached |
| `CountedGrantsAlwaysFit` | `CountedGrantsFit` | `CacheInv`: a cached answer had a request left, and its counter has not moved since; `GrantsInv`: see below |
| `MonitoringProofs`: `ProbesAlwaysAgree` | `Probes` | `ProbeInv`: only critical components are ever found unhealthy |
| `MetricsAlwaysAddUp` | `MetricsAddUp` | `MetricsInv`: states are finite, bounded and keyed apart; no message has more states than receptions not yet counted (`BalanceFits`); kinds and times stay within totals and extremes (`EmailFits`) |
| `AlertsAreAlwaysKept` | `AlertsKept` | `AlertsInv`: see below |
| `AnalysisProofs`: `DecisionsAlwaysFit`, `ContentAlwaysFits` | `DecisionsFit`, `ContentFits` | `DecisionsInv`: results are in the set of what the processors can return; then lemmas about `LevelIndex` (monotone in the set of horsemen) and about redaction and summary |
| `BridgeAlwaysKeepsItsWord` | `BridgeKeepsItsWord` | `BridgeInv`: the cache is finite and within its limit and holds the bridge's default only without an analyser, the local model's only where that model is asked; the counters are naturals that add up |
| `JudgementsAlwaysFit` | `JudgementsFit` | `AnalyzerInv`: an entry lives as long as its class allows (`CacheFits`) and holds the keyword analysis of its key where it was made by it |
| `IntakeProofs`: `SendersAlwaysKeepTheirWord` | `SendersKeepTheirWord` | `SendersInv`: what ended as sent was handed over and nothing handed over is taken back (`BatchInv`); a delivery still tried has attempts left (`DeliveryInv`) |
| `AnswersAlwaysFit` | `AnswersFit` | by the handler (`Judged`, `AnswerFits`): a first recipient with our domain is found unless all of ours are spelled with capitals (`ShieldFound`) |
| `PluginAlwaysInStep` | `PluginInStep` | `PluginInv`: types always, and until calls overlap the state of task, controller and list determine each other (`TaskInv`), with at most one call waiting (`CallsInv`); under overlap, `ListedInv`, and that a controller comes up in its own task and goes down before that task ends (`ListenersKept`) |
| `RegistryAlwaysUpToDate` | `RegistryUpToDate` | `RegistryInv`: what is loaded is the latest of its name that did not fail, and one that nothing initialised stands there only while all others of this registry have failed |
| `LabelsAlwaysInPlace` | `LabelsInPlace` | `LabelsInv`: a process about to create a nested label or a filter has seen or made what it needs, and labels are never removed |
| `DeploymentProofs`: `ServedChecked` | `ServedAsChecked` | inductive as it stands |
| `ConfigurationsBack` | `ConfigurationsComeBack` | `CfgInv`: a configuration has the fields of one, with the guards its profile sets; then a lemma for each way (`BackFromEnvironment`, `FileKeepsHttps`, `MergeKeepsHttps`) |
| `HistoriesAlwaysMeet` | `HistoriesMeet` | `MigrationsInv`: how far a database has come along one of the two histories, with the tables it then has (`Older1` to `Older4`); that the fourth are the tables of the models is shown table by table, and for users and logs column by column (`OauthUndone`, `LogsWithoutContent`) |

*The limits of requests* (`GrantsInv`). A sliding window keeps times, of refused
requests as well, and a grant compares their number with the limit. So the invariant
relates two lists: every grant younger than a window *stands* in the window, with at
least as many entries behind it as there are later grants (`Stands`), unless Redis
has cut the window to `WindowKept` entries (`Crowded`). Then the grants of a window
are no more than its entries when the last of them was given. A fixed window keeps a
counter with an expiry. There the invariant assigns to each grant the beginning of
the counter's period it fell into (`Periods`): within a period the counter bounds the
grants, and the next period begins more than a window after the one before began
(`Earlier`). A window that slides over the grants meets two periods at most, hence
twice the limit.

*The alerts* (`AlertsInv`). The times of the last alerts and the history are two
memories of one thing, cleaned up by different rules. `TimesFit` says how they
agree: a type without a time had no alert for a cool-down, no alert is newer than
the time of its type, and while a toxic message cools down its alert is in the
history. The last needs the bound of the history. Behind the last alert about a
toxic message all alerts are of the other kind, which are a cool-down apart, so by
induction over them the alert cannot be pushed out in the time of another
cool-down (`OthersSpread`, `RecentIsKept`). This is what `AlertingAssumption` is
for: with 500 places and cool-downs of 15 minutes, the values of the code, the
largest cool-down in use may be 499 times the smallest. Without it the statement is
false: a history that is short for its cool-downs loses an alert that still keeps
others away.

*Induction over numbers.* The library's theorems of induction take an operator and
cannot be used here. The two modules that need it derive it from the well-founded
order of the naturals, with a set in the place of the predicate (`LeastOf`,
`Induction`): a set with 0 and every successor holds all numbers. `IntakeProofs`
takes the first recipient of a mail by the same order. A maximum of a bounded set
follows in the same way (`MaxOf`), which is what `DropThrough` cuts at. What a filter
(`SelectSeq`) computes still cannot be expanded by the provers, which is why the
models say `DropThrough`, and name the parts of a sequence, where something is proved
of them.

*Assumptions the proofs add to naturals.* `AlertingAssumption`, above.
`ManagerAssumption`: clients are addresses or are known not to be, and what a
campaign sends are requests and calls of the modelled kinds. `ClockAssumption`:
the clock can tick. A window of length 0 is not excluded.

*Only model-checked.* The liveness properties (`AcceptedIsResolved`,
`StoredIsForgotten`, `StartedIsResolved`), because fairness and ENABLED are out of the
prover's reach, and `FiltersAgree`, which is about a recursive operator. Every safety
and action property that a passing run checks is proved.

## 5. Not modelled

- The earlier email processors and the scripts: no route calls the ones, and the
  others are run by hand.
- Prompts, the wording of rewritten text and of composed mail, pages, prices and
  logging: no property is about them.
- Calls to a language model are a choice among answers; what a model says of an
  email is not a property of this program.
- Reports, trends, dashboards and job status requests: they only read.
- Four workers: each has its own store, caches, blacklist and registry, and shares
  the database and the queue. The models of those (`Accounts`, `Billing`,
  `AnalysisJobs`) have all handlers in them; the others are one process.
- `shutdown_gracefully`, the `_async`/`_safe` variants of the store and the exchange
  of authorisation with Gmail.

What each part modelled in part leaves out is in its note in `PROJECT.json`.

## 6. Plan

Done: the modules of section 2 with their runs and the proofs of section 4. Left,
in this order:

1. liveness of the tokens and of Stripe's repetitions, under the assumption that
   Stripe repeats an event until it is answered with success;
2. an abstract life cycle of a job (pending, processing, finished) that
   `AnalysisJobs` implements once `create_job` has returned;
3. that two workers with stores of their own keep what one process promises.
