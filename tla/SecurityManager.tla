-------------------------- MODULE SecurityManager --------------------------
(***************************************************************************)
(* features/security/security_manager.py: one request passes the rate      *)
(* limiter, the address list, the header checks, the webhook signature and *)
(* the threat analysis, in this order, and each of them keeps state that   *)
(* the next request meets.                                                 *)
(***************************************************************************)
EXTENDS RateLimiter, WebhookValidator, RequestValidator

CONSTANTS
  Thresholds,       \* suspicious_ip_threshold (10)
  ThreatWindow,     \* threat_detection_window_minutes, in seconds (300)
  RapidSpan,        \* five failures in less than this are rapid (60)
  Reasons,          \* reasons of failed requests
  MaxLogEntries,    \* max_log_entries (10000)
  Campaigns,        \* what behaviours are made of, see below
  Times             \* times a webhook call may be signed for

\* A campaign bounds a behaviour: the requests it may send (headers, signature
\* headers and signed call), the parts it may configure, and how many changes of
\* the configuration and how many other operations it makes.
SignatureHeaders == {"x-postmark-signature", "x-webhook-signature"}

ASSUME ManagerAssumption ==
  /\ Clients \subseteq Addresses \cup {NotAddress}
  /\ Times \cup Thresholds \subseteq Nat /\ ThreatWindow \in Nat /\ MaxLogEntries \in Nat
  /\ \A c \in Campaigns :
       /\ c.samples \subseteq
            [request : Requests, headers : SUBSET SignatureHeaders, call : Calls(Times)]
       /\ c.setups \in Nat /\ c.calls \in Nat

VARIABLES
  threshold,        \* 0 until threat detection is enabled
  failed,           \* client -> its recorded failures
  logSuccess,       \* log_successful_requests
  auditLogs,        \* number of entries, the oldest of which are dropped
  verdict,          \* what the last validate_request answered
  content,          \* the last content validation
  campaign,
  setups, calls     \* operations so far

managerVars == <<threshold, failed, logSuccess, auditLogs, verdict>>
vars == <<now, rateVars, hookVars, whitelist, managerVars, content, campaign, setups, calls>>

NoThreat == [client |-> "none", block |-> FALSE, level |-> "low"]
NoVerdict == [allowed |-> TRUE, error |-> FALSE, headers |-> {}, threat |-> NoThreat]

Init ==
  /\ StartClock
  /\ RateInit
  /\ HookInit
  /\ whitelist = NoWhitelist
  /\ threshold = 0
  /\ failed = [c \in Clients |-> <<>>]
  /\ logSuccess = FALSE
  /\ auditLogs = 0
  /\ verdict = NoVerdict
  /\ content = [payload |-> <<>>, strict |-> FALSE, result |-> ValidateJsonPayload(<<>>, FALSE)]
  /\ campaign \in Campaigns /\ strategy \in campaign.strategies
  /\ "rates" \in campaign.parts \/ ~distributed
  /\ "hooks" \in campaign.parts \/ tolerance = Max(Tolerances)
  /\ setups = 0 /\ calls = 0
-----------------------------------------------------------------------------
\* Threat analysis. The confidence is a fraction of the threshold, which keeps it
\* a whole number: ten times the threshold is certainty.

Young(all) == DropThrough(all, {i \in DOMAIN all : all[i].at <= now - ThreatWindow})
Recent(c) == Young(failed[c])

Patterns(c) ==
  LET r == Recent(c)
      n == Len(r)
  IN  (IF n >= threshold THEN {"excessive"} ELSE {})
      \cup (IF n >= 5 /\ r[n].at - r[n - 4].at < RapidSpan THEN {"rapid_fire"} ELSE {})
      \cup (IF Cardinality({f.reason : f \in Range(r)}) >= 3 THEN {"diverse"} ELSE {})

Confidence(c) ==
  Min({10 * threshold,
       Min({10 * threshold, 10 * Len(Recent(c))}) + threshold * Cardinality(Patterns(c))})

\* ThreatDetection.__post_init__.
Level(c) ==
  CASE Confidence(c) > 8 * threshold -> "critical"
    [] Confidence(c) > 6 * threshold -> "high"
    [] Confidence(c) > 4 * threshold -> "medium"
    [] OTHER -> "low"

AnalyzeThreatLevel(c) ==
  [client |-> c, level |-> Level(c), block |-> Level(c) \in {"critical", "high"}]

RecordFailedRequest(c, why) ==
  /\ failed' = [failed EXCEPT ![c] = Young(Append(@, [at |-> now, reason |-> why]))]
  /\ UNCHANGED <<rateVars, hookVars, whitelist, threshold, logSuccess, auditLogs, verdict>>
-----------------------------------------------------------------------------
\* Configuration, and the entry points that only write the audit log.

AuditAfter(n) == Min({auditLogs + n, MaxLogEntries})

ConfigureHooks ==
  /\ \/ \E s \in Secrets : ConfigureWebhookSecret(s) \/ UpdateSecret(s)
     \/ \E t \in Tolerances : ConfigureTolerance(t)
  /\ UNCHANGED <<rateVars, whitelist, managerVars>>

ConfigureAddresses ==
  /\ \/ ConfigureIpWhitelist
     \/ \E a \in Addresses : AddAllowedIp(a) \/ AddBlockedIp(a)
     \/ \E n \in Networks : AddAllowedNetwork(n)
  /\ UNCHANGED <<rateVars, hookVars, managerVars>>

ConfigureRates ==
  /\ \/ \E e \in Endpoints, r \in Rates, b \in Rates \cup {0} : ConfigureLimit(e, r, b)
     \/ \E e \in Endpoints, f \in Loads : AdjustLimitForLoad(e, f)
     \/ ResetStats
  /\ UNCHANGED <<hookVars, whitelist, managerVars>>

EnableThreatDetection(n) ==
  /\ threshold' = n
  /\ UNCHANGED <<rateVars, hookVars, whitelist, failed, logSuccess, auditLogs, verdict>>

EnableAuditLogging(b) ==
  /\ logSuccess' = b
  /\ UNCHANGED <<rateVars, hookVars, whitelist, threshold, failed, auditLogs, verdict>>

\* record_rate_limit_violation, record_invalid_signature, record_ip_blocked. The
\* names of their events are not those of the logging options, so no option
\* silences them.
RecordEvent ==
  /\ auditLogs' = AuditAfter(1)
  /\ UNCHANGED <<rateVars, hookVars, whitelist, threshold, failed, logSuccess, verdict>>
-----------------------------------------------------------------------------
\* validate_request. The result is built before anything is checked, so allowed
\* is computed from no violations and stays TRUE; only an error changes it.

Signed(headers) ==
  (secret # NoSecret /\ "x-postmark-signature" \in headers)
  \/ "x-webhook-signature" \in headers

ValidateWebhook(headers, c) ==
  IF ~Signed(headers) \/ secret = NoSecret THEN UNCHANGED hookVars
  ELSE IF c.shape \in {"json", "not_json"} THEN ValidateJsonWebhook(c)
  ELSE ValidateSignature(c)

ValidateRequest(k, r, headers, c) ==
  LET client == k[1]
      refusedAddress == ~IsIpAllowed(client)
      raises == Signed(headers) /\ secret = NoSecret
  IN  /\ CheckLimit(k)
      /\ ValidateWebhook(headers, c)
      /\ verdict' = [allowed |-> ~raises, error |-> raises, headers |-> HeaderViolations(r),
                     threat |-> IF threshold = 0 \/ raises THEN NoThreat
                                ELSE AnalyzeThreatLevel(client)]
      /\ LET refusedHook == Signed(headers) /\ ~raises /\ hook' # "valid"
             events == Cardinality({x \in 1 .. 4 :
                           \/ x = 1 /\ ~rate'.allowed
                           \/ x = 2 /\ refusedAddress
                           \/ x = 3 /\ refusedHook
                           \/ x = 4 /\ logSuccess /\ ~raises})
         IN  auditLogs' = AuditAfter(events)
      /\ UNCHANGED <<whitelist, threshold, failed, logSuccess>>
-----------------------------------------------------------------------------
\* Bounded to MaxCalls operations. A request is sent with headers that keep the
\* policy or break part of it, with a signature in either header or in none.

Setup ==
  \/ "hooks" \in campaign.parts /\ ConfigureHooks
  \/ "addresses" \in campaign.parts /\ ConfigureAddresses
  \/ "rates" \in campaign.parts /\ ConfigureRates
  \/ "threats" \in campaign.parts /\ \E n \in Thresholds : EnableThreatDetection(n)
  \/ "audit" \in campaign.parts /\ \E b \in BOOLEAN : EnableAuditLogging(b)

Operation ==
  \/ "threats" \in campaign.parts /\ \E c \in Clients, why \in Reasons : RecordFailedRequest(c, why)
  \/ "audit" \in campaign.parts /\ RecordEvent
  \/ \E k \in Keys, s \in campaign.samples : ValidateRequest(k, s.request, s.headers, s.call)

\* The content validator belongs to the manager, but no request reaches it: its
\* callers call it themselves.
ValidateContent ==
  /\ "contents" \in campaign.parts
  /\ \E p \in Payloads, b \in BOOLEAN :
       content' = [payload |-> p, strict |-> b, result |-> ValidateJsonPayload(p, b)]
  /\ UNCHANGED <<rateVars, hookVars, whitelist, managerVars>>

Next ==
  \/ /\ setups < campaign.setups
     /\ Setup
     /\ setups' = setups + 1
     /\ UNCHANGED <<now, content, campaign, calls>>
  \/ /\ calls < campaign.calls
     /\ (Operation /\ UNCHANGED content) \/ ValidateContent
     /\ calls' = calls + 1
     /\ UNCHANGED <<now, campaign, setups>>
  \/ Tick /\ UNCHANGED <<rateVars, hookVars, whitelist, managerVars, content, campaign, setups, calls>>

Spec == Init /\ [][Next]_vars
-----------------------------------------------------------------------------
\* What has to hold.

\* Every variable has its type, and what a client can make grow stays bounded,
\* whatever is sent in which order: the cache of answers, the violations, the
\* signatures of webhook calls and the audit log (rate_limiter.py:484-539,
\* webhook_validator.py:269-293).
TypeOK ==
  /\ now \in 1 .. MaxTime /\ setups \in 0 .. campaign.setups /\ calls \in 0 .. campaign.calls
  /\ strategy \in Strategies /\ distributed \in BOOLEAN
  /\ DOMAIN limits \subseteq Endpoints /\ DOMAIN load = DOMAIN limits
  /\ \A e \in DOMAIN limits : limits[e].rate \in Nat /\ limits[e].burst \in Nat /\ load[e] \in Nat
  /\ \A k \in DOMAIN counts : counts[k].count \in Nat /\ counts[k].expires \in Nat
  /\ \A k \in Keys : windows[k] \in Seq(Nat)
  /\ DOMAIN cache \subseteq Keys /\ Cardinality(DOMAIN cache) <= CacheSize
  /\ Len(violations) <= MaxViolations
  /\ Cardinality(DOMAIN processed) <= MaxCached
  /\ rate.allowed \in BOOLEAN /\ rate.remaining \in Nat /\ rate.retry \in Nat
  /\ secret \in Secrets \cup {NoSecret} /\ tolerance \in Tolerances
  /\ rotations \in 0 .. MaxRotations
  /\ whitelist.ips \cup whitelist.blocked \subseteq Addresses /\ whitelist.networks \subseteq Networks
  /\ threshold \in Thresholds \cup {0}
  /\ \A c \in Clients : \A i \in DOMAIN failed[c] : failed[c][i].reason \in Reasons
  /\ auditLogs \in 0 .. MaxLogEntries

\* A client is not blocked for failures that left the window: they are removed
\* only when the next failure is recorded, so the analysis meets old ones.
OldFailuresDoNotBlock ==
  (verdict'.threat.block /\ verdict' # verdict) =>
    \E i \in DOMAIN failed[verdict'.threat.client] :
      failed[verdict'.threat.client][i].at > now - ThreatWindow

\* What left its window no longer counts against a client: neither requests, of
\* which the refused ones are counted as well (rate_limiter.py:390), nor failures
\* (security_manager.py:316-334), which nothing removes when they get old.
PastIsForgotten == [][QuietClientIsAllowed /\ OldFailuresDoNotBlock]_vars

\* The two modes of the content validator agree: strict mode accepts exactly what
\* the lenient one would leave as it is, with every entry and nothing escaped
\* (request_validator.py:162-282).
ModesAgree ==
  LET lenient == ValidateJsonPayload(content.payload, FALSE)
  IN  content.strict =>
        (content.result.valid <=> /\ lenient.kept = DOMAIN content.payload
                                  /\ \A i \in lenient.kept : lenient.escapes[i] \subseteq {0})
=============================================================================
