------------------------- MODULE ObservabilityManager -------------------------
(***************************************************************************)
(* features/monitoring/observability_manager.py: the log, the alerts with  *)
(* their cool-down, and the metrics and health checks it holds.            *)
(***************************************************************************)
EXTENDS MetricsCollector

CONSTANTS
  Capacity, CacheLife, MaxChecks,
  Configs,             \* AlertingConfig: enabled, toxicity, slow, cooldown
  Limits,              \* sizes of the log
  MaxAlerts,           \* of the history
  CleanupInterval,     \* 5 minutes
  ResolvedLife,        \* an hour
  Times,               \* processing times
  Campaigns            \* which part a behaviour uses, and how many calls it makes

\* The history has room for the alerts of one type that the smallest cool-down
\* admits during the largest (15 minutes and 500 alerts in the code).
ASSUME AlertingAssumption ==
  /\ MaxAlerts \in Nat
  /\ \A c, d \in Configs : /\ c.cooldown \in Nat \ {0} /\ d.cooldown \in Nat \ {0}
                           /\ c.cooldown <= (MaxAlerts - 1) * d.cooldown

VARIABLES
  stored, checks, lastCheck,
  logs, maxLogs,       \* _log_entries and its maxlen
  config,              \* alerting_config
  active,              \* _active_alerts
  alertHistory,        \* _alert_history
  lastAlert,           \* _last_alert_times, of the types that are there
  lastCleanup,
  leastCooldown,       \* history: the smallest cool-down that was configured
  toxicAt,             \* history: when a message over the threshold was last reported
  campaign, calls

Health == INSTANCE HealthMonitor WITH time <- now
healthVars == <<stored, checks, lastCheck>>
alertVars == <<active, alertHistory, lastAlert, lastCleanup, toxicAt>>
vars == <<now, metricsVars, healthVars, logs, maxLogs, config, alertVars, leastCooldown,
          campaign, calls>>

AlertTypes == {"high_toxicity", "performance_degradation"}

Init ==
  /\ now = 0
  /\ MetricsInit
  /\ Health!HealthInit
  /\ logs = <<>> /\ maxLogs = Max(Limits)
  /\ config \in Configs
  /\ active = {} /\ alertHistory = <<>> /\ lastAlert = [t \in {} |-> 0]
  /\ lastCleanup = 0
  /\ leastCooldown = config.cooldown
  /\ toxicAt = [on |-> FALSE, at |-> 0, cooldown |-> 0]
  /\ campaign \in Campaigns /\ calls = 0

\* _add_log_entry; entries below the level that is kept are left out.
Logged(entries) == Newest(logs \o entries, maxLogs)

\* _periodic_cleanup.
KeptTimes(c) == {t \in DOMAIN lastAlert : now - lastAlert[t] < 2 * c}

KeptAlerts(A) == {a \in A : a.resolved => a.resolvedAt + ResolvedLife > now}

CleanupDue == now - lastCleanup > CleanupInterval
AfterCleanup == IF CleanupDue THEN KeptAlerts(active) ELSE active
TimesAfterCleanup ==
  IF CleanupDue THEN [t \in KeptTimes(config.cooldown) |-> lastAlert[t]] ELSE lastAlert

\* Seeded fault: all types share one cool-down.
CoolShared(t, times) == \A u \in DOMAIN times : now - times[u] >= config.cooldown

\* No alert of the type in the last cool-down.
Cool(t, times) == t \in DOMAIN times => now - times[t] >= config.cooldown

\* _check_toxicity_alert and _check_performance_alert: the alerts a message raises.
Raised(score, ms, times) ==
  IF ~config.enabled THEN {}
  ELSE {t \in AlertTypes :
          /\ Cool(t, times)
          /\ \/ t = "high_toxicity" /\ score >= config.toxicity
             \/ t = "performance_degradation" /\ ms >= config.slow}

Alert(t, score) ==
  [type |-> t, at |-> now, severity |-> IF t = "high_toxicity" /\ score >= 9 THEN "high" ELSE "medium",
   resolved |-> FALSE, resolvedAt |-> 0]

\* The two checks after entries, with what the clean-up left; toxicity comes first.
CheckAlerts(score, ms, entries, A, times) ==
  LET types == Raised(score, ms, times)
      Added(t) == IF t \in types THEN <<Alert(t, score)>> ELSE <<>>
      added == Added("high_toxicity") \o Added("performance_degradation")
  IN  /\ active' = A \cup {Alert(t, score) : t \in types}
      /\ alertHistory' = Newest(alertHistory \o added, MaxAlerts)
      /\ lastAlert' = [t \in DOMAIN times \cup types |-> IF t \in types THEN now ELSE times[t]]
      /\ logs' = Logged(entries \o [i \in DOMAIN added |-> "alert"])
      /\ toxicAt' = IF config.enabled /\ score >= config.toxicity
                    THEN [on |-> TRUE, at |-> now, cooldown |-> config.cooldown] ELSE toxicAt

\* log_email_processed: the metrics record reception, start and completion at once.
LogEmailProcessed(m, ms, score, action) ==
  /\ CheckAlerts(score, ms, <<"processed">>, AfterCleanup, TimesAfterCleanup)
  /\ lastCleanup' = IF CleanupDue THEN now ELSE lastCleanup
  /\ salt' = CurrentSalt
  /\ \E K \in Cleaned(states) : states' = {s \in K : s.key # Key(m)}
  /\ email' = Counted(WithTime(email, 0), action)
  /\ security' = IF action \in {"TOXIC", "REDIRECT"} /\ score > 8 THEN HighToxicity(security)
                 ELSE security
  /\ UNCHANGED <<performance, balance, healthVars, maxLogs, config, leastCooldown>>

RecordHighToxicityEmail(score) ==
  /\ RecordToxicEmailDetected(score)
  /\ CheckAlerts(score, 0, <<"warning">>, active, lastAlert)
  /\ UNCHANGED <<lastCleanup, healthVars, maxLogs, config, leastCooldown>>

RecordPerformanceDegradation(ms) ==
  /\ CheckAlerts(0, ms, <<"warning">>, active, lastAlert)
  /\ UNCHANGED <<metricsVars, lastCleanup, healthVars, maxLogs, config, leastCooldown>>

\* resolve_alert, by an id made of type and time.
ResolveAlert(a) ==
  /\ ~a.resolved
  /\ active' = (active \ {a}) \cup {[a EXCEPT !.resolved = TRUE, !.resolvedAt = now]}
  /\ logs' = Logged(<<"resolved">>)
  /\ UNCHANGED <<metricsVars, healthVars, maxLogs, config, alertHistory, lastAlert,
                 lastCleanup, toxicAt, leastCooldown>>

ConfigureAlerting(c) ==
  /\ config' = c
  /\ leastCooldown' = Smaller(leastCooldown, c.cooldown)
  /\ UNCHANGED <<metricsVars, healthVars, logs, maxLogs, alertVars>>

\* configure_logging: a smaller log keeps its newest entries.
ConfigureLogging(n) ==
  /\ maxLogs' = n
  /\ logs' = Newest(logs, n)
  /\ UNCHANGED <<metricsVars, healthVars, config, alertVars, leastCooldown>>

ObservabilityStep ==
  \/ \E m \in campaign.messages, ms \in Times, s \in Scores, a \in campaign.actions : LogEmailProcessed(m, ms, s, a)
  \/ \E s \in Scores : RecordHighToxicityEmail(s)
  \/ \E ms \in Times : RecordPerformanceDegradation(ms)
  \/ \E a \in active : ResolveAlert(a)
  \/ \E c \in Configs : ConfigureAlerting(c)
  \/ \E n \in Limits : ConfigureLogging(n)

Tick ==
  /\ now < LastTime
  /\ now' = now + 1
  /\ UNCHANGED <<metricsVars, healthVars, logs, maxLogs, config, alertVars, leastCooldown, calls>>

Call ==
  /\ calls < campaign.calls
  /\ calls' = calls + 1
  /\ \/ /\ \/ campaign.part = "states" /\ StatesStep(campaign.messages, campaign.actions, Scores)
           \/ campaign.part = "counters" /\ CountersStep
        /\ UNCHANGED <<healthVars, logs, maxLogs, config, alertVars, leastCooldown>>
     \/ /\ campaign.part = "health" /\ Health!HealthStep
        /\ UNCHANGED <<metricsVars, logs, maxLogs, config, alertVars, leastCooldown>>
     \/ campaign.part = "alerts" /\ ObservabilityStep
  /\ UNCHANGED now

Next == (Call \/ Tick) /\ UNCHANGED campaign

Spec == Init /\ [][Next]_vars
-----------------------------------------------------------------------------
\* What has to hold.

\* Alerts of a type are a cool-down apart, over clean-ups of the times they were
\* raised at and changes of the configuration (observability_manager.py:110-128, 290-361).
AlertsApart ==
  \A i, j \in DOMAIN alertHistory :
    (i < j /\ alertHistory[i].type = alertHistory[j].type) =>
      alertHistory[j].at - alertHistory[i].at >= leastCooldown

\* An alert stays among the active ones until it is resolved, and an hour longer
\* (observability_manager.py:120-126).
UnresolvedStay ==
  \A a \in active : (~a.resolved \/ a.resolvedAt + ResolvedLife > now) =>
    \E b \in active' : b.type = a.type /\ b.at = a.at

\* A message over the threshold is reported, or one of the last cool-down was: an
\* alert of another kind or a clean-up never swallows it (observability_manager.py:290-324).
\* The history is bounded, so only a message of this moment is looked at.
AlertedInTime ==
  (toxicAt.on /\ toxicAt.at = now) => \E i \in DOMAIN alertHistory :
    /\ alertHistory[i].type = "high_toxicity"
    /\ alertHistory[i].at = toxicAt.at \/ toxicAt.at - alertHistory[i].at < toxicAt.cooldown

\* Alerts are raised neither too often nor too seldom, and stay as long as they
\* should, whatever is cleaned up or reconfigured in between.
AlertsKept == [][AlertsApart' /\ AlertedInTime' /\ UnresolvedStay]_vars

\* The probes agree (HealthMonitor).
Probes == Health!ProbesAgree
=============================================================================
