---------------------------- MODULE HealthMonitor ----------------------------
(***************************************************************************)
(* features/monitoring/health_monitor.py: checks of five components that   *)
(* run at once and await, the answer kept for a while, and the probes that *)
(* read it. A probe that finds no recent answer assumes health.            *)
(***************************************************************************)
EXTENDS Naturals, FiniteSets

CONSTANTS
  Capacity,            \* max_concurrent of the store
  CacheLife,           \* _health_check_cache_ttl
  MaxChecks            \* bound on checks under way

VARIABLES
  time,
  stored,              \* emails in the store the monitor was given
  checks,              \* checks under way: what the store looked like to each
  lastCheck            \* _last_health_check

healthVars == <<stored, checks, lastCheck>>

Critical == {"database", "memory_manager", "llm_analyzer"}
Components == Critical \cup {"email_delivery", "background_tasks"}
NoCheck == [at |-> 0, on |-> FALSE, status |-> [c \in Components |-> "healthy"]]

HealthInit ==
  /\ stored = 0
  /\ checks = {}
  /\ lastCheck = NoCheck

\* MemoryManagerHealthCheck: above nine tenths is degraded, and the branch for
\* more than that is never reached; a store of no capacity cannot be divided by.
MemoryStatus ==
  CASE Capacity = 0 -> "unhealthy"
    [] Capacity > 0 /\ 10 * stored > 9 * Capacity -> "degraded"
    [] OTHER -> "healthy"

\* Seeded fault: a delivery service that does not answer is unhealthy.
StrictAnswers(c) == {"healthy", "unhealthy"}

\* What the other checks may find. The background tasks are always said to have
\* run 45 seconds ago.
CheckAnswers(c) ==
  CASE c \in {"database", "llm_analyzer"} -> {"healthy", "unhealthy"}
    [] c = "email_delivery" -> {"healthy", "degraded"}
    [] OTHER -> {"healthy"}

\* check_all_components_async: the store is asked before the first await.
BeginCheck ==
  /\ Cardinality(checks) < MaxChecks
  /\ checks' = checks \cup {[memory |-> MemoryStatus, at |-> time]}
  /\ UNCHANGED <<stored, lastCheck>>

EndCheck(c) ==
  /\ checks' = checks \ {c}
  /\ \E status \in [Components -> {"healthy", "degraded", "unhealthy"}] :
       /\ status["memory_manager"] = c.memory
       /\ \A d \in Components \ {"memory_manager"} : status[d] \in CheckAnswers(d)
       /\ lastCheck' = [at |-> time, on |-> TRUE, status |-> status]
  /\ UNCHANGED stored

StoreChanges ==
  /\ stored' \in 0 .. Capacity
  /\ UNCHANGED <<checks, lastCheck>>

HealthStep ==
  \/ BeginCheck
  \/ \E c \in checks : EndCheck(c)
  \/ StoreChanges

\* get_overall_health.
OverallHealth ==
  IF lastCheck.on /\ time - lastCheck.at < CacheLife THEN lastCheck.status ELSE NoCheck.status

\* HealthCheckResult.__post_init__.
FailedComponents(status) == {c \in Components : status[c] = "unhealthy"}
IsHealthy(status) == FailedComponents(status) = {}

\* get_readiness_status.
Ready(status) == \A c \in Critical : status[c] # "unhealthy"
-----------------------------------------------------------------------------
\* The readiness probe, which looks at the critical components, and the overall
\* verdict, which looks at all, never contradict each other: what is not critical
\* can at worst be degraded (health_monitor.py:437-483, 53-72).
ProbesAgree == Ready(OverallHealth) = IsHealthy(OverallHealth)
=============================================================================
