--------------------------- MODULE MetricsCollector ---------------------------
(***************************************************************************)
(* features/monitoring/metrics_collector.py. A message is known by a hash  *)
(* of its id with a salt that changes every so often; a change between the *)
(* reception of a message and its completion leaves a state behind that no *)
(* later call can find. Every method holds one lock, so it is one step.    *)
(***************************************************************************)
EXTENDS Integers, FiniteSets, Sequences, FiniteSetsExt, SequencesExt

CONSTANTS
  Messages,
  Scores,              \* toxicity in tenths
  Durations,           \* of API calls
  RotationInterval,    \* an hour
  MaxStates,           \* max_processing_states
  MaxMeasurements,     \* measurements and API calls kept: 1000
  RecentCalls,         \* 5 minutes
  LastTime             \* bound on the clock

ASSUME MetricsAssumption ==
  {RotationInterval, MaxStates, MaxMeasurements, RecentCalls, LastTime} \subseteq Nat

VARIABLES
  now,
  salt,                \* the salt: the time it was made
  states,              \* _processing_states
  email,               \* EmailProcessingMetrics
  security,            \* SecurityMetrics
  performance,         \* PerformanceMetrics
  balance              \* history: receptions less counted completions of a message

metricsVars == <<salt, states, email, security, performance, balance>>

Actions == {"SAFE", "TOXIC", "REDIRECT", "CONTEXT"}
CacheTypes == {"analysis"}
Never == 999           \* min_processing_time_ms before the first measurement

MetricsInit ==
  /\ salt = 0
  /\ states = {}
  /\ email = [total |-> 0, safe |-> 0, toxic |-> 0, redirected |-> 0,
              times |-> <<>>, least |-> Never, most |-> 0]
  /\ security = [detected |-> 0, high |-> 0, violations |-> 0, blocked |-> {},
                 failures |-> 0, signatures |-> <<0, 0>>]
  /\ performance = [calls |-> <<>>, succeeded |-> <<0, 0>>, hits |-> 0, misses |-> 0]
  /\ balance = [m \in Messages |-> 0]

\* _hash_sensitive_data: the salt that a call made now hashes with.
CurrentSalt == IF now - salt > RotationInterval THEN now ELSE salt

Key(m) == <<CurrentSalt, m>>
StateOf(m) == {s \in states : s.key = Key(m)}

\* The last n of a sequence.
Newest(seq, n) == IF Len(seq) > n THEN SubSeq(seq, Len(seq) - n + 1, Len(seq)) ELSE seq

\* _cleanup_old_states: half of the states, the newest; of those received at the
\* same time, any.
Cleaned(S) ==
  IF Cardinality(S) <= MaxStates THEN {S}
  ELSE {K \in SUBSET S : /\ Cardinality(K) = (MaxStates + 1) \div 2
                         /\ \A k \in K, s \in S \ K : s.at <= k.at}

RecordEmailReceived(m) ==
  /\ salt' = CurrentSalt
  /\ \E K \in Cleaned(states) :
       states' = {s \in K : s.key # Key(m)} \cup {[key |-> Key(m), at |-> now, start |-> Never]}
  /\ balance' = [balance EXCEPT ![m] = @ + 1]
  /\ UNCHANGED <<email, security, performance>>

RecordProcessingStart(m) ==
  /\ salt' = CurrentSalt
  /\ states' = (states \ StateOf(m)) \cup {[s EXCEPT !.start = now] : s \in StateOf(m)}
  /\ UNCHANGED <<email, security, performance, balance>>

Smaller(a, b) == IF a < b THEN a ELSE b
Larger(a, b) == IF a < b THEN b ELSE a

\* EmailProcessingMetrics.add_processing_time.
WithTime(e, t) ==
  [e EXCEPT !.times = Newest(Append(@, t), MaxMeasurements),
            !.least = Smaller(@, t), !.most = Larger(@, t)]

\* A redirected message counts as a toxic one: the branch that would count it as
\* redirected is never reached.
Counted(e, action) ==
  [e EXCEPT !.total = @ + 1,
            !.safe = IF action = "SAFE" THEN @ + 1 ELSE @,
            !.toxic = IF action \in {"TOXIC", "REDIRECT"} THEN @ + 1 ELSE @]

HighToxicity(sec) == [sec EXCEPT !.detected = @ + 1, !.high = @ + 1]

\* Seeded fault: the state of a completed message stays.
CompleteAndKeep(found, m, action, score) ==
  /\ UNCHANGED <<states, security>>
  /\ email' = IF found = {} THEN email ELSE Counted(email, action)
  /\ balance' = [balance EXCEPT ![m] = IF found = {} THEN @ ELSE @ - 1]

\* The rest of record_processing_complete, for the state that was found, if any.
Complete(found, m, action, score) ==
  /\ states' = states \ found
  /\ IF found = {} THEN UNCHANGED <<email, security, balance>>
     ELSE /\ \E s \in found :
               email' = Counted(IF s.start = Never THEN email ELSE WithTime(email, now - s.start),
                                action)
          /\ security' = IF action \in {"TOXIC", "REDIRECT"} /\ score > 8
                         THEN HighToxicity(security) ELSE security
          /\ balance' = [balance EXCEPT ![m] = @ - 1]

RecordProcessingComplete(m, action, score) ==
  /\ salt' = CurrentSalt
  /\ Complete(StateOf(m), m, action, score)
  /\ UNCHANGED performance

RecordToxicEmailDetected(score) ==
  /\ security' = IF score > 8 THEN HighToxicity(security)
                 ELSE [security EXCEPT !.detected = @ + 1]
  /\ UNCHANGED <<salt, states, email, performance, balance>>

\* record_api_call: the rate is of the calls of the last minutes.
RecordApiCall(duration, ok) ==
  LET calls == Newest(Append(performance.calls, [took |-> duration, ok |-> ok, at |-> now]),
                      MaxMeasurements)
      Recent(c) == c.at + RecentCalls > now
      recent == SelectSeq(calls, Recent)
      Good(c) == c.ok
  IN  /\ performance' = [performance EXCEPT !.calls = calls,
                           !.succeeded = IF recent = <<>> THEN @
                                         ELSE <<Len(SelectSeq(recent, Good)), Len(recent)>>]
      /\ UNCHANGED <<salt, states, email, security, balance>>

RecordCache(hit) ==
  /\ performance' = IF hit THEN [performance EXCEPT !.hits = @ + 1]
                    ELSE [performance EXCEPT !.misses = @ + 1]
  /\ UNCHANGED <<salt, states, email, security, balance>>

\* record_rate_limit_exceeded: an address is listed once for each salt.
RecordRateLimitExceeded(ip) ==
  /\ salt' = CurrentSalt
  /\ security' = [security EXCEPT !.violations = @ + 1, !.blocked = @ \cup {Key(ip)}]
  /\ UNCHANGED <<states, email, performance, balance>>

RecordSecurity ==
  /\ security' \in {[security EXCEPT !.failures = @ + 1],
                    [security EXCEPT !.signatures[1] = @ + 1],
                    [security EXCEPT !.signatures[2] = @ + 1]}
  /\ UNCHANGED <<salt, states, email, performance, balance>>

StatesStep(messages, actions, scores) ==
  \E m \in messages :
    \/ RecordEmailReceived(m)
    \/ RecordProcessingStart(m)
    \/ \E a \in actions, s \in scores : RecordProcessingComplete(m, a, s)

CountersStep ==
  \/ \E m \in Messages : RecordRateLimitExceeded(m)
  \/ \E s \in Scores : RecordToxicEmailDetected(s)
  \/ \E d \in Durations, ok \in BOOLEAN : RecordApiCall(d, ok)
  \/ \E hit \in BOOLEAN : RecordCache(hit)
  \/ RecordSecurity
-----------------------------------------------------------------------------
\* What has to hold.

\* States of messages that are never completed, or whose state no call can find since the
\* salt changed, do not accumulate (metrics_collector.py:138-149).
StatesStayBounded == Cardinality(states) <= MaxStates + 1

\* A message is counted at most once for each reception, however often its
\* completion is recorded and whatever the salt (metrics_collector.py:172-218).
CountedOnce == \A m \in Messages : balance[m] >= 0

\* The mean is of the last measurements and the extremes are of all: it stays
\* between them, and counts of kinds stay within the total (metrics_collector.py:43-51).
AverageBetweenExtremes ==
  /\ \A i \in DOMAIN email.times : email.least <= email.times[i] /\ email.times[i] <= email.most
  /\ email.safe + email.toxic + email.redirected <= email.total

\* What the collector keeps agrees with what it was told, across rotations of the
\* salt, evictions and repeated calls (metrics_collector.py:34-218).
MetricsAddUp == StatesStayBounded /\ CountedOnce /\ AverageBetweenExtremes
=============================================================================
