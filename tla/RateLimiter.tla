---------------------------- MODULE RateLimiter ----------------------------
(***************************************************************************)
(* features/security/rate_limiter.py: how many requests per window a       *)
(* client may make to an endpoint. check_limit runs under one lock, so a   *)
(* check is one step; what is hard is that an answer depends on counters   *)
(* that expire, on a local cache of earlier answers that are not counted   *)
(* again, on limits that change while both are in use, and on a Redis      *)
(* store whose every error reads as zero. Time is counted in seconds.      *)
(***************************************************************************)
EXTENDS SecurityClock, Sequences, FiniteSets, FiniteSetsExt, Functions

CONSTANTS
  Clients, Endpoints,
  Rates,          \* requests per minute an endpoint may be configured with
  Loads,          \* load factors, in percent
  DefaultRate,    \* 60 in the code
  WindowSize,     \* seconds of a window (60 by default)
  CacheLife,      \* an answer is repeated for less than this long (1)
  CacheExpiry,    \* a clean-up forgets cached answers older than this (60)
  CacheSize,      \* cache_size (10000)
  CacheSlack,     \* how many more answers go when the cache is full (100)
  CleanupInterval,
  ViolationLife,  \* a clean-up keeps violations this long (24 hours)
  MaxViolations,  \* 1000 in the code
  BucketLife,     \* expiry of the token bucket's counters (3600)
  WindowKept      \* entries Redis keeps of a window (1000)

ASSUME RateAssumption ==
  /\ Rates \subseteq Nat /\ Loads \subseteq Nat /\ DefaultRate \in Nat
  /\ {WindowSize, CacheLife, CacheExpiry, CacheSize, CacheSlack,
      CleanupInterval, ViolationLife, MaxViolations, BucketLife} \subseteq Nat
  /\ WindowKept \in Nat \ {0}

VARIABLES
  strategy,      \* chosen when the limiter is built
  distributed,   \* whether the counters are Redis's
  limits,        \* endpoint -> its configuration, once it has one
  load,          \* endpoint -> load factor
  counts,        \* <<client, endpoint, kind>> -> counter with an expiry
  windows,       \* <<client, endpoint>> -> times of the requests in its window
  cache,         \* <<client, endpoint>> -> answer repeated for CacheLife
  violations,
  lastCleanup,
  rateStats,
  rate,          \* what the last check answered
  asked,         \* history: <<client, endpoint>> -> time of its last check
  granted        \* history: <<client, endpoint>> -> grants that were counted

rateVars == <<strategy, distributed, limits, load, counts, windows, cache,
              violations, lastCleanup, rateStats, rate, asked, granted>>

Strategies == {"token_bucket", "sliding_window", "fixed_window"}
Keys == Clients \X Endpoints
Zero == [count |-> 0, expires |-> 0]
Answer(ok, left, wait, limit) ==
  [allowed |-> ok, remaining |-> left, retry |-> wait, limit |-> limit]
Permissive == Answer(TRUE, 100, 0, 100)
NoStats == [total |-> 0, hits |-> 0, misses |-> 0, violations |-> 0, errors |-> 0]

RateInit ==
  /\ strategy \in Strategies
  /\ distributed \in BOOLEAN
  /\ limits = <<>> /\ load = <<>>
  /\ counts = [k \in Keys \X {"fixed", "bucket", "refill"} |-> Zero]
  /\ windows = [k \in Keys |-> <<>>]
  /\ cache = <<>>
  /\ violations = <<>>
  /\ lastCleanup = 1
  /\ rateStats = NoStats
  /\ rate = Permissive
  /\ asked = [k \in Keys |-> 0 - WindowSize]
  /\ granted = [k \in Keys |-> <<>>]
-----------------------------------------------------------------------------
\* The counters and windows of the two stores.

\* InMemoryBackend.get_count; Redis forgets a key at its expiry itself.
Count(k) == IF counts[k].expires < now THEN 0 ELSE counts[k].count

\* Seeded fault: an expired counter is counted on.
NeverRestarts(k, life) == [counts[k] EXCEPT !.count = @ + 1]

\* InMemoryBackend.increment leaves the expiry of a live counter alone.
RaiseInMemory(k, life) ==
  IF counts[k].expires < now
  THEN [count |-> 1, expires |-> now + life]
  ELSE [counts[k] EXCEPT !.count = @ + 1]

\* RedisBackend.increment sets the expiry again each time.
RaiseInRedis(k, life) == [count |-> Count(k) + 1, expires |-> now + life]

Raise(k, life) == IF distributed THEN RaiseInRedis(k, life) ELSE RaiseInMemory(k, life)

\* add_to_window: the new entry, without those that left the window. Redis keeps
\* the last WindowKept of a list.
Enter(k) ==
  LET w == Append(windows[k], now)
      trimmed == IF distributed THEN {i \in DOMAIN w : i <= Len(w) - WindowKept} ELSE {}
  IN  DropThrough(w, trimmed \cup {i \in DOMAIN w : w[i] <= now - WindowSize})
-----------------------------------------------------------------------------
\* The local cache of answers.

Fresh(c, k) == k \in DOMAIN c /\ now - c[k].at < CacheLife

\* _maybe_cleanup.
CleanupDue == now - lastCleanup >= CleanupInterval
CachedAfterCleanup ==
  IF CleanupDue THEN Restrict(cache, {k \in DOMAIN cache : now - cache[k].at <= CacheExpiry})
                ELSE cache
ViolationsAfterCleanup ==
  IF CleanupDue
  THEN DropThrough(violations,
                   {i \in DOMAIN violations : violations[i].at <= now - ViolationLife})
  ELSE violations

\* The n oldest answers; those of one moment go in the order of their insertion,
\* which is left open here.
OldestSets(c, n) ==
  {S \in SUBSET DOMAIN c : /\ Cardinality(S) = n
                           /\ \A x \in S, y \in DOMAIN c \ S : c[x].at <= c[y].at}

Answered(c, k, r) ==
  [x \in DOMAIN c \cup {k} |-> IF x = k THEN [at |-> now, answer |-> r] ELSE c[x]]

\* Seeded faults: the last request of the limit is cached too; nothing is evicted.
CachesEveryGrant(c, k, r) == IF r.allowed THEN {Answered(<<>>, k, r)} ELSE {c}
NeverEvicts(c, k, r) == IF 10 * r.remaining > r.limit THEN {Answered(c, k, r)} ELSE {c}

\* _cache_result: only answers with more than a tenth of the limit left.
CachesAfter(c, k, r) ==
  IF ~(r.allowed /\ 10 * r.remaining > r.limit) THEN {c}
  ELSE LET d == Answered(c, k, r)
           size == Cardinality(DOMAIN d)
       IN  IF size <= CacheSize THEN {d}
           ELSE {Restrict(d, DOMAIN d \ S) :
                   S \in OldestSets(d, Min({size, size - CacheSize + CacheSlack}))}
-----------------------------------------------------------------------------
\* The three strategies. Each says what is answered and what is stored; up is
\* FALSE when a Redis store fails, which reads as a count of zero.

Configured(e) == IF e \in DOMAIN limits THEN limits[e] ELSE [rate |-> DefaultRate, burst |-> DefaultRate]
Factor(e) == IF e \in DOMAIN limits THEN load[e] ELSE 100
Effective(e) == (Configured(e).rate * Factor(e)) \div 100

RecordViolation(k) ==
  LET all == Append(ViolationsAfterCleanup, [key |-> k, at |-> now])
  IN  IF Len(all) > MaxViolations THEN Tail(all) ELSE all

Fixed(k, up) ==
  LET limit == Effective(k[2])
      c == <<k, "fixed">>
      n == IF up THEN Raise(c, WindowSize).count ELSE 0
  IN  /\ counts' = IF up THEN [counts EXCEPT ![c] = Raise(c, WindowSize)] ELSE counts
      /\ rate' = IF n <= limit THEN Answer(TRUE, limit - n, 0, limit)
                               ELSE Answer(FALSE, 0, WindowSize, limit)
      /\ UNCHANGED windows

Sliding(k, up) ==
  LET limit == Effective(k[2])
      w == IF up THEN Enter(k) ELSE <<>>
      n == Len(w)
      wait == Max({1, w[1] + WindowSize - now})
  IN  /\ windows' = IF up THEN [windows EXCEPT ![k] = w] ELSE windows
      /\ rate' = IF n <= limit THEN Answer(TRUE, limit - n, 0, limit)
                               ELSE Answer(FALSE, 0, wait, limit)
      /\ UNCHANGED counts

\* The time of the last refill is read from a counter of requests, so the time
\* passed is that since 1970 and refills the bucket whenever the limit is not 0.
\* With a limit of 0 the wait cannot be computed, and the error lets all pass.
Tokens(k, up) ==
  LET burst == Configured(k[2]).burst
  IN  IF ~up \/ Count(<<k, "refill">>) = 0 \/ Effective(k[2]) > 0 THEN burst
      ELSE Min({burst, Count(<<k, "bucket">>)})

Bucket(k, up) ==
  LET limit == Effective(k[2])
      tokens == Tokens(k, up)
  IN  /\ counts' = IF up /\ tokens > 0
                   THEN [counts EXCEPT ![<<k, "bucket">>] = Raise(<<k, "bucket">>, BucketLife),
                                       ![<<k, "refill">>] = Raise(<<k, "refill">>, BucketLife)]
                   ELSE counts
      /\ rate' = IF tokens > 0 THEN Answer(TRUE, tokens - 1, 0, limit)
                 ELSE IF limit = 0 THEN Permissive
                 ELSE Answer(FALSE, 0, 60 \div limit, limit)
      /\ UNCHANGED windows

Judge(k, up) ==
  \/ strategy = "fixed_window" /\ Fixed(k, up)
  \/ strategy = "sliding_window" /\ Sliding(k, up)
  \/ strategy = "token_bucket" /\ Bucket(k, up)
-----------------------------------------------------------------------------
\* The operations.

\* configure_limit: an endpoint loses its load factor.
ConfigureLimit(e, r, b) ==
  /\ limits' = [x \in DOMAIN limits \cup {e} |->
                  IF x = e THEN [rate |-> r, burst |-> IF b = 0 THEN r ELSE b] ELSE limits[x]]
  /\ load' = [x \in DOMAIN limits \cup {e} |-> IF x = e THEN 100 ELSE load[x]]
  /\ UNCHANGED <<strategy, distributed, counts, windows, cache, violations, lastCleanup,
                 rateStats, rate, asked, granted>>

\* The default configuration an unknown endpoint gets on its first check.
Introduce(e) ==
  IF e \in DOMAIN limits THEN UNCHANGED <<limits, load>>
  ELSE /\ limits' = [x \in DOMAIN limits \cup {e} |-> Configured(x)]
       /\ load' = [x \in DOMAIN limits \cup {e} |-> Factor(x)]

AdjustLimitForLoad(e, f) ==
  /\ e \in DOMAIN limits
  /\ load' = [load EXCEPT ![e] = f]
  /\ UNCHANGED <<strategy, distributed, limits, counts, windows, cache, violations,
                 lastCleanup, rateStats, rate, asked, granted>>

Repeats(k) == ~distributed /\ Fresh(CachedAfterCleanup, k)

\* check_limit, answered from the cache: nothing is counted.
CachedCheck(k) ==
  /\ Repeats(k)
  /\ rate' = CachedAfterCleanup[k].answer
  /\ cache' = CachedAfterCleanup
  /\ violations' = ViolationsAfterCleanup
  /\ lastCleanup' = IF CleanupDue THEN now ELSE lastCleanup
  /\ rateStats' = [rateStats EXCEPT !.total = @ + 1, !.hits = @ + 1]
  /\ Introduce(k[2])
  /\ UNCHANGED <<strategy, distributed, counts, windows, granted>>

\* check_limit, judged by the strategy.
CountedCheck(k) ==
  /\ ~Repeats(k)
  /\ \E up \in IF distributed THEN BOOLEAN ELSE {TRUE} :
       /\ Judge(k, up)
       /\ granted' = IF rate'.allowed /\ up /\ rate' # Permissive
                     THEN [granted EXCEPT ![k] = Append(@, [at |-> now, limit |-> rate'.limit])]
                     ELSE granted
  /\ LET refused == ~rate'.allowed
         failed == rate' = Permissive
         stale == Restrict(CachedAfterCleanup, DOMAIN CachedAfterCleanup \ {k})
     IN  /\ violations' = IF refused \/ failed THEN RecordViolation(k) ELSE ViolationsAfterCleanup
         /\ cache' \in IF distributed THEN {CachedAfterCleanup}
                       ELSE IF failed THEN {stale} ELSE CachesAfter(stale, k, rate')
         /\ rateStats' = [rateStats EXCEPT
                            !.total = @ + 1,
                            !.misses = IF distributed THEN @ ELSE @ + 1,
                            !.violations = IF refused \/ failed THEN @ + 1 ELSE @,
                            !.errors = IF failed THEN @ + 1 ELSE @]
  /\ lastCleanup' = IF CleanupDue THEN now ELSE lastCleanup
  /\ Introduce(k[2])
  /\ UNCHANGED <<strategy, distributed>>

CheckLimit(k) ==
  /\ CachedCheck(k) \/ CountedCheck(k)
  /\ asked' = [asked EXCEPT ![k] = now]

ResetStats ==
  /\ rateStats # NoStats
  /\ rateStats' = NoStats
  /\ UNCHANGED <<strategy, distributed, limits, load, counts, windows, cache, violations,
                 lastCleanup, rate, asked, granted>>
-----------------------------------------------------------------------------
\* What has to hold.

Used(k) == IF strategy = "fixed_window" THEN Count(<<k, "fixed">>) ELSE Len(Enter(k)) - 1

\* An answer repeated from the cache is one the counter would give now: repeats
\* are not counted (rate_limiter.py:305-310), so this is all that keeps them
\* within the limit. After a limit was lowered the cached answers outlive it.
CachedAnswersStillFit ==
  \A k \in DOMAIN cache :
    (/\ Fresh(cache, k) /\ strategy # "token_bucket"
     /\ Effective(k[2]) >= cache[k].answer.limit)
      => Used(k) + 1 <= Effective(k[2])

\* However requests, refusals, cached answers and changes of the limit follow
\* each other, the counted grants of one window's length stay within the limit
\* for a sliding window and within twice the highest for a fixed one, at whose
\* boundary two windows meet (rate_limiter.py:383-447). A sliding window in Redis
\* knows WindowKept requests and cannot enforce a limit that high
\* (rate_limiter.py:190).
GrantsStayWithinLimit ==
  \A k \in Keys : granted[k] # <<>> =>
    LET g == granted[k]
        last == g[Len(g)]
        inWindow == {i \in DOMAIN g : g[i].at > last.at - WindowSize}
    IN  /\ strategy = "sliding_window" =>
             \/ Cardinality(inWindow) <= last.limit
             \/ distributed /\ WindowKept <= last.limit
        /\ strategy = "fixed_window" =>
             Cardinality(inWindow) <= 2 * Max({0} \cup {g[i].limit : i \in inWindow})

\* The grants that are counted fit the limit, and what is repeated without being
\* counted would have fitted when it was repeated (rate_limiter.py:285-447). It
\* does not say that no more requests than the limit pass: in the CacheLife after
\* a counted grant with room to spare any number of them does
\* (rate_limiter.py:305-310), and so does every request whose Redis call fails.
CountedGrantsFit == CachedAnswersStillFit /\ GrantsStayWithinLimit

\* A client that has asked nothing for longer than a window is let through, under
\* every strategy and whatever it was refused before.
QuietClientIsAllowed ==
  \A k \in Keys :
    (asked'[k] # asked[k] /\ now > asked[k] + WindowSize /\ Effective(k[2]) >= 1)
      => rate'.allowed
=============================================================================
