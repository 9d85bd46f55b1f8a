--------------------------- MODULE AnalyzerBridge ---------------------------
(***************************************************************************)
(* LLMAnalyzerBridge: one interface before a local model and a cloud one,  *)
(* with a cache of results, a fallback from the cloud to the local model,  *)
(* and a default when both fail. Time is a counter the compositions move.  *)
(***************************************************************************)
EXTENDS AnalysisClock, FiniteSets, Functions

CONSTANTS Contents,     \* the texts analysed
          CacheTtl,     \* cache_ttl_seconds
          CacheLimit,   \* entries above which the cache is cut (1000)
          CacheKeep,    \* entries a cut keeps (900)
          MaxAnalyses   \* bound: calls in one behaviour
ASSUME BridgeAssumption == CacheTtl \in Nat /\ CacheKeep \in Nat /\ CacheLimit \in Nat
                           /\ CacheKeep <= CacheLimit /\ MaxAnalyses \in Nat

VARIABLES bridge,       \* mode, switches and the two analysers made for them
          entries,      \* the cache: text to [result, at], for the texts it holds
          metrics,      \* _metrics
          reply         \* what the latest call returned, and the age of its answer

bridgeVars == <<bridge, entries, metrics, reply>>

None == "none"
\* A result is the record [action, source]: "SAFE" or "TOXIC", from the "cloud",
\* the "llama", or the "default" of the bridge. The empty object is a result of the
\* llama too, and so is the SAFE it answers with an error when its model fails.
Result(action, source) == [action |-> action, source |-> source]
Default == Result("SAFE", "default")
EmptyObject == Result("empty", "llama")
LocalDefault == Result("SAFE", "llama error")

(***************************************************************************)
(* _create_analyzer: what exists decides. A cloud analyser that cannot be  *)
(* made is replaced by the local one, the mode stays.                      *)
(***************************************************************************)
AnalyzerFor(mode, cloud, local) ==
  CASE mode = "cloud" /\ cloud -> "cloud"
    [] local -> "llama"
    [] OTHER -> None

Made(mode, fallback, caching, cloud, local) ==
  [mode |-> mode, fallback |-> fallback, caching |-> caching,
   primary |-> AnalyzerFor(mode, cloud, local),
   secondary |-> IF fallback /\ mode # "privacy"
                 THEN AnalyzerFor("privacy", cloud, local) ELSE None]

BridgeInit ==
  /\ \E mode \in {"privacy", "cloud"}, fallback, caching, cloud, local \in BOOLEAN :
       bridge = Made(mode, fallback, caching, cloud, local)
  /\ entries = [c \in {} |-> [result |-> Default, at |-> 0]]
  /\ metrics = [total |-> 0, hits |-> 0, misses |-> 0, fallbacks |-> 0, errors |-> 0]
  /\ reply = [content |-> None, result |-> Default, age |-> 0, cached |-> FALSE]

(***************************************************************************)
(* What an analyser may answer in a mode; the empty set: it raises. When   *)
(* its model fails the local one answers its own default, the cloud one    *)
(* TOXIC.                                                                  *)
(***************************************************************************)
PrivacyAnswers == {Result("SAFE", "llama"), Result("TOXIC", "llama"), EmptyObject, LocalDefault}
CloudAnswers == {Result("SAFE", "cloud"), Result("TOXIC", "cloud")}
AnalyzeWithMode(mode, analyzer) ==
  CASE analyzer = None -> {Default}
    [] mode = "privacy" /\ analyzer = "llama" -> PrivacyAnswers
    [] mode = "cloud" /\ analyzer = "cloud" -> CloudAnswers
    [] OTHER -> {}                       \* the llama has no analyze_email
\* Besides, a call of the cloud may run into the thirty seconds it is given.
MayRaise(mode, analyzer) == analyzer # None /\ mode = "cloud"

Expired(c) == now - entries[c].at >= CacheTtl

\* _get_cached_result; an empty result is stored but counts as none.
Cached(c) == c \in DOMAIN entries /\ ~ Expired(c)
Lookup(c) == IF c \in DOMAIN entries /\ Expired(c)
             THEN Restrict(entries, DOMAIN entries \ {c}) ELSE entries
Usable(c) == bridge.caching /\ Cached(c) /\ entries[c].result # EmptyObject

\* _cache_result: store, sweep the expired entries, cut to the newest. Which of
\* several entries of one instant a cut keeps is left open.
Newest(f, S) ==
  /\ Cardinality(S) = CacheKeep
  /\ \A c \in S, d \in DOMAIN f \ S : f[c].at >= f[d].at
Swept(f) == Restrict(f, {c \in DOMAIN f : now - f[c].at < CacheTtl})
StoredIn(f, c, r) ==
  Swept([d \in DOMAIN f \cup {c} |-> IF d = c THEN [result |-> r, at |-> now] ELSE f[d]])
CacheResult(c, r) ==
  IF ~ bridge.caching THEN UNCHANGED entries
  ELSE LET f == StoredIn(Lookup(c), c, r)
       IN IF Cardinality(DOMAIN f) > CacheLimit
          THEN \E S \in SUBSET DOMAIN f : Newest(f, S) /\ entries' = Restrict(f, S)
          ELSE entries' = f

Miss(m) == [m EXCEPT !.total = m.total + 1,
                     !.misses = IF bridge.caching THEN m.misses + 1 ELSE m.misses]
Reply(c, r, age, cached) ==
  reply' = [content |-> c, result |-> r, age |-> age, cached |-> cached]

AnswerFromCache(c) ==
  /\ Usable(c)
  /\ metrics' = [metrics EXCEPT !.total = metrics.total + 1, !.hits = metrics.hits + 1]
  /\ Reply(c, entries[c].result, now - entries[c].at, TRUE)
  /\ UNCHANGED entries

AnswerFromPrimary(c) ==
  /\ ~ Usable(c)
  /\ \E r \in AnalyzeWithMode(bridge.mode, bridge.primary) :
       CacheResult(c, r) /\ Reply(c, r, 0, FALSE)
  /\ metrics' = Miss(metrics)

\* Seeded fault: the default is stored too.
AnswerAfterErrorStored(c) ==
  /\ ~ Usable(c)
  /\ MayRaise(bridge.mode, bridge.primary)
  /\ CacheResult(c, Default) /\ Reply(c, Default, 0, FALSE)
  /\ metrics' = [Miss(metrics) EXCEPT !.errors = metrics.errors + 1]

\* The primary analyser raises; the fallback's result is stored, even its answer to
\* an error, the default of the bridge not.
AnswerAfterError(c) ==
  /\ ~ Usable(c)
  /\ MayRaise(bridge.mode, bridge.primary)
  /\ IF bridge.secondary # None
     THEN /\ \E r \in AnalyzeWithMode("privacy", bridge.secondary) :
               CacheResult(c, r) /\ Reply(c, r, 0, FALSE)
          /\ metrics' = [Miss(metrics) EXCEPT !.errors = metrics.errors + 1,
                                              !.fallbacks = metrics.fallbacks + 1]
     ELSE /\ entries' = IF bridge.caching THEN Lookup(c) ELSE entries
          /\ Reply(c, Default, 0, FALSE)
          /\ metrics' = [Miss(metrics) EXCEPT !.errors = metrics.errors + 1]

AnalyzeToxicity(c) ==
  /\ metrics.total < MaxAnalyses
  /\ AnswerFromCache(c) \/ AnswerFromPrimary(c) \/ AnswerAfterError(c)
  /\ UNCHANGED <<now, bridge>>

ClearBridge ==
  /\ entries' = Restrict(entries, {})
  /\ UNCHANGED <<now, bridge, metrics, reply>>

BridgeNext == ClearBridge \/ \E c \in Contents : AnalyzeToxicity(c)

(***************************************************************************)
(* Properties.                                                             *)
(***************************************************************************)
\* The cache never holds more than its limit: a store that passes it is followed
\* by the cut within the same call (_cache_result).
CacheBounded == Cardinality(DOMAIN entries) <= CacheLimit

\* No answer is older than the lifetime of an entry, whether the entry was swept,
\* replaced or only found expired by the call itself.
AnswersFresh == reply.cached => reply.age < CacheTtl

\* The default given when every analyser raised is never remembered as if it were an
\* analysis; only a bridge without any analyser stores it. The SAFE of a local model
\* that failed is remembered like an analysis (llama_analyzer.py:114-125), but only
\* by a bridge that asks it: in privacy mode, or as a fallback.
AsksLocal == bridge.secondary = "llama" \/ (bridge.mode = "privacy" /\ bridge.primary = "llama")
MayRemember(r) == (r = Default => bridge.primary = None) /\ (r = LocalDefault => AsksLocal)
DefaultsRemembered == \A c \in DOMAIN entries : MayRemember(entries[c].result)

\* Every call is a hit or a miss, every fallback was an error, every error a miss.
CallsAddUp ==
  /\ bridge.caching => metrics.total = metrics.hits + metrics.misses
  /\ metrics.fallbacks <= metrics.errors
  /\ metrics.errors <= metrics.total - metrics.hits

\* The cache in front of the analysers keeps what they answered, as long as it may,
\* and the counters say what became of every call (llm_analyzer_bridge.py:151-330).
BridgeKeepsItsWord == CacheBounded /\ AnswersFresh /\ DefaultsRemembered /\ CallsAddUp
=============================================================================
