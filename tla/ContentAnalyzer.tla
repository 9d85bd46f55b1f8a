--------------------------- MODULE ContentAnalyzer ---------------------------
(***************************************************************************)
(* ContentAnalysisService with the AnalysisCacheService before it: a       *)
(* keyword analysis first, the model only for what that finds suspicious   *)
(* (hybrid), or the model always (traditional). Every answer is cached for *)
(* a time that its classification decides.                                 *)
(*                                                                         *)
(* A text is the record [raw, norm, words, marks]: itself, what is left of *)
(* it in lower case and trimmed, the horsemen whose keywords it has, and   *)
(* its marks: "business" (newsletter, invoice ...), which the analysis and *)
(* the cache both look for, "courtesy" (thank you for ...), only the       *)
(* analysis, and "delivery", only the cache.                               *)
(***************************************************************************)
EXTENDS AnalysisClock, FiniteSets, Functions

CONSTANTS Texts, Senders,
          Replies,      \* what the model may answer: see CallAiService
          Ttl,          \* the lifetime of an entry by category
          MaxRequests   \* bound: calls in one behaviour
ASSUME TtlAssumption ==
  /\ Ttl \in [{"safe_business", "safe_personal", "suspicious", "harmful"} -> Nat]
  /\ Ttl["harmful"] < Ttl["suspicious"] /\ Ttl["suspicious"] < Ttl["safe_personal"]
  /\ Ttl["safe_personal"] < Ttl["safe_business"]
\* The keywords are looked for in the text the key is made of.
ASSUME TextsAssumption ==
  \A s, t \in Texts : s.norm = t.norm => s.words = t.words /\ s.marks = t.marks

VARIABLES kept,         \* _cache: key to entry, for the keys it holds
          stats,        \* _cache_stats
          answer        \* what the latest call returned

analyzerVars == <<kept, stats, answer>>

Absent == "absent"

(***************************************************************************)
(* The two analyses.                                                       *)
(***************************************************************************)
Found(class, horsemen) == [class |-> class, horsemen |-> horsemen]

\* _fallback_analysis: a safe mark ends it before any keyword is looked for.
SafelyMarked(t) == t.marks \cap {"business", "courtesy"} # {}
FallbackAnalysis(t) ==
  CASE SafelyMarked(t) -> Found("SAFE", {})
    [] ~ SafelyMarked(t) /\ (Cardinality(t.words) >= 2 \/ "contempt" \in t.words) -> Found("ABUSIVE", t.words)
    [] ~ SafelyMarked(t) /\ Cardinality(t.words) = 1 /\ "contempt" \notin t.words
         -> Found("HARMFUL", t.words)
    [] OTHER -> Found("SAFE", {})

\* _call_ai_service: a reply is [kind, class, horsemen], its kind "down" when
\* there is none, else "object" or "malformed". An object without a class is SAFE,
\* a malformed reply without one HARMFUL; a class not in the list passes only
\* from an object.
Classes == {"SAFE", "WARNING", "HARMFUL", "ABUSIVE"}
CallAiService(r) ==
  IF r.kind = "object" THEN Found(IF r.class = Absent THEN "SAFE" ELSE r.class, r.horsemen)
  ELSE Found(IF r.class \in Classes THEN r.class ELSE "HARMFUL", r.horsemen)

CacheKey(t, sender) == <<t.norm, sender>>

\* Seeded fault: only what is abusive counts as harmful.
CategoryOfHarmful(class, t) ==
  CASE class = "SAFE" -> "safe_personal" [] class = "ABUSIVE" -> "harmful" [] OTHER -> "suspicious"
CacheCategory(class, t) ==
  CASE class = "SAFE" -> IF t.marks \cap {"business", "delivery"} # {} THEN "safe_business" ELSE "safe_personal"
    [] class = "WARNING" -> "suspicious"
    [] OTHER -> "harmful"

Valid(k) == k \in DOMAIN kept /\ now < kept[k].expires

CacheAnalysis(t, sender, found, source) ==
  LET k == CacheKey(t, sender)
      entry == [found |-> found, source |-> source, at |-> now,
                expires |-> now + Ttl[CacheCategory(found.class, t)]]
  IN kept' = [j \in DOMAIN kept \cup {k} |-> IF j = k THEN entry ELSE kept[j]]

Answer(t, sender, found, source, age) ==
  answer' = [text |-> t, sender |-> sender, found |-> found, source |-> source, age |-> age]

AnalyzerInit ==
  /\ kept = [k \in {} |-> [found |-> Found("SAFE", {}), source |-> "local", at |-> 0, expires |-> 0]]
  /\ stats = [hits |-> 0, misses |-> 0]
  /\ answer = [text |-> CHOOSE t \in Texts : TRUE, sender |-> Absent, found |-> Found("SAFE", {}),
               source |-> Absent, age |-> 0]

(***************************************************************************)
(* analyze_content. Both ways look into the one cache first.               *)
(***************************************************************************)
GetCachedAnalysis(t, sender) ==
  LET k == CacheKey(t, sender)
  IN /\ Valid(k)
     /\ stats' = [stats EXCEPT !.hits = stats.hits + 1]
     /\ Answer(t, sender, kept[k].found, kept[k].source, now - kept[k].at)
     /\ UNCHANGED kept

Analysed(t, sender, found, source) ==
  /\ ~ Valid(CacheKey(t, sender))
  /\ stats' = [stats EXCEPT !.misses = stats.misses + 1]
  /\ CacheAnalysis(t, sender, found, source)
  /\ Answer(t, sender, found, source, 0)

LooksSafe(t) == FallbackAnalysis(t) = Found("SAFE", {})

AnalyzeHybrid(t, sender) ==
  \/ GetCachedAnalysis(t, sender)
  \/ LooksSafe(t) /\ Analysed(t, sender, FallbackAnalysis(t), "local")
  \/ /\ ~ LooksSafe(t)
     /\ \E r \in Replies :
          IF r.kind = "down" THEN Analysed(t, sender, FallbackAnalysis(t), "hybrid_fallback")
          ELSE Analysed(t, sender, CallAiService(r), "model")

AnalyzeTraditional(t, sender) ==
  \/ GetCachedAnalysis(t, sender)
  \/ \E r \in Replies :
       IF r.kind = "down" THEN Analysed(t, sender, FallbackAnalysis(t), "traditional_fallback")
       ELSE Analysed(t, sender, CallAiService(r), "model")

AnalyzeContent(t, sender) ==
  /\ stats.hits + stats.misses < MaxRequests
  /\ AnalyzeHybrid(t, sender) \/ AnalyzeTraditional(t, sender)
  /\ UNCHANGED now

CleanupExpiredEntries ==
  /\ kept' = Restrict(kept, {k \in DOMAIN kept : Valid(k)})
  /\ UNCHANGED <<now, stats, answer>>

ClearCache ==
  /\ kept' = Restrict(kept, {})
  /\ UNCHANGED <<now, stats, answer>>

AnalyzerNext ==
  CleanupExpiredEntries \/ ClearCache \/ \E t \in Texts, s \in Senders : AnalyzeContent(t, s)

(***************************************************************************)
(* Properties.                                                             *)
(***************************************************************************)
Harmless == {"SAFE", "WARNING"}

\* What was judged harmful is judged afresh after the shortest lifetime, and no
\* judgement outlives its own: an answer from the cache is younger than the
\* lifetime of the class it carries (get_cached_analysis, whoever stored it).
JudgementsAge ==
  answer.source # Absent /\ answer.age > 0 =>
    /\ answer.found.class \notin Harmless => answer.age < Ttl["harmful"]
    /\ answer.found.class = "WARNING" => answer.age < Ttl["suspicious"]
    /\ answer.age < Ttl["safe_business"]

\* A judgement made in hybrid mode while the model was down is a stopgap ("Cache
\* the fallback result briefly"): it is always one of the short-lived ones.
StopgapsBrief ==
  \A k \in DOMAIN kept :
    kept[k].source = "hybrid_fallback" => kept[k].expires - kept[k].at <= Ttl["harmful"]

\* One sender's judgement never answers for another, and the answer for a text was
\* made of a text that differs at most in case and outer blanks: the local
\* judgement of such a text never changes with whose cache entry it met.
NotMixedUp ==
  answer.source \in {"local", "hybrid_fallback", "traditional_fallback"} =>
    answer.found = FallbackAnalysis(answer.text)

\* A step that answers from the cache only repeats what was stored for that very
\* sender: at every hit the entry of that sender is there, before and after.
SendersApart ==
  stats'.hits > stats.hits =>
    \E k \in DOMAIN kept : k[2] = answer'.sender /\ kept[k].found = answer'.found
                           /\ kept[k].at = now - answer'.age

\* A cached judgement answers for its own text and sender only, and no longer than
\* its class and its making allow (analysis_cache.py, content_analyzer.py:58-110).
JudgementsFit ==
  [][JudgementsAge' /\ StopgapsBrief' /\ NotMixedUp' /\ SendersApart]_<<now, analyzerVars>>
=============================================================================
