---------------------------- MODULE AnalysisProofs ----------------------------
(***************************************************************************)
(* Theorems about the decision path, the analyser bridge and the content   *)
(* analysis, for every set of emails, every answer of the model, and every *)
(* size and lifetime of the caches.                                        *)
(***************************************************************************)
EXTENDS Analysis, FiniteSetTheorems, TLAPS

-----------------------------------------------------------------------------
(* The level of a set of horsemen.                                         *)

\* The value of LevelIndex by cases, without the order of its alternatives.
LEMMA LevelIndexCases ==
  ASSUME NEW T
  PROVE  /\ T = {} => LevelIndex(T) = 1
         /\ "contempt" \in T => LevelIndex(T) = IF Cardinality(T) > 1 THEN 5 ELSE 4
         /\ T # {} /\ "contempt" \notin T =>
              LevelIndex(T) = IF Cardinality(T) >= 4 THEN 5 ELSE Cardinality(T) + 1
  BY DEF LevelIndex

\* Contempt alone decides between the two most severe levels.
LEMMA ContemptLevel ==
  ASSUME NEW T, "contempt" \in T  PROVE LevelIndex(T) \in {4, 5}
  BY LevelIndexCases

LEMMA FiniteCardinality ==
  ASSUME NEW T, IsFiniteSet(T)
  PROVE  Cardinality(T) \in Nat /\ (Cardinality(T) = 0 <=> T = {})
  BY FS_CardinalityType, FS_EmptySet

LEMMA LevelIndexRange ==
  ASSUME NEW T, IsFiniteSet(T)  PROVE LevelIndex(T) \in 1 .. 5
  BY LevelIndexCases, FiniteCardinality

\* A superset is at least as severe.
LEMMA LevelIndexMonotone ==
  ASSUME NEW S, NEW T, IsFiniteSet(T), S \subseteq T
  PROVE  LevelIndex(S) <= LevelIndex(T)
  <1>1. IsFiniteSet(S) /\ Cardinality(S) <= Cardinality(T)
    BY FS_Subset
  <1>2. Cardinality(S) \in Nat /\ Cardinality(T) \in Nat /\ (Cardinality(S) = 0 <=> S = {})
    BY <1>1, FiniteCardinality
  <1>3. CASE "contempt" \notin T \/ "contempt" \in S \/ S = {}
    BY <1>1, <1>2, <1>3, LevelIndexCases, LevelIndexRange
  <1>4. CASE "contempt" \in T /\ "contempt" \notin S /\ S # {}
    <2>1. IsFiniteSet(S \cup {"contempt"}) /\ Cardinality(S \cup {"contempt"}) = Cardinality(S) + 1
      BY <1>1, <1>4, FS_AddElement
    <2>2. Cardinality(S) + 1 <= Cardinality(T)
      BY <1>4, <2>1, FS_Subset
    <2>. QED  BY <1>2, <1>4, <2>2, LevelIndexCases
  <1>. QED  BY <1>3, <1>4

\* The significant types of a finite set of detections are finitely many.
LEMMA SignificantFinite ==
  ASSUME NEW F, IsFiniteSet(F)  PROVE IsFiniteSet(SignificantTypes(F))
  <1>. DEFINE G == {x \in F : IsSignificant(x)}
              h == [d \in G |-> d.horseman]
  <1>1. IsFiniteSet(G)
    BY FS_Subset
  <1>2. h \in Surjection(G, SignificantTypes(F))
    BY DEF Surjection, SignificantTypes
  <1>. QED  BY <1>1, <1>2, FS_Surjection

\* The actions are five different ones, in the order of their severity.
LEMMA SeverityOfAction ==
  ASSUME NEW i \in 1 .. 5  PROVE Severity(ProtectionActions[i]) = i
  BY DEF Severity, ProtectionActions

LEMMA FromHorsemenValue ==
  ASSUME NEW F, IsFiniteSet(F)
  PROVE  \E i \in 1 .. 5 : /\ LevelIndex(SignificantTypes(F)) = i
                          /\ FromHorsemen(F) = Levels[i] /\ DecideAction(F) = ProtectionActions[i]
  BY SignificantFinite, LevelIndexRange DEF FromHorsemen, DecideAction

-----------------------------------------------------------------------------
(* What the analysers find.                                                *)

IsAnalysis(an) == IsFiniteSet(an.found) /\ an.level = FromHorsemen(an.found)

LEMMA AnalysisFits == ASSUME NEW F, IsFiniteSet(F) PROVE IsAnalysis(Analysis(F))
  BY DEF IsAnalysis, Analysis

LEMMA SmallSetsFinite ==
  /\ IsFiniteSet({})
  /\ \A x : IsFiniteSet({x})
  /\ \A x, y : IsFiniteSet({x, y})
  <1>1. IsFiniteSet({}) /\ \A x : IsFiniteSet({x})
    BY FS_EmptySet, FS_Singleton
  <1>2. ASSUME NEW x, NEW y  PROVE IsFiniteSet({x, y})
    <2>1. IsFiniteSet({x} \cup {y})
      BY <1>1, FS_AddElement
    <2>2. {x} \cup {y} = {x, y}
      OBVIOUS
    <2>. QED  BY <2>1, <2>2
  <1>. QED  BY <1>1, <1>2

LEMMA ParsedFits ==
  ASSUME NEW a \in Answers, Parsed(a) # Failed  PROVE IsAnalysis(Parsed(a))
  <1>. DEFINE I == {x \in a.items : x.form # "other"}
              F == {Written(i) : i \in I}
              w == [i \in I |-> Written(i)]
  <1>1. IsFiniteSet(I)
    BY FS_Subset, DecisionsAssumption
  <1>2. w \in Surjection(I, F)
    BY DEF Surjection
  <1>3. IsFiniteSet(F)
    BY <1>1, <1>2, FS_Surjection
  <1>4. Parsed(a) \in {Analysis({}), Analysis(F), Failed}
    BY DEF Parsed
  <1>. QED  BY <1>3, <1>4, AnalysisFits, SmallSetsFinite

LEMMA MockFits == ASSUME NEW e PROVE IsAnalysis(MockAnswer(e))
  <1>1. ASSUME NEW i \in 1 .. 6  PROVE IsFiniteSet(ToxicTable[i][2])
    <2>1. /\ IsFiniteSet({D("contempt", 90), D("criticism", 80)})
          /\ IsFiniteSet({D("contempt", 95), D("criticism", 90)})
          /\ IsFiniteSet({D("contempt", 80)})
          /\ IsFiniteSet({D("criticism", 70), D("defensiveness", 60)})
          /\ IsFiniteSet({D("criticism", 65), D("stonewalling", 55)})
          /\ IsFiniteSet({D("criticism", 60)})
      BY SmallSetsFinite, Zenon
    <2>2. i = 1 \/ i = 2 \/ i = 3 \/ i = 4 \/ i = 5 \/ i = 6
      OBVIOUS
    <2>3. /\ ToxicTable[1][2] = {D("contempt", 90), D("criticism", 80)}
          /\ ToxicTable[2][2] = {D("contempt", 95), D("criticism", 90)}
          /\ ToxicTable[3][2] = {D("contempt", 80)}
          /\ ToxicTable[4][2] = {D("criticism", 70), D("defensiveness", 60)}
          /\ ToxicTable[5][2] = {D("criticism", 65), D("stonewalling", 55)}
          /\ ToxicTable[6][2] = {D("criticism", 60)}
      BY DEF ToxicTable
    <2>4. /\ IsFiniteSet(ToxicTable[1][2]) /\ IsFiniteSet(ToxicTable[2][2])
          /\ IsFiniteSet(ToxicTable[3][2]) /\ IsFiniteSet(ToxicTable[4][2])
          /\ IsFiniteSet(ToxicTable[5][2]) /\ IsFiniteSet(ToxicTable[6][2])
      BY <2>1, <2>3, ZenonT(30)
    <2>. QED  BY <2>2, <2>4
  <1>. DEFINE hits == {i \in DOMAIN ToxicTable : ToxicTable[i][1] \in Words(e)}
  <1>2a. DOMAIN ToxicTable = 1 .. 6
    BY DEF ToxicTable
  <1>2. hits \subseteq 1 .. 6
    BY <1>2a
  <1>3. hits # {} => Min(hits) \in hits
    <2>1. SUFFICES ASSUME hits # {} PROVE \E m \in hits : \A y \in hits : m <= y
      BY DEF Min
    <2>. QED  BY <2>1, <1>2
  <1>4. IsFiniteSet(IF hits = {} THEN {} ELSE ToxicTable[Min(hits)][2])
    BY <1>1, <1>2, <1>3, SmallSetsFinite, Zenon
  <1>. QED  BY <1>4, AnalysisFits DEF MockAnswer

LEMMA HeuristicsFits == ASSUME NEW e PROVE IsAnalysis(Heuristics(e))
  <1>. DEFINE contempt == Words(e) \cap {"worthless", "pathetic", "disgusting", "loser", "idiot"}
              criticism == Words(e) \cap {"terrible", "awful", "stupid", "incompetent"}
              mild == Words(e) \cap {"annoying", "frustrating", "disappointing"}
              strong == (IF contempt # {} THEN {D("contempt", 80)} ELSE {})
                        \cup (IF criticism # {} THEN {D("criticism", 70)} ELSE {})
              F == IF strong = {} /\ mild # {} THEN {D("criticism", 50)} ELSE strong
  <1>1. strong \in {{}, {D("contempt", 80)}, {D("criticism", 70)},
                   {D("contempt", 80), D("criticism", 70)}}
    <2>. HIDE DEF contempt, criticism
    <2>. QED  OBVIOUS
  <1>2. IsFiniteSet(F) /\ Heuristics(e) = Analysis(F)
    <2>1. Heuristics(e) = Analysis(F)
      BY Zenon DEF Heuristics
    <2>. HIDE DEF strong, mild
    <2>2. IsFiniteSet(F)
      <3>1. IsFiniteSet({}) /\ IsFiniteSet({D("contempt", 80)}) /\ IsFiniteSet({D("criticism", 70)})
            /\ IsFiniteSet({D("contempt", 80), D("criticism", 70)}) /\ IsFiniteSet({D("criticism", 50)})
        BY SmallSetsFinite, Zenon
      <3>. QED  BY <1>1, <3>1
    <2>. QED  BY <2>1, <2>2, Zenon
  <1>. QED  BY <1>2, AnalysisFits

LEMMA AnalyzeFits ==
  ASSUME NEW k, NEW e \in Emails, NEW a \in Answers, AnalyzeWith(k, e, a) # Failed
  PROVE  IsAnalysis(AnalyzeWith(k, e, a))
  <1>1. AnalyzeWith(k, e, a) \in {MockAnswer(e), Heuristics(e), Parsed(a), Failed}
    BY DEF AnalyzeWith
  <1>. QED  BY <1>1, MockFits, HeuristicsFits, ParsedFits

-----------------------------------------------------------------------------
(* What becomes of the text.                                               *)

\* What the in-memory processor returns, and what the older one logs.
Analyses == {AnalyzeWith(k, e, a) : k \in Analyzers, e \in Emails, a \in Answers} \ {Failed}
Results == {InMemoryResult(e, an) : e \in Emails, an \in Analyses}
Logged(e, an) == [email |-> e, found |-> an.found, decision |-> MakeDecision(an, e)]
LoggedResults == {Logged(e, an) : e \in Emails, an \in Analyses}

LEMMA AnalysesFit == ASSUME NEW an \in Analyses PROVE IsAnalysis(an)
  BY AnalyzeFits DEF Analyses

LEMMA ResultFits ==
  ASSUME NEW r \in Results
  PROVE  \E i \in 1 .. 5 :
           /\ LevelIndex(SignificantTypes(r.found)) = i /\ IsFiniteSet(r.found)
           /\ r.level = Levels[i] /\ r.action = ProtectionActions[i]
  BY AnalysesFit, FromHorsemenValue DEF Results, InMemoryResult, IsAnalysis

LEMMA SummaryHoldsFacts ==
  ASSUME NEW e  PROVE CreateSafeSummary(e) \subseteq {l \in e : l.fact}
  BY DEF CreateSafeSummary

\* Contempt leads to a summary or to nothing.
LEMMA ContemptInResult ==
  ASSUME NEW r \in Results, "contempt" \in SignificantTypes(r.found)
  PROVE  r.content \subseteq {l \in r.email : l.fact}
  <1>1. PICK e \in Emails, an \in Analyses : r = InMemoryResult(e, an)
    BY DEF Results
  <1>2. r.email = e /\ r.found = an.found /\ r.content = Body(DecideAction(an.found), e)
    BY <1>1 DEF InMemoryResult
  <1>3. DecideAction(an.found) \in {"summarize_only", "block_entirely"}
    BY <1>2, ContemptLevel DEF DecideAction, ProtectionActions
  <1>4. r.content \in {CreateSafeSummary(e), {}}
    BY <1>2, <1>3, Zenon DEF Body
  <1>. QED  BY <1>2, <1>4, SummaryHoldsFacts

LEMMA ContemptInLogged ==
  ASSUME NEW r \in LoggedResults, "contempt" \in SignificantTypes(r.found)
  PROVE  \A l \in r.decision.content : \E k \in r.email : l.words \in k.phrases
  <1>1. PICK e \in Emails, an \in Analyses : r = Logged(e, an)
    BY DEF LoggedResults
  <1>2. r.email = e /\ r.found = an.found /\ r.decision = MakeDecision(an, e)
    BY <1>1 DEF Logged
  <1>3. DecideAction(an.found) \in {"summarize_only", "block_entirely"}
    BY <1>2, ContemptLevel DEF DecideAction, ProtectionActions
  <1>4. r.decision.content \in {CreateSummary(e), {}}
    BY <1>2, <1>3 DEF MakeDecision
  <1>5. \A l \in CreateSummary(e) : \E k \in e : l.words \in k.phrases
    BY DEF CreateSummary
  <1>. QED  BY <1>2, <1>4, <1>5

LEMMA WithoutKeepsFacts ==
  ASSUME NEW e \in Emails, NEW words, NEW l \in e, l.fact
  PROVE  \E k \in Without(e, words) : k.fact /\ k.words \subseteq l.words
  <1>1. l = [words |-> l.words, fact |-> l.fact, phrases |-> l.phrases]
    BY DecisionsAssumption
  <1>. DEFINE k == [l EXCEPT !.words = l.words \ words]
  <1>2. k \in Without(e, words)
    BY DEF Without
  <1>3. k.fact /\ k.words \subseteq l.words
    BY <1>1
  <1>. QED  BY <1>2, <1>3

LEMMA FactsInResult ==
  ASSUME NEW r \in Results, r.delivered, NEW l \in r.email, l.fact
  PROVE  \E k \in r.content : k.fact /\ k.words \subseteq l.words
  <1>1. PICK e \in Emails, an \in Analyses : r = InMemoryResult(e, an)
    BY DEF Results
  <1>2. /\ r.email = e /\ r.content = Body(DecideAction(an.found), e)
        /\ DecideAction(an.found) # "block_entirely"
    BY <1>1 DEF InMemoryResult
  <1>3. r.content \in {Without(e, RedactedWords), CreateSafeSummary(e), e}
    BY <1>2, Zenon DEF Body
  <1>4. CASE r.content = Without(e, RedactedWords)
    BY <1>2, <1>4, WithoutKeepsFacts
  <1>5. CASE r.content = CreateSafeSummary(e)
    BY <1>2, <1>5 DEF CreateSafeSummary
  <1>6. CASE r.content = e
    BY <1>2, <1>6
  <1>. QED  BY <1>3, <1>4, <1>5, <1>6

-----------------------------------------------------------------------------
(* The invariant: what was handled and logged comes from these.            *)

DecisionsInv == handled \in Seq(Results) /\ logged \in Seq(LoggedResults)

LEMMA DecisionsInvInit == Init => DecisionsInv
  BY DEF Init, DecisionsInit, DecisionsInv

LEMMA DecisionsInvNext == DecisionsInv /\ [Next]_vars => DecisionsInv'
  <1>. SUFFICES ASSUME DecisionsInv, [Next]_vars  PROVE DecisionsInv'
    OBVIOUS
  <1>. USE DEF DecisionsInv
  <1>1. ASSUME NEW e \in Emails, NEW a \in Answers, NEW k \in Analyzers, ProcessInMemory(e, k, a)
        PROVE  DecisionsInv'
    <2>1. AnalyzeWith(k, e, a) \in Analyses
      BY <1>1 DEF ProcessInMemory, Analyses
    <2>2. InMemoryResult(e, AnalyzeWith(k, e, a)) \in Results
      BY <2>1 DEF Results
    <2>. QED  BY <1>1, <2>2 DEF ProcessInMemory
  <1>2. ASSUME NEW e \in Emails, NEW a \in Answers, ProcessStreamlined(e, a)  PROVE DecisionsInv'
    <2>1. "anthropic" \in Analyzers
      <3>1. [testing |-> FALSE, privacy |-> FALSE, llamaLibrary |-> FALSE, llamaModel |-> FALSE]
              \in Environments
        BY DEF Environments
      <3>. QED  BY <3>1 DEF Analyzers, CreateAnalyzer
    <2>2. AnalyzeWith("anthropic", e, a) = Parsed(a)
      BY Zenon DEF AnalyzeWith
    <2>3. Parsed(a) \in Analyses
      BY <1>2, <2>1, <2>2 DEF ProcessStreamlined, Analyses
    <2>4. Logged(e, Parsed(a)) \in LoggedResults
      BY <2>3 DEF LoggedResults
    <2>. QED  BY <1>2, <2>4 DEF ProcessStreamlined, Logged
  <1>3. CASE UNCHANGED decisionVars
    BY <1>3 DEF decisionVars
  <1>. QED  BY <1>1, <1>2, <1>3 DEF Next, DecisionStep, BridgeStep, CacheStep, TimePasses,
              DecisionsNext, vars

LEMMA RangeOfResults == DecisionsInv => Range(handled) \subseteq Results /\ Range(logged) \subseteq LoggedResults
  BY DEF DecisionsInv, Range

\* What is found decides what is done, more evidence never means less protection,
\* and the level reported is that of the action, whatever analyser and answer.
THEOREM DecisionsAlwaysFit == Spec => []DecisionsFit
  <1>1. DecisionsInv => HarsherNeverGentler
    <2>. SUFFICES ASSUME NEW x \in Results, NEW y \in Results,
                         SignificantTypes(x.found) \subseteq SignificantTypes(y.found)
                  PROVE  Severity(x.action) <= Severity(y.action)
      BY RangeOfResults DEF HarsherNeverGentler
    <2>1. PICK i \in 1 .. 5 : /\ LevelIndex(SignificantTypes(x.found)) = i
                             /\ x.action = ProtectionActions[i]
      BY ResultFits
    <2>2. PICK j \in 1 .. 5 : /\ LevelIndex(SignificantTypes(y.found)) = j /\ IsFiniteSet(y.found)
                             /\ y.action = ProtectionActions[j]
      BY ResultFits
    <2>3. i <= j
      BY <2>1, <2>2, SignificantFinite, LevelIndexMonotone
    <2>. QED  BY <2>1, <2>2, <2>3, SeverityOfAction
  <1>2. DecisionsInv => LevelExplainsAction
    BY RangeOfResults, ResultFits DEF LevelExplainsAction
  <1>. QED  BY <1>1, <1>2, DecisionsInvInit, DecisionsInvNext, PTL DEF Spec, DecisionsFit

\* Contempt found with confidence travels on at most in the lines with a fact, and
\* the facts of a delivered email all do, for every email.
THEOREM ContentAlwaysFits == Spec => []ContentFits
  <1>1. DecisionsInv => ContentFits
    BY RangeOfResults, ContemptInResult, ContemptInLogged, FactsInResult
       DEF ContentFits, ContemptOnlyWithFacts, FactsSurvive
  <1>. QED  BY <1>1, DecisionsInvInit, DecisionsInvNext, PTL DEF Spec

-----------------------------------------------------------------------------
(* The bridge: what its cache holds, and what it counts.                   *)

CacheInv ==
  /\ IsFiniteSet(DOMAIN entries) /\ Cardinality(DOMAIN entries) <= CacheLimit
  /\ \A c \in DOMAIN entries :
       entries[c].at \in Nat /\ MayRemember(entries[c].result)

Counts(t, h, m, f, e) ==
  [total |-> t, hits |-> h, misses |-> m, fallbacks |-> f, errors |-> e]

CountsInv ==
  \E t, h, m, f, e \in Nat :
    /\ metrics = Counts(t, h, m, f, e)
    /\ bridge.caching => t = h + m
    /\ f <= e /\ e <= t - h

BridgeInv == now \in Nat /\ CacheInv /\ CountsInv /\ AnswersFresh

\* Dropping entries keeps the cache within its limit and its rule.
LEMMA RestrictKeepsCache ==
  ASSUME CacheInv, NEW S \in SUBSET DOMAIN entries, entries' = Restrict(entries, S), bridge' = bridge
  PROVE  CacheInv'
  <1>1. DOMAIN entries' = S /\ \A c \in S : entries'[c] = entries[c]
    BY DEF Restrict
  <1>2. IsFiniteSet(S) /\ Cardinality(S) <= Cardinality(DOMAIN entries)
    BY FS_Subset DEF CacheInv
  <1>3. Cardinality(S) \in Nat /\ Cardinality(DOMAIN entries) \in Nat
    BY <1>2, FS_CardinalityType DEF CacheInv
  <1>. QED  BY <1>1, <1>2, <1>3, BridgeAssumption DEF CacheInv, MayRemember, AsksLocal

LEMMA LookupRestricts ==
  ASSUME NEW c
  PROVE  \E S \in SUBSET DOMAIN entries :
           /\ DOMAIN Lookup(c) = S /\ \A d \in S : Lookup(c)[d] = entries[d]
  BY DEF Lookup, Restrict

\* A store, whatever it sweeps and cuts.
LEMMA StoreKeepsCache ==
  ASSUME BridgeInv, NEW c, NEW r, MayRemember(r),
         CacheResult(c, r), bridge' = bridge
  PROVE  CacheInv'
  <1>1. CASE ~ bridge.caching
    BY <1>1 DEF CacheResult, CacheInv, BridgeInv, MayRemember, AsksLocal
  <1>2. CASE bridge.caching
    <2>. DEFINE f == StoredIn(Lookup(c), c, r)
    <2>1. /\ DOMAIN f \subseteq DOMAIN entries \cup {c}
          /\ \A d \in DOMAIN f : f[d].at \in Nat /\ MayRemember(f[d].result)
      BY LookupRestricts DEF StoredIn, Swept, Restrict, CacheInv, BridgeInv
    <2>2. IsFiniteSet(DOMAIN f)
      BY <2>1, FS_AddElement, FS_Subset DEF CacheInv, BridgeInv
    <2>3. Cardinality(DOMAIN f) \in Nat
      BY <2>2, FS_CardinalityType
    <2>. HIDE DEF f
    <2>4. CASE Cardinality(DOMAIN f) > CacheLimit
      <3>1. PICK S \in SUBSET DOMAIN f : Newest(f, S) /\ entries' = Restrict(f, S)
        BY <1>2, <2>4 DEF CacheResult, f
      <3>2. DOMAIN entries' = S /\ \A d \in S : entries'[d] = f[d]
        BY <3>1 DEF Restrict
      <3>3. IsFiniteSet(S) /\ Cardinality(S) <= CacheLimit
        BY <2>2, <3>1, FS_Subset, BridgeAssumption DEF Newest
      <3>. QED  BY <2>1, <3>2, <3>3 DEF CacheInv, MayRemember, AsksLocal
    <2>5. CASE ~ (Cardinality(DOMAIN f) > CacheLimit)
      <3>1. entries' = f
        BY <1>2, <2>5 DEF CacheResult, f
      <3>. QED  BY <2>1, <2>2, <2>3, <2>5, <3>1, BridgeAssumption DEF CacheInv, MayRemember, AsksLocal
    <2>. QED  BY <2>4, <2>5
  <1>. QED  BY <1>1, <1>2

\* Only without an analyser is the bridge's default an answer, and only the local
\* model's own default comes from the local model.
LEMMA DefaultMeansNoAnalyser ==
  ASSUME NEW m, NEW a, NEW r \in AnalyzeWithMode(m, a)
  PROVE  (r = Default => a = None) /\ (r = LocalDefault => m = "privacy" /\ a = "llama")
  <1>1. AnalyzeWithMode(m, a) \in {{Default}, PrivacyAnswers, CloudAnswers, {}} /\
        (a # None => AnalyzeWithMode(m, a) \in {PrivacyAnswers, CloudAnswers, {}}) /\
        (~ (m = "privacy" /\ a = "llama") => AnalyzeWithMode(m, a) \in {{Default}, CloudAnswers, {}})
    BY Zenon DEF AnalyzeWithMode
  <1>2. Default \notin PrivacyAnswers /\ Default \notin CloudAnswers
    BY DEF Default, PrivacyAnswers, CloudAnswers, EmptyObject, LocalDefault, Result
  <1>3. LocalDefault # Default /\ LocalDefault \notin CloudAnswers
    BY DEF Default, CloudAnswers, LocalDefault, Result
  <1>. QED  BY <1>1, <1>2, <1>3

LEMMA BridgeInvInit == Init => BridgeInv
  <1>. SUFFICES ASSUME Init  PROVE BridgeInv
    OBVIOUS
  <1>1. now \in Nat /\ CacheInv
    BY FS_EmptySet, BridgeAssumption DEF Init, BridgeInit, CacheInv
  <1>2. CountsInv /\ AnswersFresh
    <2>1. metrics = Counts(0, 0, 0, 0, 0)
      BY DEF Init, BridgeInit, Counts
    <2>. QED  BY <2>1 DEF Init, BridgeInit, CountsInv, AnswersFresh
  <1>. QED  BY <1>1, <1>2 DEF BridgeInv

LEMMA HitKeepsBridge ==
  ASSUME BridgeInv, NEW c, AnswerFromCache(c), UNCHANGED <<now, bridge>>  PROVE BridgeInv'
  <1>1. CountsInv'
    <2>1. PICK t, h, m, f, e \in Nat :
            /\ metrics = Counts(t, h, m, f, e)
            /\ bridge.caching => t = h + m
            /\ f <= e /\ e <= t - h
      BY DEF BridgeInv, CountsInv
    <2>2. metrics' = Counts(t + 1, h + 1, m, f, e)
      BY <2>1 DEF AnswerFromCache, Counts
    <2>. QED  BY <2>1, <2>2 DEF CountsInv
  <1>2. CacheInv'
    BY DEF BridgeInv, CacheInv, AnswerFromCache, MayRemember, AsksLocal
  <1>3. AnswersFresh'
    BY BridgeAssumption DEF BridgeInv, CacheInv, AnswersFresh, AnswerFromCache, Reply, Usable, Cached, Expired
  <1>. QED  BY <1>1, <1>2, <1>3 DEF BridgeInv

LEMMA MissKeepsBridge ==
  ASSUME BridgeInv, NEW c, AnswerFromPrimary(c), UNCHANGED <<now, bridge>>  PROVE BridgeInv'
  <1>1. PICK r \in AnalyzeWithMode(bridge.mode, bridge.primary) : CacheResult(c, r) /\ Reply(c, r, 0, FALSE)
    BY DEF AnswerFromPrimary
  <1>2. CacheInv'
    <2>1. MayRemember(r)
      BY <1>1, DefaultMeansNoAnalyser DEF MayRemember, AsksLocal
    <2>. QED  BY <1>1, <2>1, StoreKeepsCache
  <1>3. CountsInv'
    <2>1. PICK t, h, m, f, e \in Nat :
            /\ metrics = Counts(t, h, m, f, e)
            /\ bridge.caching => t = h + m
            /\ f <= e /\ e <= t - h
      BY DEF BridgeInv, CountsInv
    <2>2. metrics' = Counts(t + 1, h, IF bridge.caching THEN m + 1 ELSE m, f, e)
      BY <2>1 DEF AnswerFromPrimary, Miss, Counts
    <2>. QED  BY <2>1, <2>2 DEF CountsInv
  <1>4. AnswersFresh'
    BY <1>1 DEF AnswersFresh, Reply
  <1>. QED  BY <1>2, <1>3, <1>4 DEF BridgeInv

LEMMA ErrorKeepsBridge ==
  ASSUME BridgeInv, NEW c, AnswerAfterError(c), UNCHANGED <<now, bridge>>  PROVE BridgeInv'
  <1>1. CASE bridge.secondary # None
    <2>1. PICK r \in AnalyzeWithMode("privacy", bridge.secondary) :
            CacheResult(c, r) /\ Reply(c, r, 0, FALSE)
      BY <1>1 DEF AnswerAfterError
    <2>2. CacheInv'
      <3>1. MayRemember(r)
        BY <1>1, <2>1, DefaultMeansNoAnalyser DEF MayRemember, AsksLocal
      <3>. QED  BY <2>1, <3>1, StoreKeepsCache
    <2>3. CountsInv'
      <3>1. PICK t, h, m, f, e \in Nat :
              /\ metrics = Counts(t, h, m, f, e)
              /\ bridge.caching => t = h + m
              /\ f <= e /\ e <= t - h
        BY DEF BridgeInv, CountsInv
      <3>2. metrics' = Counts(t + 1, h, IF bridge.caching THEN m + 1 ELSE m, f + 1, e + 1)
        BY <1>1, <3>1 DEF AnswerAfterError, Miss, Counts
      <3>. QED  BY <3>1, <3>2 DEF CountsInv
    <2>4. AnswersFresh'
      BY <2>1 DEF AnswersFresh, Reply
    <2>. QED  BY <2>2, <2>3, <2>4 DEF BridgeInv
  <1>2. CASE bridge.secondary = None
    <2>1. \E S \in SUBSET DOMAIN entries : entries' = Restrict(entries, S) \/ entries' = entries
      BY <1>2 DEF AnswerAfterError, Lookup
    <2>2. CacheInv'
      BY <2>1, RestrictKeepsCache DEF BridgeInv, CacheInv, MayRemember, AsksLocal
    <2>3. CountsInv'
      <3>1. PICK t, h, m, f, e \in Nat :
              /\ metrics = Counts(t, h, m, f, e)
              /\ bridge.caching => t = h + m
              /\ f <= e /\ e <= t - h
        BY DEF BridgeInv, CountsInv
      <3>2. metrics' = Counts(t + 1, h, IF bridge.caching THEN m + 1 ELSE m, f, e + 1)
        BY <1>2, <3>1 DEF AnswerAfterError, Miss, Counts
      <3>. QED  BY <3>1, <3>2 DEF CountsInv
    <2>4. AnswersFresh'
      BY <1>2 DEF AnswersFresh, AnswerAfterError, Reply
    <2>. QED  BY <2>2, <2>3, <2>4 DEF BridgeInv
  <1>. QED  BY <1>1, <1>2

LEMMA BridgeInvNext == BridgeInv /\ [Next]_vars => BridgeInv'
  <1>. SUFFICES ASSUME BridgeInv, [Next]_vars  PROVE BridgeInv'
    OBVIOUS
  <1>1. ASSUME NEW c \in Contents, AnalyzeToxicity(c)  PROVE BridgeInv'
    BY <1>1, HitKeepsBridge, MissKeepsBridge, ErrorKeepsBridge DEF AnalyzeToxicity
  <1>2. CASE ClearBridge
    <2>1. CacheInv'
      BY <1>2, RestrictKeepsCache DEF ClearBridge, BridgeInv
    <2>. QED  BY <1>2, <2>1 DEF ClearBridge, BridgeInv, CountsInv, AnswersFresh
  <1>3. CASE UNCHANGED bridgeVars /\ now' \in Nat
    BY <1>3 DEF bridgeVars, BridgeInv, CacheInv, CountsInv, AnswersFresh, MayRemember, AsksLocal
  <1>4. ASSUME UNCHANGED bridgeVars, Tick \/ UNCHANGED now  PROVE now' \in Nat
    BY <1>4 DEF Tick, BridgeInv
  <1>5. AnalyzerNext => UNCHANGED now
    BY DEF AnalyzerNext, CleanupExpiredEntries, ClearCache, AnalyzeContent
  <1>. QED  BY <1>1, <1>2, <1>3, <1>4, <1>5 DEF Next, DecisionStep, BridgeStep, CacheStep, TimePasses,
              BridgeNext, vars, bridgeVars

\* The cache stays within its limit, no answer outlives its entry, the default of the
\* bridge is not remembered, that of the local model only where it is asked, and the
\* counters add up, for every limit and lifetime.
THEOREM BridgeAlwaysKeepsItsWord == Spec => []BridgeKeepsItsWord
  <1>1. CountsInv => CallsAddUp
    BY DEF CountsInv, Counts, CallsAddUp
  <1>2. BridgeInv => BridgeKeepsItsWord
    BY <1>1 DEF BridgeInv, CacheInv, BridgeKeepsItsWord, CacheBounded, DefaultsRemembered
  <1>. QED  BY <1>2, BridgeInvInit, BridgeInvNext, PTL DEF Spec

-----------------------------------------------------------------------------
(* Cached judgements.                                                      *)

LocalSources == {"local", "hybrid_fallback", "traditional_fallback"}

\* An entry: whose it is, how long it lasts, and what its source says of it.
EntryFits(k, entry, t, s, time) ==
  /\ k = CacheKey(t, s)
  /\ entry.at \in Nat /\ entry.at <= time
  /\ entry.expires = entry.at + Ttl[CacheCategory(entry.found.class, t)]
  /\ entry.source \in LocalSources => entry.found = FallbackAnalysis(t)
  /\ entry.source = "hybrid_fallback" => entry.found # Found("SAFE", {})
  /\ entry.source # Absent

CacheFits == \A k \in DOMAIN kept : \E t \in Texts, s \in Senders : EntryFits(k, kept[k], t, s, now)

StatsFit == \E h, m \in Nat : stats = [hits |-> h, misses |-> m]

AnalyzerInv == now \in Nat /\ CacheFits /\ StatsFit /\ JudgementsAge /\ NotMixedUp

LEMMA CategoryByClass ==
  ASSUME NEW class, NEW t
  PROVE  /\ class = "SAFE" => CacheCategory(class, t) \in {"safe_business", "safe_personal"}
         /\ class = "WARNING" => CacheCategory(class, t) = "suspicious"
         /\ class \notin Harmless => CacheCategory(class, t) = "harmful"
  BY Zenon DEF CacheCategory, Harmless

\* The lifetime of an entry by its class.
LEMMA LifetimeByClass ==
  ASSUME NEW class, NEW t
  PROVE  LET life == Ttl[CacheCategory(class, t)]
         IN  /\ life \in Nat /\ life <= Ttl["safe_business"]
             /\ class \notin Harmless => life = Ttl["harmful"]
             /\ class = "WARNING" => life = Ttl["suspicious"]
  BY CategoryByClass, TtlAssumption DEF Harmless

\* The keyword analysis warns of nothing, and is safe only without horsemen.
LEMMA FallbackByClass ==
  ASSUME NEW t
  PROVE  FallbackAnalysis(t) = Found("SAFE", {}) \/ FallbackAnalysis(t).class \notin Harmless
  <1>1. FallbackAnalysis(t) \in {Found("SAFE", {}), Found("ABUSIVE", t.words), Found("HARMFUL", t.words)}
    BY Zenon DEF FallbackAnalysis
  <1>. QED  BY <1>1 DEF Found, Harmless

LEMMA FallbackByNorm ==
  ASSUME NEW s \in Texts, NEW t \in Texts, s.norm = t.norm
  PROVE  FallbackAnalysis(s) = FallbackAnalysis(t)
  <1>1. s.words = t.words /\ s.marks = t.marks
    BY TextsAssumption
  <1>. QED  BY <1>1, Zenon DEF FallbackAnalysis, SafelyMarked

LEMMA AnalyzerInvInit == Init => AnalyzerInv
  BY DEF Init, AnalyzerInit, AnalyzerInv, CacheFits, StatsFit, JudgementsAge, NotMixedUp, Absent

LEMMA HitKeepsAnalyzer ==
  ASSUME AnalyzerInv, NEW t \in Texts, NEW s \in Senders, GetCachedAnalysis(t, s), UNCHANGED now
  PROVE  AnalyzerInv' /\ SendersApart
  <1>. DEFINE k == CacheKey(t, s)
  <1>1. k \in DOMAIN kept /\ now < kept[k].expires
    BY DEF GetCachedAnalysis, Valid
  <1>2. PICK u \in Texts, v \in Senders : EntryFits(k, kept[k], u, v, now)
    BY <1>1 DEF AnalyzerInv, CacheFits
  <1>3. u.norm = t.norm /\ v = s
    BY <1>2 DEF EntryFits, CacheKey
  <1>4. answer' = [text |-> t, sender |-> s, found |-> kept[k].found, source |-> kept[k].source,
                   age |-> now - kept[k].at]
    BY DEF GetCachedAnalysis, Answer
  <1>5. JudgementsAge'
    <2>. DEFINE life == Ttl[CacheCategory(kept[k].found.class, u)]
    <2>1. /\ life \in Nat /\ life <= Ttl["safe_business"]
          /\ kept[k].found.class \notin Harmless => life = Ttl["harmful"]
          /\ kept[k].found.class = "WARNING" => life = Ttl["suspicious"]
      BY LifetimeByClass
    <2>2. kept[k].at \in Nat /\ now \in Nat /\ now < kept[k].at + life
      BY <1>1, <1>2 DEF EntryFits, AnalyzerInv
    <2>3. now - kept[k].at < life /\ Ttl["safe_business"] \in Nat
      BY <2>1, <2>2, TtlAssumption
    <2>. HIDE DEF life, k
    <2>. QED  BY <1>4, <2>1, <2>2, <2>3 DEF JudgementsAge
  <1>6. NotMixedUp'
    BY <1>2, <1>3, <1>4, FallbackByNorm DEF EntryFits, NotMixedUp, LocalSources
  <1>7. CacheFits' /\ StatsFit'
    BY SMTT(30) DEF GetCachedAnalysis, AnalyzerInv, CacheFits, EntryFits, StatsFit
  <1>8. SendersApart
    <2>1. k[2] = s /\ kept[k].at = now - (now - kept[k].at)
      BY <1>2 DEF CacheKey, EntryFits, AnalyzerInv
    <2>. QED  BY <1>1, <1>4, <2>1 DEF SendersApart
  <1>. QED  BY <1>5, <1>6, <1>7, <1>8 DEF AnalyzerInv

\* A miss with what it stores: a judgement of this text, unless the model made it.
LEMMA MissKeepsAnalyzer ==
  ASSUME AnalyzerInv, NEW t \in Texts, NEW s \in Senders, NEW found, NEW source,
         Analysed(t, s, found, source), UNCHANGED now, source # Absent,
         source \in LocalSources => found = FallbackAnalysis(t),
         source = "hybrid_fallback" => found # Found("SAFE", {})
  PROVE  AnalyzerInv' /\ SendersApart
  <1>. DEFINE k == CacheKey(t, s)
              entry == [found |-> found, source |-> source, at |-> now,
                        expires |-> now + Ttl[CacheCategory(found.class, t)]]
  <1>1. /\ kept' = [j \in DOMAIN kept \cup {k} |-> IF j = k THEN entry ELSE kept[j]]
        /\ answer' = [text |-> t, sender |-> s, found |-> found, source |-> source, age |-> 0]
    BY DEF Analysed, CacheAnalysis, Answer
  <1>2. EntryFits(k, entry, t, s, now)
    BY DEF EntryFits, AnalyzerInv
  <1>3. CacheFits'
    <2>. SUFFICES ASSUME NEW j \in DOMAIN kept'
                  PROVE  \E u \in Texts, v \in Senders : EntryFits(j, kept'[j], u, v, now)
      BY DEF CacheFits
    <2>1. CASE j = k
      BY <1>1, <1>2, <2>1
    <2>2. CASE j # k
      <3>1. j \in DOMAIN kept /\ kept'[j] = kept[j]
        BY <1>1, <2>2
      <3>. QED  BY <3>1 DEF AnalyzerInv, CacheFits
    <2>. QED  BY <2>1, <2>2
  <1>4. StatsFit' /\ SendersApart
    <2>1. PICK h, m \in Nat : stats = [hits |-> h, misses |-> m]
      BY DEF AnalyzerInv, StatsFit
    <2>2. stats' = [hits |-> h, misses |-> m + 1]
      BY <2>1 DEF Analysed
    <2>. QED  BY <2>1, <2>2 DEF StatsFit, SendersApart
  <1>5. JudgementsAge' /\ NotMixedUp'
    BY <1>1 DEF JudgementsAge, NotMixedUp, LocalSources
  <1>. QED  BY <1>3, <1>4, <1>5 DEF AnalyzerInv

LEMMA AnalyzerStep ==
  AnalyzerInv /\ [Next]_vars => AnalyzerInv' /\ (SendersApart \/ UNCHANGED <<now, analyzerVars>>)
  <1>. SUFFICES ASSUME AnalyzerInv, [Next]_vars
                PROVE  AnalyzerInv' /\ (SendersApart \/ UNCHANGED <<now, analyzerVars>>)
    OBVIOUS
  <1>1. ASSUME NEW t \in Texts, NEW s \in Senders, AnalyzeContent(t, s)
        PROVE  AnalyzerInv' /\ SendersApart
    <2>1. CASE GetCachedAnalysis(t, s)
      BY <1>1, <2>1, HitKeepsAnalyzer DEF AnalyzeContent
    <2>2. CASE LooksSafe(t) /\ Analysed(t, s, FallbackAnalysis(t), "local")
      BY <1>1, <2>2, MissKeepsAnalyzer DEF AnalyzeContent, Absent
    <2>3. CASE ~ LooksSafe(t) /\ Analysed(t, s, FallbackAnalysis(t), "hybrid_fallback")
      BY <1>1, <2>3, MissKeepsAnalyzer DEF AnalyzeContent, Absent, LooksSafe
    <2>4. CASE Analysed(t, s, FallbackAnalysis(t), "traditional_fallback")
      BY <1>1, <2>4, MissKeepsAnalyzer DEF AnalyzeContent, Absent
    <2>5. ASSUME NEW r \in Replies, Analysed(t, s, CallAiService(r), "model")
          PROVE  AnalyzerInv' /\ SendersApart
      BY <1>1, <2>5, MissKeepsAnalyzer DEF AnalyzeContent, Absent, LocalSources
    <2>. QED  BY <1>1, <2>1, <2>2, <2>3, <2>4, <2>5
              DEF AnalyzeContent, AnalyzeHybrid, AnalyzeTraditional
  <1>2. ASSUME NEW S \in SUBSET DOMAIN kept, kept' = Restrict(kept, S), UNCHANGED <<now, stats, answer>>
        PROVE  AnalyzerInv' /\ SendersApart
    <2>1. DOMAIN kept' = S /\ \A k \in S : kept'[k] = kept[k]
      BY <1>2 DEF Restrict
    <2>2. CacheFits'
      BY <1>2, <2>1 DEF AnalyzerInv, CacheFits
    <2>. QED  BY <1>2, <2>2 DEF AnalyzerInv, StatsFit, JudgementsAge, NotMixedUp, SendersApart
  <1>3. CASE CleanupExpiredEntries \/ ClearCache
    BY <1>2, <1>3 DEF CleanupExpiredEntries, ClearCache
  <1>4. CASE UNCHANGED analyzerVars /\ now' \in Nat /\ now <= now'
    <2>1. CacheFits'
      <3>. SUFFICES ASSUME NEW k \in DOMAIN kept
                    PROVE  \E t \in Texts, s \in Senders : EntryFits(k, kept[k], t, s, now')
        BY <1>4 DEF analyzerVars, CacheFits
      <3>1. PICK t \in Texts, s \in Senders : EntryFits(k, kept[k], t, s, now)
        BY DEF AnalyzerInv, CacheFits
      <3>. QED  BY <1>4, <3>1 DEF EntryFits, AnalyzerInv
    <2>. QED  BY <1>4, <2>1 DEF analyzerVars, AnalyzerInv, StatsFit, JudgementsAge, NotMixedUp, SendersApart
  <1>5. ASSUME Tick \/ UNCHANGED now  PROVE now' \in Nat /\ now <= now'
    BY <1>5 DEF Tick, AnalyzerInv
  <1>6. BridgeNext => UNCHANGED now
    BY DEF BridgeNext, ClearBridge, AnalyzeToxicity
  <1>. QED  BY <1>1, <1>3, <1>4, <1>5, <1>6 DEF Next, DecisionStep, BridgeStep, CacheStep, TimePasses,
              AnalyzerNext, vars, analyzerVars

\* A safe class never reaches the branch taken while the model is down.
LEMMA StopgapsAreBrief == AnalyzerInv => StopgapsBrief
  <1>. SUFFICES ASSUME AnalyzerInv, NEW k \in DOMAIN kept, kept[k].source = "hybrid_fallback"
                PROVE  kept[k].expires - kept[k].at <= Ttl["harmful"]
    BY DEF StopgapsBrief
  <1>1. PICK t \in Texts, s \in Senders : EntryFits(k, kept[k], t, s, now)
    BY DEF AnalyzerInv, CacheFits
  <1>2. kept[k].found.class \notin Harmless
    BY <1>1, FallbackByClass DEF EntryFits, LocalSources
  <1>3. kept[k].expires = kept[k].at + Ttl["harmful"]
    BY <1>1, <1>2, CategoryByClass DEF EntryFits
  <1>. QED  BY <1>1, <1>3, TtlAssumption DEF EntryFits

\* A cached judgement answers for its own text and sender only, and no longer than
\* its class allows, for every choice of lifetimes that keeps their order.
THEOREM JudgementsAlwaysFit == Spec => JudgementsFit
  <1>1. AnalyzerInv /\ [Next]_vars =>
          [JudgementsAge' /\ StopgapsBrief' /\ NotMixedUp' /\ SendersApart]_<<now, analyzerVars>>
    <2>1. AnalyzerInv' => StopgapsBrief' /\ JudgementsAge' /\ NotMixedUp'
      BY StopgapsAreBrief, PTL DEF AnalyzerInv
    <2>. QED  BY <2>1, AnalyzerStep
  <1>. QED  BY <1>1, AnalyzerInvInit, AnalyzerStep, PTL DEF Spec, JudgementsFit
=============================================================================
