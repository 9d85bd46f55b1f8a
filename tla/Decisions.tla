----------------------------- MODULE Decisions -----------------------------
(***************************************************************************)
(* From the answer of a language model to what a user receives: the four   *)
(* horsemen found in an email, the threat level and the protection action  *)
(* derived from them, the analysers that read the model's answer, and the  *)
(* two processors that act on it.                                          *)
(*                                                                         *)
(* A detection is a record [horseman, confidence], the confidence in       *)
(* hundredths. The text of an email is a set of lines, and a line is the   *)
(* record [words, fact, phrases]: the listed words it contains; whether it *)
(* has a digit, "meeting" or "project", for which the in-memory summary    *)
(* keeps it; and for each phrase the decision maker's patterns match in it *)
(* ("project" and the next word ...) the set of listed words it takes.     *)
(***************************************************************************)
EXTENDS Integers, Sequences, FiniteSets, FiniteSetsExt, SequencesExt

CONSTANTS Emails,       \* the emails, each a set of lines
          Answers,      \* what the model may answer: see Parsed
          MaxHandled    \* bound: emails processed in one behaviour
ASSUME DecisionsAssumption ==
  /\ \A e \in Emails : \A l \in e : l = [words |-> l.words, fact |-> l.fact, phrases |-> l.phrases]
  /\ \A a \in Answers : IsFiniteSet(a.items)

VARIABLES handled,      \* what the in-memory processor returned, in order
          logged        \* decisions the older processor logged, in order

decisionVars == <<handled, logged>>

Unnamed == "none"           \* a detection without a name
Unrated == 0 - 1            \* a detection without a confidence
\* An exception instead of an analysis.
Failed == [level |-> "failed", found |-> {}, safe |-> FALSE]

(***************************************************************************)
(* analysis_engine: the level and the action.                              *)
(***************************************************************************)
Levels == <<"safe", "low", "medium", "high", "critical">>
ProtectionActions == <<"forward_clean", "forward_with_context", "redact_harmful",
                       "summarize_only", "block_entirely">>
IsSignificant(d) == d.confidence > 50
SignificantTypes(found) == {d.horseman : d \in {x \in found : IsSignificant(x)}}

\* Seeded fault: three horsemen fall through to the last case.
LevelIndexWithoutThree(types) ==
  CASE types = {} -> 1
    [] "contempt" \in types -> IF Cardinality(types) > 1 THEN 5 ELSE 4
    [] OTHER -> IF Cardinality(types) >= 4 THEN 5 ELSE IF Cardinality(types) = 2 THEN 3 ELSE 2

\* ThreatLevel.from_horsemen, as an index of Levels.
LevelIndex(types) ==
  CASE types = {} -> 1
    [] "contempt" \in types -> IF Cardinality(types) > 1 THEN 5 ELSE 4
    [] OTHER -> IF Cardinality(types) >= 4 THEN 5 ELSE Cardinality(types) + 1

FromHorsemen(found) == Levels[LevelIndex(SignificantTypes(found))]
DecideAction(found) == ProtectionActions[LevelIndex(SignificantTypes(found))]

ShouldAttemptRephrase(level) == level \notin {"critical", "safe"}
EstimateRephraseDifficulty(found) ==
  CASE "contempt" \in SignificantTypes(found) -> "difficult"
    [] Cardinality({d \in found : IsSignificant(d)}) >= 3 -> "difficult"
    [] Cardinality({d \in found : IsSignificant(d)}) = 2 -> "moderate"
    [] OTHER -> "easy"

D(h, c) == [horseman |-> h, confidence |-> c]
Words(email) == UNION {l.words : l \in email}

(***************************************************************************)
(* The analysers. An answer of the model is a record [kind, items]: "none" *)
(* when the call failed or nothing could be repaired into an object, "cut" *)
(* when it ends before the detections, or "object" with the detections as  *)
(* the model wrote them: [form, horseman, confidence], a "dict", a bare    *)
(* "name", or "other".                                                     *)
(***************************************************************************)
Written(i) ==
  CASE i.form = "dict" -> D(IF i.horseman = Unnamed THEN "unknown" ELSE i.horseman,
                            IF i.confidence = Unrated THEN 50 ELSE i.confidence)
    [] i.form = "name" -> D(i.horseman, 70)
Readable(i) == i.form = "dict" /\ i.confidence # Unrated => i.confidence \in 0..100

Analysis(found) == [level |-> FromHorsemen(found), found |-> found,
                    safe |-> FromHorsemen(found) = "safe"]

\* One confidence out of range spoils the whole answer; the model's own "safe"
\* is not read, and an answer cut before its detections has none.
Parsed(answer) ==
  CASE answer.kind = "cut" -> Analysis({})
    [] answer.kind = "object" /\ (\A i \in answer.items : Readable(i)) ->
         Analysis({Written(i) : i \in {x \in answer.items : x.form # "other"}})
    [] OTHER -> Failed

ToxicTable ==
  << <<"hate", {D("contempt", 90), D("criticism", 80)}>>,
     <<"worthless", {D("contempt", 95), D("criticism", 90)}>>,
     <<"incompetent", {D("contempt", 80)}>>,
     <<"terrible", {D("criticism", 70), D("defensiveness", 60)}>>,
     <<"disappointing", {D("criticism", 65), D("stonewalling", 55)}>>,
     <<"too late", {D("criticism", 60)}>> >>

\* The mock answers with the first pattern of its table that the content has.
MockAnswer(email) ==
  LET hits == {i \in DOMAIN ToxicTable : ToxicTable[i][1] \in Words(email)}
  IN Analysis(IF hits = {} THEN {} ELSE ToxicTable[Min(hits)][2])

Heuristics(email) ==
  LET contempt == Words(email) \cap {"worthless", "pathetic", "disgusting", "loser", "idiot"}
      criticism == Words(email) \cap {"terrible", "awful", "stupid", "incompetent"}
      mild == Words(email) \cap {"annoying", "frustrating", "disappointing"}
      strong == (IF contempt # {} THEN {D("contempt", 80)} ELSE {})
                \cup (IF criticism # {} THEN {D("criticism", 70)} ELSE {})
  IN Analysis(IF strong = {} /\ mild # {} THEN {D("criticism", 50)} ELSE strong)

\* AnalyzerFactory.create_analyzer; a llama without a model file is an error and
\* only a missing library falls back to the mock.
CreateAnalyzer(env) ==
  CASE env.testing -> "mock"
    [] ~ env.testing /\ env.privacy ->
         (IF ~ env.llamaLibrary THEN "mock" ELSE IF env.llamaModel THEN "llama" ELSE "error")
    [] OTHER -> "anthropic"
Environments == [testing : BOOLEAN, privacy : BOOLEAN, llamaLibrary : BOOLEAN,
                 llamaModel : BOOLEAN]

\* What the chosen analyser makes of an email; the llama one has no such method.
AnalyzeWith(analyzer, email, answer) ==
  CASE analyzer = "mock" -> MockAnswer(email)
    [] analyzer = "heuristics" -> Heuristics(email)
    [] analyzer = "anthropic" -> Parsed(answer)
    [] OTHER -> Failed

(***************************************************************************)
(* What becomes of the text.                                               *)
(***************************************************************************)
RedactedWords == {"hate", "stupid", "idiot", "disgusting", "pathetic", "terrible", "awful"}
HarmfulPatterns == {"terrible", "awful", "horrible", "disgusting", "pathetic", "worthless",
                    "stupid", "idiot", "incompetent"}

Without(email, words) == {[l EXCEPT !.words = l.words \ words] : l \in email}
\* Seeded fault: without a factual line the summary is the email.
SummaryOrAll(email) == IF \E l \in email : l.fact THEN {l \in email : l.fact} ELSE email
CreateSafeSummary(email) == {l \in email : l.fact}
\* The decision maker keeps the phrases it matched and nothing of the rest of a line.
CreateSummary(email) ==
  {[words |-> w, fact |-> TRUE, phrases |-> {w}] : w \in UNION {l.phrases : l \in email}}

Body(action, email) ==
  CASE action = "redact_harmful" -> Without(email, RedactedWords)
    [] action = "summarize_only" -> CreateSafeSummary(email)
    [] action = "block_entirely" -> {}
    [] OTHER -> email

MakeDecision(analysis, email) ==
  LET action == DecideAction(analysis.found)
  IN [level |-> analysis.level, action |-> action,
      content |-> CASE action = "redact_harmful" -> Without(email, HarmfulPatterns)
                    [] action = "summarize_only" -> CreateSummary(email)
                    [] action = "block_entirely" -> {}
                    [] action \in {"forward_clean", "forward_with_context"} -> email]

(***************************************************************************)
(* The processors.                                                         *)
(***************************************************************************)
DecisionsInit == handled = <<>> /\ logged = <<>>

InMemoryResult(email, analysis) ==
  LET action == DecideAction(analysis.found)
  IN [email |-> email, found |-> analysis.found, level |-> analysis.level, action |-> action,
      delivered |-> action # "block_entirely", content |-> Body(action, email)]

\* InMemoryProcessor.process_email; an exception of the analyser is raised again.
ProcessInMemory(email, analyzer, answer) ==
  LET analysis == AnalyzeWith(analyzer, email, answer)
  IN /\ Len(handled) + Len(logged) < MaxHandled
     /\ analysis # Failed
     /\ handled' = Append(handled, InMemoryResult(email, analysis))
     /\ UNCHANGED logged

\* StreamlinedEmailProtectionProcessor.process_email. With the analyser of
\* production the decision is logged and the call then fails on a field the
\* analysis does not have; after a failed analysis, and with the mock, it fails
\* before that. No call returns a result.
ProcessStreamlined(email, answer) ==
  LET analysis == Parsed(answer)
  IN /\ Len(handled) + Len(logged) < MaxHandled
     /\ analysis # Failed
     /\ logged' = Append(logged, [email |-> email, found |-> analysis.found,
                                  decision |-> MakeDecision(analysis, email)])
     /\ UNCHANGED handled

Analyzers == {CreateAnalyzer(e) : e \in Environments} \cup {"heuristics"}
DecisionsNext ==
  \E e \in Emails, a \in Answers :
    \/ \E k \in Analyzers \ {"error"} : ProcessInMemory(e, k, a)
    \/ ProcessStreamlined(e, a)

(***************************************************************************)
(* Properties.                                                             *)
(***************************************************************************)
Severity(action) == CHOOSE i \in DOMAIN ProtectionActions : ProtectionActions[i] = action

\* More evidence never means less protection: of two emails, the one in which a
\* horseman more was found with confidence is not treated more gently
\* (ThreatLevel.from_horsemen and decide_action, whatever analyser found them).
HarsherNeverGentler ==
  \A x, y \in Range(handled) :
    SignificantTypes(x.found) \subseteq SignificantTypes(y.found)
      => Severity(x.action) <= Severity(y.action)

\* The level a result reports and the action it takes belong together, although
\* the analyser derives the one and the processor the other.
LevelExplainsAction ==
  \A r \in Range(handled) : \E i \in 1..5 : r.level = Levels[i] /\ r.action = ProtectionActions[i]

\* Of an email in which contempt was found with confidence only the lines with a
\* fact leave, and these as they were written: a summary keeps the contempt of such
\* a line although its comment calls it without toxic content
\* (in_memory_processor.py:215). The older processor passes on no word but those
\* within the phrases it extracts.
ContemptOnlyWithFacts ==
  /\ \A r \in Range(handled) :
       "contempt" \in SignificantTypes(r.found) => r.content \subseteq {l \in r.email : l.fact}
  /\ \A r \in Range(logged) :
       "contempt" \in SignificantTypes(r.found) => \A l \in r.decision.content : \E k \in r.email : l.words \in k.phrases

\* No processor drops a factual line of an email it delivers: redaction takes
\* words from lines, a summary keeps every line with a fact.
FactsSurvive ==
  \A r \in Range(handled) :
    r.delivered => \A l \in r.email : l.fact => \E k \in r.content : k.fact /\ k.words \subseteq l.words

\* What is found decides what is done and what is reported, in accord
\* (types.py:48-130, scoring.py).
DecisionsFit == HarsherNeverGentler /\ LevelExplainsAction

\* Contempt leaves at most beside a fact, and no fact of a delivered email stays
\* behind (in_memory_processor.py:196-231, streamlined_processor.py).
ContentFits == ContemptOnlyWithFacts /\ FactsSurvive
=============================================================================
