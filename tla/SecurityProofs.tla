---------------------------- MODULE SecurityProofs ----------------------------
(***************************************************************************)
(* Theorems about SecurityManager: the modes of the content validator, the *)
(* replay protection of webhook calls, the types and bounds of all that is *)
(* kept, what the past no longer costs a client and the limits that hold   *)
(* for requests - for every payload, every size of the stores, every       *)
(* length of the windows and every rate, in every order of the requests.   *)
(***************************************************************************)
EXTENDS SecurityManager, FiniteSetTheorems, SequenceTheorems, TLAPS

-----------------------------------------------------------------------------
(* The content validator.                                                  *)

ContentInv == content.result = ValidateJsonPayload(content.payload, content.strict)

LEMMA ContentInvInit == Init => ContentInv
  BY DEF Init, ContentInv

LEMMA ContentInvNext == ContentInv /\ [Next]_vars => ContentInv'
  <1>. SUFFICES ASSUME ContentInv, [Next]_vars  PROVE ContentInv'
    OBVIOUS
  <1>1. CASE ValidateContent
    BY <1>1 DEF ValidateContent, ContentInv
  <1>2. CASE UNCHANGED content
    BY <1>2 DEF ContentInv
  <1>. QED  BY <1>1, <1>2 DEF Next, vars

\* An entry breaks no rule exactly if the lenient mode keeps it as it is.
LEMMA EntryUnbroken ==
  ASSUME NEW e
  PROVE  EntryViolations(e) = {} <=>
           /\ e.safeKey /\ e.value.kind # "unsupported"
           /\ \A t \in e.value.texts : Sanitised(FALSE, t).escapes = 0
  BY DEF EntryViolations, TextViolations, Sanitised

\* Strict mode accepts what the lenient one leaves as it is, whatever the payload.
THEOREM ModesAlwaysAgree == Spec => []ModesAgree
  <1>1. ASSUME ContentInv, content.strict = TRUE
        PROVE  LET lenient == ValidateJsonPayload(content.payload, FALSE)
               IN  content.result.valid <=>
                     /\ lenient.kept = DOMAIN content.payload
                     /\ \A i \in lenient.kept : lenient.escapes[i] \subseteq {0}
    <2>. DEFINE p == content.payload
                lenient == ValidateJsonPayload(p, FALSE)
    <2>1. content.result.valid <=> \A i \in DOMAIN p : EntryViolations(p[i]) = {}
      <3>. DEFINE bad == {i \in DOMAIN p : EntryViolations(p[i]) # {}}
      <3>1. bad = {} <=> \A i \in DOMAIN p : EntryViolations(p[i]) = {}
        BY Zenon
      <3>2. CASE bad = {}
        <4>. DEFINE escapes == [i \in Kept(p) |->
                                 {Sanitised(content.strict, t).escapes : t \in p[i].value.texts}]
        <4>1. content.result = [valid |-> TRUE, kept |-> Kept(p), escapes |-> escapes]
          BY <1>1, <3>2, Zenon DEF ContentInv, ValidateJsonPayload
        <4>. HIDE DEF escapes, bad
        <4>2. content.result.valid = TRUE
          BY <4>1
        <4>. QED  BY <3>1, <3>2, <4>2, Zenon
      <3>3. CASE bad # {}
        <4>1. content.result = [valid |-> FALSE, kept |-> {}, escapes |-> <<>>]
          BY <1>1, <3>3, Zenon DEF ContentInv, ValidateJsonPayload
        <4>. HIDE DEF bad
        <4>2. content.result.valid = FALSE
          BY <4>1
        <4>. QED  BY <3>1, <3>3, <4>2, Zenon
      <3>. QED  BY <3>2, <3>3, Zenon
    <2>2. /\ lenient.kept = Kept(p)
          /\ \A i \in Kept(p) :
               lenient.escapes[i] = {Sanitised(FALSE, t).escapes : t \in p[i].value.texts}
      BY DEF ValidateJsonPayload
    <2>3. Kept(p) = DOMAIN p <=>
            \A i \in DOMAIN p : p[i].safeKey /\ p[i].value.kind # "unsupported"
      BY DEF Kept
    <2>. HIDE DEF p, lenient
    <2>4. lenient.kept = DOMAIN p /\ (\A i \in lenient.kept : lenient.escapes[i] \subseteq {0})
            <=> \A i \in DOMAIN p : EntryViolations(p[i]) = {}
      <3>1. ASSUME NEW i \in Kept(p)
            PROVE  lenient.escapes[i] \subseteq {0} <=>
                     \A t \in p[i].value.texts : Sanitised(FALSE, t).escapes = 0
        BY <2>2
      <3>2. \A i \in DOMAIN p : EntryViolations(p[i]) = {} <=>
              /\ p[i].safeKey /\ p[i].value.kind # "unsupported"
              /\ \A t \in p[i].value.texts : Sanitised(FALSE, t).escapes = 0
        BY EntryUnbroken
      <3>. HIDE DEF p, lenient
      <3>. QED  BY <2>2, <2>3, <3>1, <3>2, ZenonT(30)
    <2>. QED  BY <2>1, <2>4 DEF p, lenient
  <1>2. ContentInv => ModesAgree
    BY <1>1 DEF ModesAgree
  <1>. QED  BY <1>2, ContentInvInit, ContentInvNext, PTL DEF Spec

-----------------------------------------------------------------------------
(* Webhook calls are accepted once.                                        *)

\* Why a signature accepted under the present secret cannot be accepted again:
\* it is remembered, its time is past, or one of the two named exceptions holds.
Remembered(k) ==
  /\ k \in DOMAIN processed
  /\ processed[k] \in Nat /\ processed[k] <= now
  /\ Distance(processed[k], k[2]) <= tolerance
Past(k) == now > k[2] + tolerance
Excepted(k) == changedSince \/ k \in pushedOut

\* A call without a time was signed for the second in which it was checked.
Untimed(k) == k[2] = 0 /\ \A i \in DOMAIN passes[k] : passes[k][i] = k[1].at

HookInv ==
  /\ now \in Nat /\ tolerance \in Nat /\ campaign \in Campaigns
  /\ DOMAIN processed \subseteq DOMAIN passes
  /\ \A k \in DOMAIN passes :
       /\ k[2] \in Nat /\ passes[k] \in Seq(Nat)
       /\ \/ Excepted(k) \/ Untimed(k)
          \/ k[2] # 0 /\ Len(passes[k]) = 1 /\ (Remembered(k) \/ Past(k))

LEMMA HookInvInit == Init => HookInv
  BY HookAssumption DEF Init, StartClock, HookInit, HookInv

\* What a call must be to be accepted, from the order of the checks.
LEMMA OutcomeChecks ==
  ASSUME NEW c, c.time # 0, Outcome(c) = "valid"
  PROVE  ~ (Distance(now, c.time) > tolerance) /\ Key(c) \notin DOMAIN processed
  <1>1. Distance(now, c.time) > tolerance =>
          Outcome(c) \in {"error", "large", "bad_header", "expired"}
    BY Zenon DEF Outcome
  <1>2. Key(c) \in DOMAIN processed =>
          Outcome(c) \in {"error", "large", "bad_header", "expired", "replay"}
    BY Zenon DEF Outcome
  <1>. QED  BY <1>1, <1>2

\* A clean-up only removes; what it removes is too old or counted as pushed out.
LEMMA StoresAfterRestrict ==
  ASSUME NEW p, NEW q \in StoresAfter(p)
  PROVE  DOMAIN q \subseteq DOMAIN p /\ \A k \in DOMAIN q : q[k] = p[k]
  BY DEF StoresAfter, Restrict

\* A signature without a time that is accepted was made for the present second.
LEMMA UntimedOutcome ==
  ASSUME NEW c, c.time = 0, Outcome(c) = "valid"
  PROVE  c.sig.at = now
  <1>1. c.sig # CreateSignature(c.body, secret, IF c.time # 0 THEN c.time ELSE now) =>
          Outcome(c) \in {"error", "large", "bad_header", "expired", "replay", "mismatch"}
    BY Zenon DEF Outcome
  <1>2. c.sig = CreateSignature(c.body, secret, now)
    BY <1>1
  <1>. QED  BY <1>2 DEF CreateSignature

LEMMA DistanceBound ==
  ASSUME NEW a \in Nat, NEW b \in Nat, NEW t \in Nat, Distance(a, b) <= t
  PROVE  b <= a + t
  BY DEF Distance

\* What the history says after one more acceptance.
LEMMA PassedAgainFacts ==
  ASSUME HookInv, NEW k
  PROVE  /\ DOMAIN PassedAgain(k) = DOMAIN passes \cup {k}
         /\ \A x \in DOMAIN passes : x # k => PassedAgain(k)[x] = passes[x]
         /\ PassedAgain(k)[k] \in Seq(Nat)
         /\ k \notin DOMAIN passes => Len(PassedAgain(k)[k]) = 1
         /\ \A i \in DOMAIN PassedAgain(k)[k] :
              \/ PassedAgain(k)[k][i] = now
              \/ k \in DOMAIN passes /\ i \in DOMAIN passes[k] /\ PassedAgain(k)[k][i] = passes[k][i]
  <1>. DEFINE s == IF k \in DOMAIN passes THEN passes[k] ELSE <<>>
  <1>1. s \in Seq(Nat) /\ now \in Nat /\ (k \notin DOMAIN passes => Len(s) = 0)
    BY DEF HookInv
  <1>2. /\ DOMAIN PassedAgain(k) = DOMAIN passes \cup {k}
        /\ \A x \in DOMAIN passes : x # k => PassedAgain(k)[x] = passes[x]
        /\ PassedAgain(k)[k] = Append(s, now)
    BY DEF PassedAgain
  <1>3. \A i \in DOMAIN s : k \in DOMAIN passes /\ s[i] = passes[k][i] /\ i \in DOMAIN passes[k]
    BY <1>1
  <1>. HIDE DEF s
  <1>4. /\ Append(s, now) \in Seq(Nat) /\ Len(Append(s, now)) = Len(s) + 1
        /\ \A i \in 1 .. Len(s) : Append(s, now)[i] = s[i]
        /\ Append(s, now)[Len(s) + 1] = now
    BY <1>1, AppendProperties
  <1>5. \A i \in DOMAIN Append(s, now) : i \in DOMAIN s \/ i = Len(s) + 1
    BY <1>1, <1>4
  <1>. QED  BY <1>1, <1>2, <1>3, <1>4, <1>5

LEMMA ValidateKeepsHookInv ==
  ASSUME HookInv, NEW c \in Calls(Times), ValidateSignature(c), UNCHANGED <<now, campaign>>
  PROVE  HookInv'
  <1>1. CASE Outcome(c) # "valid"
    BY <1>1 DEF ValidateSignature, HookInv, Remembered, Past, Excepted, Untimed
  <1>2. CASE Outcome(c) = "valid"
    <2>. DEFINE q == Key(c)
                p == [k \in DOMAIN processed \cup {q} |-> IF k = q THEN now ELSE processed[k]]
    <2>1. /\ passes' = PassedAgain(q)
          /\ UNCHANGED <<tolerance, changedSince>>
      BY <1>2 DEF ValidateSignature
    <2>2. /\ DOMAIN passes' = DOMAIN passes \cup {q}
          /\ \A x \in DOMAIN passes : x # q => passes'[x] = passes[x]
          /\ passes'[q] \in Seq(Nat)
          /\ q \notin DOMAIN passes => Len(passes'[q]) = 1
          /\ \A i \in DOMAIN passes'[q] :
               \/ passes'[q][i] = now
               \/ q \in DOMAIN passes /\ i \in DOMAIN passes[q] /\ passes'[q][i] = passes[q][i]
      BY <2>1, PassedAgainFacts
    <2>3. /\ q[1] = c.sig /\ q[2] = c.time /\ c.time \in Nat
          /\ now \in Nat /\ tolerance \in Nat /\ campaign \in Campaigns
          /\ DOMAIN processed \subseteq DOMAIN passes
      BY ManagerAssumption DEF Calls, Key, HookInv
    <2>4. CASE c.time = 0
      <3>1. UNCHANGED <<processed, pushedOut>>
        BY <1>2, <2>4 DEF ValidateSignature
      <3>2. c.sig.at = now
        BY <1>2, <2>4, UntimedOutcome
      <3>3. ASSUME NEW k \in DOMAIN passes'
            PROVE  /\ k[2] \in Nat /\ passes'[k] \in Seq(Nat)
                   /\ \/ Excepted(k)' \/ Untimed(k)'
                      \/ k[2] # 0 /\ Len(passes'[k]) = 1 /\ (Remembered(k)' \/ Past(k)')
        <4>1. CASE k # q
          <5>1. k \in DOMAIN passes /\ passes'[k] = passes[k]
            BY <2>2, <4>1
          <5>. QED  BY <2>1, <3>1, <5>1 DEF HookInv, Excepted, Untimed, Remembered, Past
        <4>2. CASE k = q /\ q \notin DOMAIN passes
          <5>1. Untimed(k)'
            BY <2>2, <2>3, <2>4, <3>2, <4>2 DEF Untimed
          <5>. QED  BY <2>2, <2>3, <4>2, <5>1
        <4>3. CASE k = q /\ q \in DOMAIN passes
          <5>1. Excepted(q) \/ Untimed(q)
            BY <2>3, <2>4, <4>3 DEF HookInv
          <5>2. CASE Excepted(q)
            BY <2>1, <2>2, <2>3, <3>1, <4>3, <5>2 DEF Excepted
          <5>3. CASE Untimed(q)
            BY <2>2, <2>3, <3>2, <4>3, <5>3 DEF Untimed
          <5>. QED  BY <5>1, <5>2, <5>3
        <4>. QED  BY <4>1, <4>2, <4>3
      <3>. QED  BY <2>1, <2>2, <2>3, <3>1, <3>3 DEF HookInv
    <2>5. CASE c.time # 0
      <3>1. /\ processed' \in StoresAfter(p)
            /\ pushedOut' = pushedOut \cup {k \in DOMAIN p \ DOMAIN processed' : p[k] >= Cutoff}
        BY <1>2, <2>5 DEF ValidateSignature
      <3>2. /\ DOMAIN processed' \subseteq DOMAIN processed \cup {q}
            /\ \A k \in DOMAIN processed' : processed'[k] = IF k = q THEN now ELSE processed[k]
        BY <3>1, StoresAfterRestrict
      <3>3. ~ (Distance(now, c.time) > tolerance) /\ q \notin DOMAIN processed
        BY <1>2, <2>5, OutcomeChecks
      <3>4. Distance(now, c.time) <= tolerance
        BY <2>3, <3>3 DEF Distance
      <3>5. q \in DOMAIN passes => Excepted(q)
        <4>1. ~ Past(q) /\ ~ Remembered(q) /\ ~ Untimed(q)
          BY <2>3, <2>5, <3>3, <3>4 DEF Past, Distance, Remembered, Untimed
        <4>. QED  BY <4>1 DEF HookInv
      <3>6. ASSUME NEW k \in DOMAIN passes'
            PROVE  /\ k[2] \in Nat /\ passes'[k] \in Seq(Nat)
                   /\ \/ Excepted(k)' \/ Untimed(k)'
                      \/ k[2] # 0 /\ Len(passes'[k]) = 1 /\ (Remembered(k)' \/ Past(k)')
        <4>1. CASE k = q
          <5>1. CASE k \in DOMAIN passes
            BY <2>1, <2>2, <2>3, <3>1, <3>5, <4>1, <5>1 DEF Excepted
          <5>2. CASE k \notin DOMAIN passes /\ k \in DOMAIN processed'
            <6>1. processed'[k] = now
              BY <3>2, <4>1, <5>2
            <6>2. Remembered(k)'
              BY <2>1, <2>3, <3>4, <4>1, <5>2, <6>1 DEF Remembered, Distance
            <6>. QED  BY <2>2, <2>3, <2>5, <4>1, <5>2, <6>2
          <5>3. CASE k \notin DOMAIN passes /\ k \notin DOMAIN processed'
            <6>1. p[k] >= Cutoff
              BY <2>3, <4>1 DEF Cutoff
            <6>2. k \in pushedOut'
              BY <3>1, <4>1, <5>3, <6>1
            <6>. QED  BY <2>2, <2>3, <4>1, <6>2 DEF Excepted
          <5>. QED  BY <5>1, <5>2, <5>3
        <4>2. CASE k # q
          <5>1. k \in DOMAIN passes /\ passes'[k] = passes[k] /\ k[2] \in Nat /\ passes[k] \in Seq(Nat)
            BY <2>2, <4>2 DEF HookInv
          <5>2. CASE Excepted(k)
            BY <2>1, <3>1, <5>1, <5>2 DEF Excepted
          <5>3. CASE Untimed(k)
            BY <5>1, <5>3 DEF Untimed
          <5>4. CASE Past(k) /\ Len(passes[k]) = 1 /\ k[2] # 0
            BY <2>1, <5>1, <5>4 DEF Past
          <5>5. CASE Remembered(k) /\ Len(passes[k]) = 1 /\ k[2] # 0 /\ k \in DOMAIN processed'
            BY <2>1, <3>2, <4>2, <5>1, <5>5 DEF Remembered, Distance
          <5>6. CASE Remembered(k) /\ k \notin DOMAIN processed' /\ processed[k] >= Cutoff
            <6>1. k \in pushedOut'
              BY <3>1, <4>2, <5>6 DEF Remembered
            <6>. QED  BY <5>1, <6>1 DEF Excepted
          <5>7. CASE Remembered(k) /\ ~ (processed[k] >= Cutoff) /\ Len(passes[k]) = 1 /\ k[2] # 0
            <6>1. k[2] <= processed[k] + tolerance
              BY <2>3, <5>1, <5>7, DistanceBound DEF Remembered
            <6>2. Past(k)
              BY <2>3, <5>1, <5>7, <6>1 DEF Remembered, Cutoff, Past
            <6>. QED  BY <2>1, <5>1, <5>7, <6>2 DEF Past
          <5>. QED  BY <5>1, <5>2, <5>3, <5>4, <5>5, <5>6, <5>7 DEF HookInv
        <4>. QED  BY <4>1, <4>2
      <3>. QED  BY <2>1, <2>2, <2>3, <3>2, <3>6 DEF HookInv
    <2>. QED  BY <2>4, <2>5
  <1>. QED  BY <1>1, <1>2

LEMMA ConfigureKeepsHookInv ==
  ASSUME HookInv, ConfigureHooks, UNCHANGED <<now, campaign>>
  PROVE  HookInv'
  <1>1. CASE \E s \in Secrets : ConfigureWebhookSecret(s)
    BY <1>1, HookAssumption DEF ConfigureWebhookSecret, HookInv
  <1>2. CASE \E s \in Secrets : UpdateSecret(s)
    BY <1>2 DEF UpdateSecret, HookInv
  <1>3. ASSUME NEW t \in Tolerances, ConfigureTolerance(t)
        PROVE  HookInv'
    <2>1. CASE t = tolerance
      BY <1>3, <2>1 DEF ConfigureTolerance, HookInv, Remembered, Past, Excepted, Untimed
    <2>2. CASE t # tolerance
      <3>1. changedSince' /\ t \in Nat /\ UNCHANGED <<processed, passes>>
        BY <1>3, <2>2, HookAssumption DEF ConfigureTolerance
      <3>. QED  BY <1>3, <3>1 DEF ConfigureTolerance, HookInv, Excepted
    <2>. QED  BY <2>1, <2>2
  <1>. QED  BY <1>1, <1>2, <1>3 DEF ConfigureHooks

LEMMA HookStep == HookInv /\ [Next]_vars => HookInv'
  <1>. SUFFICES ASSUME HookInv, [Next]_vars  PROVE HookInv'
    OBVIOUS
  <1>1. ASSUME UNCHANGED <<processed, tolerance, passes, pushedOut, changedSince, campaign>>,
               now' \in Nat, now <= now'
        PROVE  HookInv'
    <2>1. \A k : k[2] \in Nat /\ Past(k) => Past(k)'
      BY <1>1 DEF HookInv, Past
    <2>2. \A k : Remembered(k) => Remembered(k)'
      BY <1>1 DEF HookInv, Remembered
    <2>3. \A k : (Excepted(k) => Excepted(k)') /\ (Untimed(k) => Untimed(k)')
      BY <1>1 DEF Excepted, Untimed
    <2>. QED  BY <1>1, <2>1, <2>2, <2>3 DEF HookInv
  <1>2. CASE Setup /\ UNCHANGED <<now, campaign>>
    <2>1. ConfigureHooks => HookInv'
      BY <1>2, ConfigureKeepsHookInv
    <2>2. Setup => ConfigureHooks \/ UNCHANGED hookVars
      BY DEF Setup, ConfigureAddresses, ConfigureRates, EnableThreatDetection, EnableAuditLogging
    <2>. QED  BY <1>1, <1>2, <2>1, <2>2 DEF HookInv, hookVars
  <1>3. CASE Operation /\ UNCHANGED <<now, campaign>>
    <2>1. ASSUME NEW k \in Keys, NEW s \in campaign.samples,
                 ValidateRequest(k, s.request, s.headers, s.call)
          PROVE  HookInv'
      <3>1. s.call \in Calls(Times)
        BY ManagerAssumption DEF HookInv
      <3>2. \/ ValidateSignature(s.call)
            \/ UNCHANGED <<processed, tolerance, passes, pushedOut, changedSince>>
        BY <2>1 DEF ValidateRequest, ValidateWebhook, ValidateJsonWebhook, hookVars
      <3>. QED  BY <1>1, <1>3, <3>1, <3>2, ValidateKeepsHookInv DEF HookInv
    <2>2. CASE RecordEvent \/ \E c \in Clients, why \in Reasons : RecordFailedRequest(c, why)
      <3>1. UNCHANGED hookVars
        BY <2>2 DEF RecordEvent, RecordFailedRequest
      <3>. QED  BY <1>1, <1>3, <3>1 DEF HookInv, hookVars
    <2>. QED  BY <1>3, <2>1, <2>2 DEF Operation
  <1>4. CASE ValidateContent /\ UNCHANGED <<now, campaign>>
    BY <1>1, <1>4 DEF ValidateContent, HookInv, hookVars
  <1>5. CASE Tick /\ UNCHANGED <<hookVars, campaign>>
    BY <1>1, <1>5 DEF Tick, HookInv, hookVars
  <1>6. CASE UNCHANGED vars
    BY <1>1, <1>6 DEF vars, HookInv, hookVars
  <1>. QED  BY <1>2, <1>3, <1>4, <1>5, <1>6 DEF Next

\* However small the store and however long the tolerance, a signature is accepted
\* once under one secret, but for a change of the tolerance, for a full store that
\* pushed it out, and for signatures without a time, which pass as often as they
\* are sent in the second they were made for.
THEOREM AcceptedAtMostOnce == Spec => []AcceptedOnce
  <1>1. HookInv => AcceptedOnce
    BY DEF HookInv, AcceptedOnce, Excepted, Untimed
  <1>. QED  BY <1>1, HookInvInit, HookStep, PTL DEF Spec

-----------------------------------------------------------------------------
(* Facts about numbers and lists.                                          *)

LEMMA LeastOf ==
  ASSUME NEW S, S \subseteq Nat, S # {}
  PROVE  \E x \in S : \A y \in S : x <= y
  <1>. DEFINE less == OpToRel(<, Nat)
  <1>1. PICK x \in S : \A y \in S : ~ (<<y, x>> \in less)
    <2>1. IsWellFoundedOn(less, Nat)
      BY NatLessThanWellFounded
    <2>. HIDE DEF less
    <2>. QED  BY <2>1, WFMin
  <1>2. \A a, b \in Nat : a < b => <<a, b>> \in less
    BY DEF OpToRel
  <1>. HIDE DEF less
  <1>3. \A y \in S : ~ (y < x)
    BY <1>1, <1>2
  <1>. QED  BY <1>3

LEMMA Induction ==
  ASSUME NEW S, 0 \in S, \A n \in S \cap Nat : n + 1 \in S
  PROVE  Nat \subseteq S
  <1>. SUFFICES ASSUME Nat \ S # {}  PROVE FALSE
    OBVIOUS
  <1>1. PICK x \in Nat \ S : \A y \in Nat \ S : x <= y
    BY LeastOf
  <1>2. x # 0 /\ x - 1 \in Nat /\ ~ (x <= x - 1)
    OBVIOUS
  <1>3. x - 1 \in S
    BY <1>1, <1>2
  <1>4. (x - 1) + 1 \in S
    BY <1>2, <1>3, Zenon
  <1>. QED  BY <1>4

LEMMA MaxOf ==
  ASSUME NEW n \in Nat, NEW S, S \subseteq 0 .. n, S # {}
  PROVE  Max(S) \in S /\ \A y \in S : y <= Max(S)
  <1>. DEFINE T == {n - y : y \in S}
  <1>1. PICK t \in T : \A y \in T : t <= y
    <2>1. \A y \in S : n - y \in Nat
      OBVIOUS
    <2>2. T \subseteq Nat /\ T # {}
      BY <2>1
    <2>. QED  BY <2>2, LeastOf
  <1>2. PICK x \in S : t = n - x
    OBVIOUS
  <1>3. \A y \in S : x >= y
    BY <1>1, <1>2
  <1>. QED  BY <1>3, Zenon DEF Max

LEMMA Bounded ==
  ASSUME NEW n \in Nat, NEW f, \A i \in 1 .. n : f[i] \in Nat
  PROVE  \E b \in Nat : \A i \in 1 .. n : f[i] <= b
  <1>. DEFINE S == {m \in Nat : m <= n => \E b \in Nat : \A i \in 1 .. m : f[i] <= b}
  <1>1. 0 \in S
    OBVIOUS
  <1>2. ASSUME NEW m \in S, m + 1 <= n
        PROVE  \E b \in Nat : \A i \in 1 .. m + 1 : f[i] <= b
    <2>1. PICK b \in Nat : \A i \in 1 .. m : f[i] <= b
      BY <1>2
    <2>2. CASE f[m + 1] <= b
      BY <2>1, <2>2
    <2>3. CASE ~ (f[m + 1] <= b)
      <3>1. f[m + 1] \in Nat /\ \A i \in 1 .. m + 1 : f[i] <= f[m + 1]
        BY <1>2, <2>1, <2>3
      <3>. QED  BY <3>1
    <2>. QED  BY <2>2, <2>3
  <1>3. ASSUME NEW m \in S \cap Nat  PROVE m + 1 \in S
    <2>1. m + 1 \in Nat
      OBVIOUS
    <2>2. m + 1 <= n => \E b \in Nat : \A i \in 1 .. m + 1 : f[i] <= b
      BY <1>2
    <2>. QED  BY <2>1, <2>2
  <1>4. n \in S
    <2>. HIDE DEF S
    <2>. QED  BY <1>1, <1>3, Induction
  <1>. QED  BY <1>4

\* What is kept of a list is what follows its first m entries.
LEMMA Dropped ==
  ASSUME NEW T, NEW s \in Seq(T), NEW old, old \subseteq DOMAIN s
  PROVE  LET d == DropThrough(s, old)
             m == Len(s) - Len(d)
         IN  /\ d \in Seq(T) /\ m \in 0 .. Len(s)
             /\ m = 0 \/ m \in old
             /\ \A i \in old : i <= m
             /\ \A i \in 1 .. Len(d) : d[i] = s[m + i]
  <1>. DEFINE m == Max({0} \cup old)
              d == DropThrough(s, old)
  <1>1. m \in {0} \cup old /\ \A i \in {0} \cup old : i <= m
    <2>1. {0} \cup old \subseteq 0 .. Len(s)
      OBVIOUS
    <2>2. Len(s) \in Nat /\ {0} \cup old # {}
      OBVIOUS
    <2>. QED  BY <2>1, <2>2, MaxOf, Zenon
  <1>2. d = SubSeq(s, m + 1, Len(s))
    BY DEF DropThrough
  <1>. HIDE DEF m
  <1>3. m \in 0 .. Len(s)
    BY <1>1
  <1>4. /\ SubSeq(s, m + 1, Len(s)) \in Seq(T)
        /\ Len(SubSeq(s, m + 1, Len(s))) = Len(s) - m
        /\ \A i \in 1 .. Len(s) - m : SubSeq(s, m + 1, Len(s))[i] = s[m + i]
    BY <1>3, SubSeqProperties
  <1>. HIDE DEF d
  <1>5. d \in Seq(T) /\ Len(d) = Len(s) - m /\ \A i \in 1 .. Len(d) : d[i] = s[m + i]
    BY <1>2, <1>4
  <1>6. m = Len(s) - Len(d)
    BY <1>3, <1>5
  <1>7. /\ d \in Seq(T) /\ m \in 0 .. Len(s)
        /\ m = 0 \/ m \in old
        /\ \A i \in old : i <= m
        /\ \A i \in 1 .. Len(d) : d[i] = s[m + i]
    BY <1>1, <1>3, <1>5
  <1>. QED  BY <1>6, <1>7 DEF d

-----------------------------------------------------------------------------
(* What the rate limiter keeps.                                            *)

Kinds == {"fixed", "bucket", "refill"}
Counters == [count : Nat, expires : Nat]
Answers == [allowed : BOOLEAN, remaining : Nat, retry : Nat, limit : Nat]
Grants == [at : Nat, limit : Nat]
Refusals == [key : Keys, at : Nat]

\* A configured endpoint with a rate has a burst as well.
LimitTypes ==
  /\ DOMAIN limits \subseteq Endpoints /\ DOMAIN load = DOMAIN limits
  /\ \A e \in DOMAIN limits :
       /\ limits[e].rate \in Nat /\ limits[e].burst \in Nat /\ load[e] \in Nat
       /\ limits[e].rate >= 1 => limits[e].burst >= 1

StoreTypes ==
  /\ counts \in [Keys \X Kinds -> Counters]
  /\ windows \in [Keys -> Seq(Nat)]

CacheTypes ==
  /\ DOMAIN cache \subseteq Keys /\ IsFiniteSet(DOMAIN cache)
  /\ Cardinality(DOMAIN cache) <= CacheSize
  /\ \A k \in DOMAIN cache : cache[k].at \in Nat /\ cache[k].answer \in Answers

ViolationTypes == violations \in Seq(Refusals) /\ Len(violations) <= MaxViolations

HistoryTypes ==
  /\ rate \in Answers
  /\ asked \in [Keys -> Int]
  /\ granted \in [Keys -> Seq(Grants)]

RateTypes ==
  /\ strategy \in Strategies /\ distributed \in BOOLEAN
  /\ LimitTypes /\ StoreTypes /\ CacheTypes /\ ViolationTypes /\ HistoryTypes

LEMMA RateTypesInit == RateInit => RateTypes
  <1>. SUFFICES ASSUME RateInit  PROVE RateTypes
    OBVIOUS
  <1>1. LimitTypes
    BY DEF RateInit, LimitTypes
  <1>2. StoreTypes
    BY DEF RateInit, StoreTypes, Kinds, Counters, Zero
  <1>3. CacheTypes
    <2>1. DOMAIN cache = {}
      BY DEF RateInit
    <2>. QED  BY <2>1, FS_EmptySet, RateAssumption DEF CacheTypes
  <1>4. ViolationTypes
    BY RateAssumption DEF RateInit, ViolationTypes
  <1>5. HistoryTypes
    BY RateAssumption DEF RateInit, HistoryTypes, Answers, Permissive, Answer
  <1>. QED  BY <1>1, <1>2, <1>3, <1>4, <1>5 DEF RateInit, RateTypes

LEMMA EffectiveType ==
  ASSUME LimitTypes, NEW e
  PROVE  /\ Effective(e) \in Nat /\ Configured(e).burst \in Nat
         /\ Effective(e) >= 1 => Configured(e).burst >= 1
  <1>1. /\ Configured(e).rate \in Nat /\ Configured(e).burst \in Nat /\ Factor(e) \in Nat
        /\ Configured(e).rate >= 1 => Configured(e).burst >= 1
    BY RateAssumption DEF Configured, Factor, LimitTypes
  <1>2. Configured(e).rate * Factor(e) \in Nat
    BY <1>1
  <1>3. \A n \in Nat : n \div 100 \in Nat
    OBVIOUS
  <1>4. Effective(e) \in Nat
    BY <1>2, <1>3 DEF Effective
  <1>5. Configured(e).rate = 0 => Effective(e) = 0
    BY <1>1 DEF Effective
  <1>. QED  BY <1>1, <1>4, <1>5

\* Raising a counter counts one more than it was worth.
LEMMA RaiseType ==
  ASSUME NEW k \in Keys \X Kinds, NEW life \in Nat, StoreTypes, now \in Nat
  PROVE  /\ Raise(k, life) \in Counters
         /\ Raise(k, life).count = Count(k) + 1
         /\ Count(k) \in Nat
         /\ Raise(k, life).expires =
              IF distributed \/ counts[k].expires < now THEN now + life ELSE counts[k].expires
  BY DEF Raise, RaiseInRedis, RaiseInMemory, Count, StoreTypes, Counters

LEMMA MaxOfTwo ==
  ASSUME NEW a \in Int, NEW b \in Int
  PROVE  Max({a, b}) \in {a, b} /\ a <= Max({a, b}) /\ b <= Max({a, b})
  <1>1. \E x \in {a, b} : \A y \in {a, b} : x >= y
    OBVIOUS
  <1>2. Max({a, b}) \in {a, b} /\ \A y \in {a, b} : Max({a, b}) >= y
    BY <1>1, Zenon DEF Max
  <1>. QED  BY <1>2

LEMMA MinOfTwo ==
  ASSUME NEW a \in Int, NEW b \in Int
  PROVE  Min({a, b}) \in {a, b} /\ Min({a, b}) <= a /\ Min({a, b}) <= b
  <1>1. \E x \in {a, b} : \A y \in {a, b} : x <= y
    OBVIOUS
  <1>2. Min({a, b}) \in {a, b} /\ \A y \in {a, b} : Min({a, b}) <= y
    BY <1>1, Zenon DEF Min
  <1>. QED  BY <1>2

\* The window after a request: what is left of it and the request, without its
\* first entries, which are as many as there are up to the last old one, or as
\* many as Redis trims.
Gone(k) == Len(windows[k]) + 1 - Len(Enter(k))

LEMMA EnterKeeps ==
  ASSUME NEW k \in Keys, StoreTypes, now \in Nat
  PROVE  /\ Enter(k) \in Seq(Nat)
         /\ Gone(k) \in 0 .. Len(windows[k]) + 1
         /\ \A i \in 1 .. Len(Enter(k)) :
              Enter(k)[i] = IF Gone(k) + i <= Len(windows[k]) THEN windows[k][Gone(k) + i] ELSE now
         /\ \/ Gone(k) = 0
            \/ Gone(k) = Len(windows[k]) + 1 /\ WindowSize = 0
            \/ Gone(k) <= Len(windows[k]) /\ windows[k][Gone(k)] <= now - WindowSize
            \/ distributed /\ Gone(k) <= Len(windows[k]) /\ Len(Enter(k)) = WindowKept
         /\ distributed => Len(Enter(k)) <= WindowKept
         /\ \A i \in 1 .. Len(windows[k]) : windows[k][i] <= now - WindowSize => i <= Gone(k)
  <1>. DEFINE w == Append(windows[k], now)
              trimmed == IF distributed THEN {i \in DOMAIN w : i <= Len(w) - WindowKept} ELSE {}
              old == trimmed \cup {i \in DOMAIN w : w[i] <= now - WindowSize}
              d == DropThrough(w, old)
  <1>1. windows[k] \in Seq(Nat) /\ WindowSize \in Nat /\ WindowKept \in Nat \ {0}
    BY RateAssumption DEF StoreTypes
  <1>2. /\ w \in Seq(Nat) /\ Len(w) = Len(windows[k]) + 1
        /\ \A i \in 1 .. Len(windows[k]) : w[i] = windows[k][i]
        /\ w[Len(windows[k]) + 1] = now
    BY <1>1, AppendProperties
  <1>3. Enter(k) = d
    BY DEF Enter
  <1>. HIDE DEF w
  <1>4. old \subseteq DOMAIN w
    OBVIOUS
  <1>. HIDE DEF old
  <1>5. LET m == Len(w) - Len(d)
        IN  /\ d \in Seq(Nat) /\ m \in 0 .. Len(w)
            /\ m = 0 \/ m \in old
            /\ \A i \in old : i <= m
            /\ \A i \in 1 .. Len(d) : d[i] = w[m + i]
    <2>1. w \in Seq(Nat)
      BY <1>2
    <2>2. d \in Seq(Nat)
      BY <2>1, <1>4, Dropped
    <2>3. \A i \in old : i <= Len(w) - Len(d)
      BY <2>1, <1>4, Dropped
    <2>4. Len(w) - Len(d) = 0 \/ Len(w) - Len(d) \in old
      BY <2>1, <1>4, Dropped
    <2>5. Len(w) - Len(d) \in 0 .. Len(w)
      BY <2>1, <1>4, Dropped
    <2>6. \A i \in 1 .. Len(d) : d[i] = w[Len(w) - Len(d) + i]
      BY <2>1, <1>4, Dropped
    <2>. QED BY <2>2, <2>3, <2>4, <2>5, <2>6
  <1>. HIDE DEF d
  <1>. DEFINE m == Gone(k)
  <1>6. /\ d \in Seq(Nat) /\ m \in 0 .. Len(w) /\ Len(d) = Len(windows[k]) + 1 - m
        /\ m = 0 \/ m \in old
        /\ \A i \in old : i <= m
        /\ \A i \in 1 .. Len(d) : d[i] = w[m + i]
    <2>1. m = Len(w) - Len(d)
      BY <1>2, <1>3 DEF Gone
    <2>. HIDE DEF m
    <2>2. /\ d \in Seq(Nat) /\ m \in 0 .. Len(w)
          /\ m = 0 \/ m \in old
          /\ \A i \in old : i <= m
          /\ \A i \in 1 .. Len(d) : d[i] = w[m + i]
      BY <1>5, <2>1
    <2>3. Len(d) = Len(windows[k]) + 1 - m
      BY <1>1, <1>2, <2>1, <2>2
    <2>. QED  BY <2>2, <2>3
  <1>. HIDE DEF m
  <1>7. ASSUME NEW i \in 1 .. Len(d)
        PROVE  d[i] = IF m + i <= Len(windows[k]) THEN windows[k][m + i] ELSE now
    <2>1. d[i] = w[m + i] /\ m + i \in 1 .. Len(windows[k]) + 1
      BY <1>1, <1>2, <1>6
    <2>. QED  BY <1>1, <1>2, <2>1, SMTT(30)
  <1>8. /\ \/ m = 0
           \/ m = Len(windows[k]) + 1 /\ WindowSize = 0
           \/ m <= Len(windows[k]) /\ windows[k][m] <= now - WindowSize
           \/ distributed /\ m <= Len(windows[k]) /\ Len(d) = WindowKept
        /\ distributed => Len(d) <= WindowKept
    <2>1. \A i \in DOMAIN w : distributed /\ i <= Len(w) - WindowKept => i \in old
      BY DEF old
    <2>2. distributed => Len(d) <= WindowKept
      <3>1. CASE distributed /\ Len(w) - WindowKept >= 1
        <4>1. Len(w) - WindowKept \in DOMAIN w
          BY <1>1, <1>2, <3>1
        <4>2. Len(w) - WindowKept \in old
          <5>1. Len(w) - WindowKept <= Len(w) - WindowKept
            BY <1>1, <1>2
          <5>. QED  BY <2>1, <3>1, <4>1, <5>1, Zenon
        <4>3. Len(w) - WindowKept <= m
          BY <1>6, <4>2, Zenon
        <4>. QED  BY <1>1, <1>2, <1>6, <4>3
      <3>2. CASE ~ (Len(w) - WindowKept >= 1)
        BY <1>1, <1>2, <1>6, <3>2
      <3>. QED  BY <3>1, <3>2
    <2>3. SUFFICES ASSUME m # 0, m \in old
                   PROVE  \/ m = Len(windows[k]) + 1 /\ WindowSize = 0
                          \/ m <= Len(windows[k]) /\ windows[k][m] <= now - WindowSize
                          \/ distributed /\ m <= Len(windows[k]) /\ Len(d) = WindowKept
      BY <1>6, <2>2
    <2>4. \/ w[m] <= now - WindowSize
          \/ distributed /\ m <= Len(w) - WindowKept
      BY <2>3 DEF old
    <2>5. CASE w[m] <= now - WindowSize
      BY <1>1, <1>2, <1>6, <2>3, <2>5, SMTT(30)
    <2>6. CASE distributed /\ m <= Len(w) - WindowKept
      <3>1. Len(d) <= WindowKept /\ Len(d) \in Nat
        BY <1>6, <2>2, <2>6
      <3>2. Len(d) >= WindowKept /\ m <= Len(windows[k])
        BY <1>1, <1>2, <1>6, <2>6
      <3>. QED  BY <1>1, <2>6, <3>1, <3>2
    <2>. QED  BY <2>4, <2>5, <2>6
  <1>9. ASSUME NEW i \in 1 .. Len(windows[k]), windows[k][i] <= now - WindowSize
        PROVE  i <= m
    <2>1. i \in old
      BY <1>1, <1>2, <1>9 DEF old
    <2>. QED  BY <1>6, <2>1
  <1>. QED  BY <1>2, <1>3, <1>6, <1>7, <1>8, <1>9 DEF m

LEMMA FixedTypes ==
  ASSUME RateTypes, now \in Nat, NEW k \in Keys, NEW up \in BOOLEAN, Fixed(k, up)
  PROVE  StoreTypes' /\ rate' \in Answers
  <1>. DEFINE c == <<k, "fixed">>
              n == IF up THEN Raise(c, WindowSize).count ELSE 0
              limit == Effective(k[2])
  <1>1. c \in Keys \X Kinds /\ WindowSize \in Nat
    BY RateAssumption DEF Kinds
  <1>2. Raise(c, WindowSize) \in Counters /\ n \in Nat /\ limit \in Nat
    BY <1>1, RaiseType, EffectiveType DEF RateTypes, Counters
  <1>3. /\ counts' = IF up THEN [counts EXCEPT ![c] = Raise(c, WindowSize)] ELSE counts
        /\ rate' = IF n <= limit THEN Answer(TRUE, limit - n, 0, limit)
                                 ELSE Answer(FALSE, 0, WindowSize, limit)
        /\ windows' = windows
    BY DEF Fixed
  <1>. HIDE DEF c, n, limit
  <1>4. StoreTypes'
    BY <1>1, <1>2, <1>3 DEF RateTypes, StoreTypes
  <1>5. n <= limit => limit - n \in Nat
    BY <1>2
  <1>. QED  BY <1>1, <1>2, <1>3, <1>4, <1>5 DEF Answer, Answers

LEMMA SlidingTypes ==
  ASSUME RateTypes, now \in Nat, NEW k \in Keys, NEW up \in BOOLEAN, Sliding(k, up)
  PROVE  StoreTypes' /\ rate' \in Answers
  <1>. DEFINE w == IF up THEN Enter(k) ELSE <<>>
              wait == Max({1, w[1] + WindowSize - now})
              limit == Effective(k[2])
  <1>1. w \in Seq(Nat) /\ Len(w) \in Nat /\ WindowSize \in Nat /\ limit \in Nat
    BY EnterKeeps, EffectiveType, RateAssumption DEF RateTypes
  <1>2. /\ windows' = IF up THEN [windows EXCEPT ![k] = w] ELSE windows
        /\ rate' = IF Len(w) <= limit THEN Answer(TRUE, limit - Len(w), 0, limit)
                                      ELSE Answer(FALSE, 0, wait, limit)
        /\ counts' = counts
    BY DEF Sliding
  <1>3. Len(w) > limit => wait \in Nat
    <2>. SUFFICES ASSUME Len(w) > limit  PROVE wait \in Nat
      OBVIOUS
    <2>. HIDE DEF w, limit
    <2>. DEFINE x == w[1] + WindowSize - now
    <2>1. x \in Int /\ 1 \in Int
      BY <1>1
    <2>2. wait \in {1, x} /\ 1 <= wait
      <3>. HIDE DEF x
      <3>1. Max({1, x}) \in {1, x} /\ 1 <= Max({1, x})
        BY <2>1, MaxOfTwo, Zenon
      <3>. QED  BY <3>1, Zenon DEF x
    <2>. QED  BY <2>1, <2>2
  <1>. HIDE DEF w, limit, wait
  <1>4. StoreTypes'
    BY <1>1, <1>2 DEF RateTypes, StoreTypes
  <1>5. Len(w) <= limit => limit - Len(w) \in Nat
    BY <1>1
  <1>. QED  BY <1>1, <1>2, <1>3, <1>4, <1>5 DEF Answer, Answers

LEMMA BucketTypes ==
  ASSUME RateTypes, now \in Nat, NEW k \in Keys, NEW up \in BOOLEAN, Bucket(k, up)
  PROVE  StoreTypes' /\ rate' \in Answers
  <1>. DEFINE tokens == Tokens(k, up)
              limit == Effective(k[2])
              b == <<k, "bucket">>
              r == <<k, "refill">>
  <1>1. b \in Keys \X Kinds /\ r \in Keys \X Kinds /\ BucketLife \in Nat
    BY RateAssumption DEF Kinds
  <1>2. /\ Raise(b, BucketLife) \in Counters /\ Raise(r, BucketLife) \in Counters
        /\ Count(b) \in Nat /\ limit \in Nat /\ Configured(k[2]).burst \in Nat
    BY <1>1, RaiseType, EffectiveType DEF RateTypes
  <1>3. tokens \in Nat
    <2>1. Min({Configured(k[2]).burst, Count(b)}) \in {Configured(k[2]).burst, Count(b)}
      <3>1. Configured(k[2]).burst \in Int /\ Count(b) \in Int
        BY <1>2
      <3>. QED  BY <3>1, MinOfTwo, Zenon
    <2>2. tokens \in {Configured(k[2]).burst, Min({Configured(k[2]).burst, Count(b)})}
      BY Zenon DEF Tokens
    <2>. QED  BY <1>2, <2>1, <2>2
  <1>4. /\ counts' = IF up /\ tokens > 0
                     THEN [counts EXCEPT ![b] = Raise(b, BucketLife), ![r] = Raise(r, BucketLife)]
                     ELSE counts
        /\ rate' = IF tokens > 0 THEN Answer(TRUE, tokens - 1, 0, limit)
                   ELSE IF limit = 0 THEN Permissive
                   ELSE Answer(FALSE, 0, 60 \div limit, limit)
        /\ windows' = windows
    BY DEF Bucket
  <1>. HIDE DEF tokens, limit, b, r
  <1>5. StoreTypes'
    BY <1>1, <1>2, <1>4 DEF RateTypes, StoreTypes
  <1>6. (tokens > 0 => tokens - 1 \in Nat) /\ (limit # 0 => 60 \div limit \in Nat)
    BY <1>2, <1>3
  <1>. QED  BY <1>2, <1>4, <1>5, <1>6 DEF Answer, Answers, Permissive

\* The violations: a clean-up drops the old ones, and beyond the bound the first
\* goes when one is added.
LEMMA ViolationsStayTyped ==
  ASSUME RateTypes, now \in Nat, NEW k \in Keys
  PROVE  /\ ViolationsAfterCleanup \in Seq(Refusals)
         /\ Len(ViolationsAfterCleanup) <= MaxViolations
         /\ RecordViolation(k) \in Seq(Refusals) /\ Len(RecordViolation(k)) <= MaxViolations
  <1>. DEFINE old == {i \in DOMAIN violations : violations[i].at <= now - ViolationLife}
              v == ViolationsAfterCleanup
              all == Append(v, [key |-> k, at |-> now])
  <1>1. MaxViolations \in Nat /\ violations \in Seq(Refusals) /\ Len(violations) <= MaxViolations
    BY RateAssumption DEF RateTypes, ViolationTypes
  <1>2. old \subseteq DOMAIN violations
    OBVIOUS
  <1>3. v = violations \/ v = DropThrough(violations, old)
    BY DEF ViolationsAfterCleanup
  <1>. HIDE DEF old
  <1>4. DropThrough(violations, old) \in Seq(Refusals)
    BY <1>1, <1>2, Dropped
  <1>5. Len(violations) - Len(DropThrough(violations, old)) \in 0 .. Len(violations)
    BY <1>1, <1>2, Dropped
  <1>. HIDE DEF v
  <1>6. v \in Seq(Refusals) /\ Len(v) <= MaxViolations
    BY <1>1, <1>3, <1>4, <1>5
  <1>7. [key |-> k, at |-> now] \in Refusals
    BY DEF Refusals
  <1>8. all \in Seq(Refusals) /\ Len(all) = Len(v) + 1
    BY <1>6, <1>7, AppendProperties
  <1>9. RecordViolation(k) = IF Len(all) > MaxViolations THEN Tail(all) ELSE all
    BY DEF RecordViolation, v
  <1>. HIDE DEF all
  <1>10. all # <<>> => Tail(all) \in Seq(Refusals) /\ Len(Tail(all)) = Len(all) - 1
    BY <1>8, HeadTailProperties
  <1>. QED  BY <1>1, <1>6, <1>8, <1>9, <1>10 DEF v

\* The cache: a set of answers that is typed and no larger than CacheSize.
AnswersIn(c) ==
  /\ DOMAIN c \subseteq Keys /\ IsFiniteSet(DOMAIN c)
  /\ \A k \in DOMAIN c : c[k].at \in Nat /\ c[k].answer \in Answers

LEMMA FewerAnswers ==
  ASSUME NEW c, AnswersIn(c), NEW S, S \subseteq DOMAIN c
  PROVE  AnswersIn(Restrict(c, S)) /\ Cardinality(S) <= Cardinality(DOMAIN c)
         /\ DOMAIN Restrict(c, S) = S
         /\ \A k \in S : Restrict(c, S)[k] = c[k]
  <1>1. DOMAIN Restrict(c, S) = S /\ \A k \in S : Restrict(c, S)[k] = c[k]
    BY DEF Restrict
  <1>2. IsFiniteSet(S) /\ Cardinality(S) <= Cardinality(DOMAIN c)
    BY FS_Subset DEF AnswersIn
  <1>. QED  BY <1>1, <1>2 DEF AnswersIn

\* What the cache may become is typed and bounded, and each answer in it is the
\* new one or was there.
LEMMA CachedAnswers ==
  ASSUME NEW c, AnswersIn(c), Cardinality(DOMAIN c) <= CacheSize,
         NEW k \in Keys, NEW r \in Answers, now \in Nat, NEW d \in CachesAfter(c, k, r)
  PROVE  /\ AnswersIn(d) /\ Cardinality(DOMAIN d) <= CacheSize
         /\ \A x \in DOMAIN d : \/ x \in DOMAIN c /\ d[x] = c[x]
                                \/ /\ x = k /\ d[x] = [at |-> now, answer |-> r]
                                   /\ r.allowed /\ 10 * r.remaining > r.limit
  <1>. DEFINE a == Answered(c, k, r)
              size == Cardinality(DOMAIN a)
              n == Min({size, size - CacheSize + CacheSlack})
  <1>1. CASE ~ (r.allowed /\ 10 * r.remaining > r.limit)
    BY <1>1 DEF CachesAfter
  <1>2. CASE r.allowed /\ 10 * r.remaining > r.limit
    <2>1. /\ DOMAIN a = DOMAIN c \cup {k}
          /\ \A x \in DOMAIN a : a[x] = IF x = k THEN [at |-> now, answer |-> r] ELSE c[x]
      BY DEF Answered
    <2>2. AnswersIn(a)
      <3>1. IsFiniteSet(DOMAIN c \cup {k})
        BY FS_AddElement DEF AnswersIn
      <3>. HIDE DEF a
      <3>. QED  BY <2>1, <3>1 DEF AnswersIn
    <2>3. size \in Nat /\ CacheSize \in Nat /\ CacheSlack \in Nat
      BY <2>2, FS_CardinalityType, RateAssumption DEF AnswersIn
    <2>4. d \in IF size <= CacheSize THEN {a}
                ELSE {Restrict(a, DOMAIN a \ S) : S \in OldestSets(a, n)}
      BY <1>2, Zenon DEF CachesAfter
    <2>5. AnswersIn(d) /\ Cardinality(DOMAIN d) <= CacheSize /\ DOMAIN d \subseteq DOMAIN a
          /\ \A x \in DOMAIN d : d[x] = a[x]
      <3>1. CASE size <= CacheSize
        BY <2>2, <2>4, <3>1
      <3>2. CASE ~ (size <= CacheSize)
        <4>1. PICK S \in OldestSets(a, n) : d = Restrict(a, DOMAIN a \ S)
          BY <2>4, <3>2, Zenon
        <4>2. S \subseteq DOMAIN a /\ Cardinality(S) = n
          BY <4>1 DEF OldestSets
        <4>3. n >= size - CacheSize
          <5>1. n \in {size, size - CacheSize + CacheSlack}
            <6>1. size \in Int /\ size - CacheSize + CacheSlack \in Int
              BY <2>3
            <6>. QED  BY <6>1, MinOfTwo, Zenon
          <5>. QED  BY <2>3, <5>1
        <4>. HIDE DEF a, n
        <4>4. IsFiniteSet(DOMAIN a) /\ (DOMAIN a) \cap S = S
          BY <2>2, <4>2 DEF AnswersIn
        <4>5. Cardinality(DOMAIN a \ S) = size - Cardinality(S)
          BY <4>4, FS_Difference
        <4>6. n \in Nat
          BY <4>2, <4>4, FS_Subset, FS_CardinalityType
        <4>7. /\ AnswersIn(d) /\ DOMAIN d = DOMAIN a \ S
              /\ \A x \in DOMAIN d : d[x] = a[x]
          BY <2>2, <4>1, FewerAnswers
        <4>. QED  BY <2>3, <4>2, <4>3, <4>5, <4>6, <4>7
      <3>. QED  BY <3>1, <3>2
    <2>. HIDE DEF a
    <2>. QED  BY <1>2, <2>1, <2>5
  <1>. QED  BY <1>1, <1>2

LEMMA CleanedCache ==
  ASSUME RateTypes
  PROVE  /\ AnswersIn(CachedAfterCleanup) /\ Cardinality(DOMAIN CachedAfterCleanup) <= CacheSize
         /\ DOMAIN CachedAfterCleanup \subseteq DOMAIN cache
         /\ \A k \in DOMAIN CachedAfterCleanup : CachedAfterCleanup[k] = cache[k]
  <1>. DEFINE S == {k \in DOMAIN cache : now - cache[k].at <= CacheExpiry}
  <1>1. AnswersIn(cache) /\ Cardinality(DOMAIN cache) <= CacheSize /\ CacheSize \in Nat
    BY RateAssumption DEF RateTypes, CacheTypes, AnswersIn
  <1>2. S \subseteq DOMAIN cache
    OBVIOUS
  <1>3. CachedAfterCleanup = IF CleanupDue THEN Restrict(cache, S) ELSE cache
    BY DEF CachedAfterCleanup
  <1>. HIDE DEF S
  <1>4. /\ AnswersIn(Restrict(cache, S)) /\ Cardinality(S) <= Cardinality(DOMAIN cache)
        /\ DOMAIN Restrict(cache, S) = S
        /\ \A k \in S : Restrict(cache, S)[k] = cache[k]
    BY <1>1, <1>2, FewerAnswers
  <1>5. Cardinality(S) \in Nat /\ Cardinality(DOMAIN cache) \in Nat
    BY <1>1, <1>2, FS_Subset, FS_CardinalityType DEF AnswersIn
  <1>6. CASE CleanupDue
    BY <1>1, <1>2, <1>3, <1>4, <1>5, <1>6
  <1>7. CASE ~ CleanupDue
    BY <1>1, <1>3, <1>7
  <1>. QED  BY <1>6, <1>7

\* What a check does to the cache when the answer is judged.
Stale(k) == Restrict(CachedAfterCleanup, DOMAIN CachedAfterCleanup \ {k})

LEMMA StaleCache ==
  ASSUME RateTypes, NEW k
  PROVE  /\ AnswersIn(Stale(k)) /\ Cardinality(DOMAIN Stale(k)) <= CacheSize
         /\ DOMAIN Stale(k) \subseteq DOMAIN cache \ {k}
         /\ \A x \in DOMAIN Stale(k) : Stale(k)[x] = cache[x]
  <1>. DEFINE c == CachedAfterCleanup
              S == DOMAIN c \ {k}
  <1>1. /\ AnswersIn(c) /\ Cardinality(DOMAIN c) <= CacheSize
        /\ DOMAIN c \subseteq DOMAIN cache /\ \A x \in DOMAIN c : c[x] = cache[x]
    BY CleanedCache
  <1>2. Stale(k) = Restrict(c, S)
    BY DEF Stale
  <1>. HIDE DEF c
  <1>3. S \subseteq DOMAIN c
    OBVIOUS
  <1>. HIDE DEF S
  <1>4. /\ AnswersIn(Restrict(c, S)) /\ Cardinality(S) <= Cardinality(DOMAIN c)
        /\ DOMAIN Restrict(c, S) = S
        /\ \A x \in S : Restrict(c, S)[x] = c[x]
    BY <1>1, <1>3, FewerAnswers
  <1>5. Cardinality(S) \in Nat /\ Cardinality(DOMAIN c) \in Nat /\ CacheSize \in Nat
    BY <1>1, <1>3, FS_Subset, FS_CardinalityType, RateAssumption DEF AnswersIn
  <1>6. Cardinality(S) <= CacheSize
    BY <1>1, <1>4, <1>5
  <1>7. S \subseteq DOMAIN cache \ {k}
    BY <1>1 DEF S
  <1>. QED  BY <1>1, <1>2, <1>3, <1>4, <1>6, <1>7

LEMMA IntroduceTypes ==
  ASSUME LimitTypes, NEW e \in Endpoints, Introduce(e)
  PROVE  LimitTypes'
  <1>1. CASE e \in DOMAIN limits
    BY <1>1 DEF Introduce, LimitTypes
  <1>2. CASE e \notin DOMAIN limits
    <2>1. /\ DOMAIN limits' = DOMAIN limits \cup {e} /\ DOMAIN load' = DOMAIN limits \cup {e}
          /\ \A x \in DOMAIN limits : limits'[x] = limits[x] /\ load'[x] = load[x]
          /\ limits'[e] = [rate |-> DefaultRate, burst |-> DefaultRate] /\ load'[e] = 100
      BY <1>2 DEF Introduce, Configured, Factor
    <2>2. limits'[e].rate = DefaultRate /\ limits'[e].burst = DefaultRate
      BY <2>1
    <2>. QED  BY <2>1, <2>2, RateAssumption DEF LimitTypes
  <1>. QED  BY <1>1, <1>2

LEMMA JudgeTypes ==
  ASSUME RateTypes, now \in Nat, NEW k \in Keys, NEW up \in BOOLEAN, Judge(k, up)
  PROVE  StoreTypes' /\ rate' \in Answers
  BY FixedTypes, SlidingTypes, BucketTypes DEF Judge

LEMMA CachedCheckTypes ==
  ASSUME RateTypes, now \in Nat, NEW k \in Keys, CachedCheck(k), asked' = [asked EXCEPT ![k] = now]
  PROVE  RateTypes'
  <1>1. LimitTypes'
    BY IntroduceTypes DEF CachedCheck, RateTypes, Keys
  <1>2. StoreTypes'
    BY DEF CachedCheck, RateTypes, StoreTypes
  <1>3. CacheTypes' /\ rate' \in Answers
    <2>1. cache' = CachedAfterCleanup /\ rate' = CachedAfterCleanup[k].answer
          /\ k \in DOMAIN CachedAfterCleanup
      BY DEF CachedCheck, Repeats, Fresh
    <2>. QED  BY <2>1, CleanedCache DEF CacheTypes, AnswersIn
  <1>4. ViolationTypes'
    BY ViolationsStayTyped DEF CachedCheck, ViolationTypes
  <1>5. HistoryTypes'
    <2>1. granted' = granted
      BY DEF CachedCheck
    <2>. QED  BY <1>3, <2>1 DEF RateTypes, HistoryTypes
  <1>. QED  BY <1>1, <1>2, <1>3, <1>4, <1>5 DEF CachedCheck, RateTypes

\* What a judged check does, apart from the judgement.
LEMMA CountedCheckFacts ==
  ASSUME RateTypes, now \in Nat, NEW k \in Keys, CountedCheck(k)
  PROVE  /\ ~ Repeats(k) /\ Introduce(k[2]) /\ UNCHANGED <<strategy, distributed>>
         /\ \E up \in IF distributed THEN BOOLEAN ELSE {TRUE} :
              /\ Judge(k, up)
              /\ granted' = IF rate'.allowed /\ up /\ rate' # Permissive
                            THEN [granted EXCEPT ![k] = Append(granted[k], [at |-> now, limit |-> rate'.limit])]
                            ELSE granted
         /\ StoreTypes' /\ rate' \in Answers /\ ViolationTypes'
         /\ cache' \in IF distributed THEN {CachedAfterCleanup}
                       ELSE {Stale(k)} \cup CachesAfter(Stale(k), k, rate')
  <1>1. PICK up \in IF distributed THEN BOOLEAN ELSE {TRUE} :
              /\ Judge(k, up)
              /\ granted' = IF rate'.allowed /\ up /\ rate' # Permissive
                            THEN [granted EXCEPT ![k] = Append(granted[k], [at |-> now, limit |-> rate'.limit])]
                            ELSE granted
    BY Zenon DEF CountedCheck
  <1>2. StoreTypes' /\ rate' \in Answers
    BY <1>1, JudgeTypes
  <1>3. violations' \in {RecordViolation(k), ViolationsAfterCleanup}
    BY DEF CountedCheck
  <1>4. ViolationTypes'
    BY <1>3, ViolationsStayTyped DEF ViolationTypes
  <1>5. cache' \in IF distributed THEN {CachedAfterCleanup}
                   ELSE {Stale(k)} \cup CachesAfter(Stale(k), k, rate')
    <2>1. cache' \in IF distributed THEN {CachedAfterCleanup}
                     ELSE IF rate' = Permissive THEN {Stale(k)} ELSE CachesAfter(Stale(k), k, rate')
      BY DEF CountedCheck, Stale
    <2>. QED  BY <2>1
  <1>6. ~ Repeats(k) /\ Introduce(k[2]) /\ UNCHANGED <<strategy, distributed>>
    BY DEF CountedCheck
  <1>. QED  BY <1>1, <1>2, <1>4, <1>5, <1>6

\* Where the cache's answers come from.
LEMMA CountedCheckCache ==
  ASSUME RateTypes, now \in Nat, NEW k \in Keys, CountedCheck(k)
  PROVE  /\ CacheTypes'
         /\ \A x \in DOMAIN cache' :
              \/ x \in DOMAIN cache /\ cache'[x] = cache[x] /\ (x # k \/ distributed)
              \/ /\ x = k /\ ~ distributed /\ cache'[x] = [at |-> now, answer |-> rate']
                 /\ rate'.allowed /\ 10 * rate'.remaining > rate'.limit
  <1>1. CASE distributed
    BY <1>1, CountedCheckFacts, CleanedCache DEF CacheTypes, AnswersIn
  <1>2. CASE ~ distributed /\ cache' = Stale(k)
    BY <1>2, StaleCache DEF CacheTypes, AnswersIn
  <1>3. CASE ~ distributed /\ cache' \in CachesAfter(Stale(k), k, rate')
    <2>1. rate' \in Answers
      BY CountedCheckFacts
    <2>2. /\ AnswersIn(cache') /\ Cardinality(DOMAIN cache') <= CacheSize
          /\ \A x \in DOMAIN cache' :
               \/ x \in DOMAIN Stale(k) /\ cache'[x] = Stale(k)[x]
               \/ /\ x = k /\ cache'[x] = [at |-> now, answer |-> rate']
                  /\ rate'.allowed /\ 10 * rate'.remaining > rate'.limit
      BY <1>3, <2>1, StaleCache, CachedAnswers
    <2>. QED  BY <1>3, <2>2, StaleCache DEF CacheTypes, AnswersIn
  <1>. QED  BY <1>1, <1>2, <1>3, CountedCheckFacts

LEMMA CheckTypes ==
  ASSUME RateTypes, now \in Nat, NEW k \in Keys, CheckLimit(k)
  PROVE  RateTypes'
  <1>1. CASE CachedCheck(k)
    BY <1>1, CachedCheckTypes DEF CheckLimit
  <1>2. CASE CountedCheck(k)
    <2>1. LimitTypes'
      BY <1>2, CountedCheckFacts, IntroduceTypes DEF RateTypes, Keys
    <2>2. HistoryTypes'
      <3>1. PICK g : /\ g \in Grants
                     /\ granted' = [granted EXCEPT ![k] = Append(granted[k], g)] \/ granted' = granted
        <4>1. [at |-> now, limit |-> rate'.limit] \in Grants
          BY <1>2, CountedCheckFacts DEF Grants, Answers
        <4>2. \/ granted' = [granted EXCEPT ![k] = Append(granted[k], [at |-> now, limit |-> rate'.limit])]
              \/ granted' = granted
          BY <1>2, CountedCheckFacts, Zenon
        <4>. QED  BY <4>1, <4>2
      <3>2. asked' = [asked EXCEPT ![k] = now]
        BY DEF CheckLimit
      <3>3. rate' \in Answers
        BY <1>2, CountedCheckFacts
      <3>4. granted' \in [Keys -> Seq(Grants)]
        <4>1. granted \in [Keys -> Seq(Grants)] /\ Append(granted[k], g) \in Seq(Grants)
          BY <3>1 DEF RateTypes, HistoryTypes
        <4>. QED  BY <3>1, <4>1
      <3>5. asked' \in [Keys -> Int]
        BY <3>2 DEF RateTypes, HistoryTypes
      <3>. QED  BY <3>3, <3>4, <3>5 DEF HistoryTypes
    <2>. QED  BY <1>2, <2>1, <2>2, CountedCheckFacts, CountedCheckCache DEF RateTypes
  <1>. QED  BY <1>1, <1>2 DEF CheckLimit

\* What a step may do to the limiter.
LEMMA RateSteps ==
  ASSUME [Next]_vars
  PROVE  \/ UNCHANGED rateVars /\ (now' = now \/ Tick)
         \/ /\ now' = now
            /\ \/ \E k \in Keys : CheckLimit(k)
               \/ \E e \in Endpoints, r \in Rates, b \in Rates \cup {0} : ConfigureLimit(e, r, b)
               \/ \E e \in Endpoints, f \in Loads : AdjustLimitForLoad(e, f)
               \/ ResetStats
  <1>1. CASE Setup /\ now' = now
    <2>1. ConfigureRates \/ UNCHANGED rateVars
      BY <1>1 DEF Setup, ConfigureHooks, ConfigureAddresses, EnableThreatDetection,
                  EnableAuditLogging
    <2>. QED  BY <1>1, <2>1 DEF ConfigureRates
  <1>2. CASE Operation /\ now' = now
    BY <1>2 DEF Operation, RecordFailedRequest, RecordEvent, ValidateRequest
  <1>3. CASE ValidateContent /\ now' = now
    BY <1>3 DEF ValidateContent
  <1>4. CASE Tick /\ UNCHANGED rateVars
    BY <1>4
  <1>5. CASE UNCHANGED vars
    BY <1>5 DEF vars
  <1>. QED  BY <1>1, <1>2, <1>3, <1>4, <1>5 DEF Next

LEMMA ConfigureTypes ==
  ASSUME RateTypes, NEW e \in Endpoints, NEW r \in Rates, NEW b \in Rates \cup {0},
         ConfigureLimit(e, r, b)
  PROVE  LimitTypes'
  <1>. DEFINE l == [rate |-> r, burst |-> IF b = 0 THEN r ELSE b]
  <1>1. /\ DOMAIN limits' = DOMAIN limits \cup {e} /\ DOMAIN load' = DOMAIN limits \cup {e}
        /\ \A x \in DOMAIN limits : x # e => limits'[x] = limits[x] /\ load'[x] = load[x]
        /\ limits'[e] = l /\ load'[e] = 100
    BY DEF ConfigureLimit
  <1>2. l.rate \in Nat /\ l.burst \in Nat /\ (l.rate >= 1 => l.burst >= 1)
    BY RateAssumption
  <1>. HIDE DEF l
  <1>. QED  BY <1>1, <1>2 DEF RateTypes, LimitTypes

LEMMA AdjustTypes ==
  ASSUME RateTypes, NEW e \in Endpoints, NEW f \in Loads, AdjustLimitForLoad(e, f)
  PROVE  LimitTypes'
  BY RateAssumption DEF AdjustLimitForLoad, RateTypes, LimitTypes

\* The parts of the limiter that a change of the configuration leaves alone.
LEMMA OnlyLimitsChange ==
  ASSUME RateTypes, LimitTypes',
         UNCHANGED <<strategy, distributed, counts, windows, cache, violations, rate, asked, granted>>
  PROVE  RateTypes'
  BY DEF RateTypes, StoreTypes, CacheTypes, ViolationTypes, HistoryTypes

LEMMA RateTypesNext == RateTypes /\ now \in Nat /\ [Next]_vars => RateTypes'
  <1>. SUFFICES ASSUME RateTypes, now \in Nat, [Next]_vars  PROVE RateTypes'
    OBVIOUS
  <1>1. CASE UNCHANGED rateVars
    <2>1. LimitTypes'
      BY <1>1 DEF rateVars, RateTypes, LimitTypes
    <2>. QED  BY <1>1, <2>1, OnlyLimitsChange DEF rateVars
  <1>2. CASE \E k \in Keys : CheckLimit(k)
    BY <1>2, CheckTypes
  <1>3. CASE \E e \in Endpoints, r \in Rates, b \in Rates \cup {0} : ConfigureLimit(e, r, b)
    BY <1>3, ConfigureTypes, OnlyLimitsChange DEF ConfigureLimit
  <1>4. CASE \E e \in Endpoints, f \in Loads : AdjustLimitForLoad(e, f)
    BY <1>4, AdjustTypes, OnlyLimitsChange DEF AdjustLimitForLoad
  <1>5. CASE ResetStats
    <2>1. LimitTypes'
      BY <1>5 DEF ResetStats, RateTypes, LimitTypes
    <2>. QED  BY <1>5, <2>1, OnlyLimitsChange DEF ResetStats
  <1>. QED  BY <1>1, <1>2, <1>3, <1>4, <1>5, RateSteps

-----------------------------------------------------------------------------
(* The types of the other parts.                                           *)

ClockTypes == now \in 1 .. MaxTime

LEMMA ClockTypesNext == ClockTypes /\ [Next]_vars => ClockTypes' /\ (now' = now \/ now' = now + 1)
  BY ClockAssumption, RateSteps DEF ClockTypes, Tick

\* Operations are counted up to the bounds of the campaign.
CampaignTypes ==
  campaign \in Campaigns /\ setups \in 0 .. campaign.setups /\ calls \in 0 .. campaign.calls

LEMMA CampaignTypesNext == CampaignTypes /\ [Next]_vars => CampaignTypes'
  <1>. SUFFICES ASSUME CampaignTypes, [Next]_vars  PROVE CampaignTypes'
    OBVIOUS
  <1>1. campaign.setups \in Nat /\ campaign.calls \in Nat
    BY ManagerAssumption DEF CampaignTypes
  <1>2. /\ campaign' = campaign
        /\ setups' = setups \/ (setups < campaign.setups /\ setups' = setups + 1)
        /\ calls' = calls \/ (calls < campaign.calls /\ calls' = calls + 1)
    BY DEF Next, vars
  <1>. QED  BY <1>1, <1>2 DEF CampaignTypes

HookTypes ==
  /\ Cardinality(DOMAIN processed) <= MaxCached /\ IsFiniteSet(DOMAIN processed)
  /\ secret \in Secrets \cup {NoSecret} /\ tolerance \in Tolerances
  /\ rotations \in 0 .. MaxRotations

LEMMA StoresStayBounded ==
  ASSUME NEW p, IsFiniteSet(DOMAIN p), NEW q \in StoresAfter(p)
  PROVE  Cardinality(DOMAIN q) <= MaxCached /\ IsFiniteSet(DOMAIN q)
  <1>. DEFINE young == {k \in DOMAIN p : p[k] >= Cutoff}
              y == Restrict(p, young)
  <1>1. DOMAIN y = young /\ young \subseteq DOMAIN p
    BY DEF Restrict
  <1>2. q \in IF Cardinality(DOMAIN p) <= MaxCached THEN {p}
              ELSE IF Cardinality(DOMAIN y) <= MaxCached THEN {y}
              ELSE {Restrict(y, S) : S \in
                      {T \in SUBSET DOMAIN y :
                         /\ Cardinality(T) = MaxCached
                         /\ \A a \in T, b \in DOMAIN y \ T : y[a] >= y[b]}}
    BY Zenon DEF StoresAfter
  <1>. HIDE DEF y, young
  <1>3. CASE q = p /\ Cardinality(DOMAIN p) <= MaxCached
    BY <1>3
  <1>4. CASE q = y /\ Cardinality(DOMAIN y) <= MaxCached
    BY <1>1, <1>4, FS_Subset
  <1>5. ASSUME NEW S, S \subseteq DOMAIN y, Cardinality(S) = MaxCached, q = Restrict(y, S)
        PROVE  Cardinality(DOMAIN q) <= MaxCached /\ IsFiniteSet(DOMAIN q)
    <2>1. DOMAIN q = S
      BY <1>5 DEF Restrict
    <2>. QED  BY <1>1, <1>5, <2>1, FS_Subset, HookAssumption
  <1>. QED  BY <1>2, <1>3, <1>4, <1>5

LEMMA HookTypesInit == HookInit => HookTypes
  <1>. SUFFICES ASSUME HookInit  PROVE HookTypes
    OBVIOUS
  <1>1. DOMAIN processed = {}
    BY DEF HookInit
  <1>. QED  BY <1>1, FS_EmptySet, HookAssumption DEF HookInit, HookTypes

LEMMA HookTypesNext == HookTypes /\ [Next]_vars => HookTypes'
  <1>. SUFFICES ASSUME HookTypes, [Next]_vars  PROVE HookTypes'
    OBVIOUS
  <1>1. ASSUME NEW c, ValidateSignature(c)  PROVE HookTypes'
    <2>. DEFINE p == [k \in DOMAIN processed \cup {Key(c)} |->
                        IF k = Key(c) THEN now ELSE processed[k]]
    <2>1. processed' = processed \/ processed' \in StoresAfter(p)
      BY <1>1 DEF ValidateSignature
    <2>2. IsFiniteSet(DOMAIN p)
      BY FS_AddElement DEF HookTypes
    <2>. HIDE DEF p
    <2>3. Cardinality(DOMAIN processed') <= MaxCached /\ IsFiniteSet(DOMAIN processed')
      BY <2>1, <2>2, StoresStayBounded DEF HookTypes
    <2>. QED  BY <1>1, <2>3 DEF ValidateSignature, HookTypes
  <1>2. CASE UNCHANGED hookVars
    BY <1>2 DEF hookVars, HookTypes
  <1>3. CASE ConfigureHooks
    <2>1. ASSUME NEW d, d = <<>>
          PROVE  Cardinality(DOMAIN d) <= MaxCached /\ IsFiniteSet(DOMAIN d)
      <3>1. DOMAIN d = {}
        BY <2>1
      <3>. QED  BY <3>1, FS_EmptySet, HookAssumption
    <2>2. CASE \E s \in Secrets : ConfigureWebhookSecret(s)
      BY <2>1, <2>2, HookAssumption DEF ConfigureWebhookSecret, HookTypes
    <2>3. CASE \E s \in Secrets : UpdateSecret(s)
      <3>1. Min({rotations + 1, MaxRotations}) \in {rotations + 1, MaxRotations}
            /\ Min({rotations + 1, MaxRotations}) <= MaxRotations
        <4>1. rotations + 1 \in Int /\ MaxRotations \in Int
          BY HookAssumption DEF HookTypes
        <4>. QED  BY <4>1, MinOfTwo, Zenon
      <3>2. rotations' = Min({rotations + 1, MaxRotations})
            /\ secret' \in Secrets /\ tolerance' = tolerance /\ processed' = <<>>
        BY <2>3 DEF UpdateSecret
      <3>3. rotations' \in 0 .. MaxRotations
        BY <3>1, <3>2, HookAssumption DEF HookTypes
      <3>. QED  BY <2>1, <3>2, <3>3 DEF HookTypes
    <2>4. CASE \E t \in Tolerances : ConfigureTolerance(t)
      BY <2>4 DEF ConfigureTolerance, HookTypes
    <2>. QED  BY <1>3, <2>2, <2>3, <2>4 DEF ConfigureHooks
  <1>4. ASSUME NEW h, NEW c, ValidateWebhook(h, c)  PROVE HookTypes'
    <2>1. \/ UNCHANGED hookVars \/ ValidateSignature(c)
          \/ UNCHANGED <<secret, tolerance, processed, rotations>>
      BY <1>4 DEF ValidateWebhook, ValidateJsonWebhook
    <2>2. CASE UNCHANGED <<secret, tolerance, processed, rotations>>
      BY <2>2 DEF HookTypes
    <2>. QED  BY <1>1, <1>2, <2>1, <2>2
  <1>5. CASE Setup
    BY <1>2, <1>3, <1>5 DEF Setup, ConfigureAddresses, ConfigureRates, EnableThreatDetection,
                            EnableAuditLogging
  <1>6. CASE Operation
    BY <1>2, <1>4, <1>6 DEF Operation, RecordFailedRequest, RecordEvent, ValidateRequest
  <1>7. CASE ValidateContent \/ UNCHANGED hookVars
    BY <1>2, <1>7 DEF ValidateContent
  <1>. QED  BY <1>5, <1>6, <1>7 DEF Next, vars

Failures == [at : Nat, reason : Reasons]

Whitelists ==
  [on : BOOLEAN, ips : SUBSET Addresses, networks : SUBSET Networks, blocked : SUBSET Addresses]

ManagerTypes ==
  /\ whitelist \in Whitelists
  /\ threshold \in Thresholds \cup {0}
  /\ failed \in [Clients -> Seq(Failures)]
  /\ auditLogs \in 0 .. MaxLogEntries

\* Writing the audit log does not take it beyond its bound.
LEMMA AuditStaysBounded ==
  ASSUME auditLogs \in 0 .. MaxLogEntries, NEW n \in Nat
  PROVE  AuditAfter(n) \in 0 .. MaxLogEntries
  <1>1. auditLogs + n \in Int /\ MaxLogEntries \in Int
    BY ManagerAssumption
  <1>2. AuditAfter(n) \in {auditLogs + n, MaxLogEntries} /\ AuditAfter(n) <= MaxLogEntries
    BY <1>1, MinOfTwo, Zenon DEF AuditAfter
  <1>. QED  BY <1>2, ManagerAssumption

LEMMA WhitelistTypes ==
  ASSUME whitelist \in Whitelists, ConfigureAddresses
  PROVE  whitelist' \in Whitelists
  BY DEF ConfigureAddresses, ConfigureIpWhitelist, NoWhitelist, AddAllowedIp, AddBlockedIp,
         AddAllowedNetwork, Whitelists

LEMMA FailuresStayTyped ==
  ASSUME ManagerTypes, now \in Nat, NEW c \in Clients, NEW why \in Reasons,
         RecordFailedRequest(c, why)
  PROVE  failed' \in [Clients -> Seq(Failures)]
  <1>. DEFINE all == Append(failed[c], [at |-> now, reason |-> why])
              old == {i \in DOMAIN all : all[i].at <= now - ThreatWindow}
  <1>1. failed[c] \in Seq(Failures) /\ [at |-> now, reason |-> why] \in Failures
    BY DEF ManagerTypes, Failures
  <1>2. all \in Seq(Failures) /\ old \subseteq DOMAIN all
    BY <1>1, AppendProperties
  <1>3. failed' = [failed EXCEPT ![c] = DropThrough(all, old)]
    BY DEF RecordFailedRequest, Young
  <1>. HIDE DEF old, all
  <1>4. DropThrough(all, old) \in Seq(Failures)
    BY <1>2, Dropped
  <1>. QED  BY <1>3, <1>4 DEF ManagerTypes

LEMMA ManagerTypesNext ==
  ManagerTypes /\ now \in Nat /\ [Next]_vars => ManagerTypes'
  <1>. SUFFICES ASSUME ManagerTypes, now \in Nat, [Next]_vars  PROVE ManagerTypes'
    OBVIOUS
  <1>1. CASE UNCHANGED <<whitelist, managerVars>>
    BY <1>1 DEF managerVars, ManagerTypes
  <1>2. CASE ConfigureAddresses /\ UNCHANGED managerVars
    BY <1>2, WhitelistTypes DEF managerVars, ManagerTypes
  <1>3. CASE \E n \in Thresholds : EnableThreatDetection(n)
    BY <1>3 DEF EnableThreatDetection, ManagerTypes
  <1>4. CASE \E b \in BOOLEAN : EnableAuditLogging(b)
    BY <1>4 DEF EnableAuditLogging, ManagerTypes
  <1>5. CASE RecordEvent
    BY <1>5, AuditStaysBounded DEF RecordEvent, ManagerTypes
  <1>6. CASE \E c \in Clients, why \in Reasons : RecordFailedRequest(c, why)
    <2>1. failed' \in [Clients -> Seq(Failures)]
      BY <1>6, FailuresStayTyped
    <2>. QED  BY <1>6, <2>1 DEF RecordFailedRequest, ManagerTypes
  <1>7. ASSUME NEW k, NEW r, NEW headers, NEW c, ValidateRequest(k, r, headers, c)
        PROVE  ManagerTypes'
    <2>1. PICK events : /\ auditLogs' = AuditAfter(Cardinality(events))
                        /\ events \subseteq 1 .. 4
      BY <1>7 DEF ValidateRequest
    <2>2. Cardinality(events) \in Nat
      <3>1. IsFiniteSet(1 .. 4)
        <4>1. 1 \in Int /\ 4 \in Int
          OBVIOUS
        <4>. QED  BY <4>1, FS_Interval, Zenon
      <3>. QED  BY <2>1, <3>1, FS_Subset, FS_CardinalityType
    <2>3. auditLogs' \in 0 .. MaxLogEntries
      BY <2>1, <2>2, AuditStaysBounded DEF ManagerTypes
    <2>4. UNCHANGED <<whitelist, threshold, failed>>
      BY <1>7 DEF ValidateRequest
    <2>. QED  BY <2>3, <2>4 DEF ManagerTypes
  <1>8. CASE Setup
    <2>1. CASE ConfigureHooks \/ ConfigureRates
      BY <1>1, <2>1 DEF ConfigureHooks, ConfigureRates
    <2>2. CASE ConfigureAddresses
      BY <1>2, <2>2 DEF ConfigureAddresses
    <2>. QED  BY <1>3, <1>4, <1>8, <2>1, <2>2 DEF Setup
  <1>9. CASE Operation
    BY <1>5, <1>6, <1>7, <1>9 DEF Operation
  <1>10. CASE ValidateContent \/ UNCHANGED vars \/ UNCHANGED <<whitelist, managerVars>>
    BY <1>1, <1>10 DEF ValidateContent, vars
  <1>. QED  BY <1>8, <1>9, <1>10 DEF Next

\* The types of all parts: what TypeOK says, and what it rests on.
AllTypes == ClockTypes /\ CampaignTypes /\ RateTypes /\ HookTypes /\ ManagerTypes

LEMMA AllTypesInit == Init => AllTypes
  <1>. SUFFICES ASSUME Init  PROVE AllTypes
    OBVIOUS
  <1>1. ClockTypes
    BY ClockAssumption DEF Init, StartClock, ClockTypes
  <1>2. CampaignTypes
    BY ManagerAssumption DEF Init, CampaignTypes
  <1>3. ManagerTypes
    <2>2. failed \in [Clients -> Seq(Failures)]
      BY DEF Init
    <2>3. whitelist \in Whitelists
      BY DEF Init, NoWhitelist, Whitelists
    <2>4. threshold = 0 /\ auditLogs \in 0 .. MaxLogEntries
      BY ManagerAssumption DEF Init
    <2>. QED  BY <2>2, <2>3, <2>4 DEF ManagerTypes
  <1>. QED  BY <1>1, <1>2, <1>3, RateTypesInit, HookTypesInit DEF Init, AllTypes

LEMMA AllTypesNext == AllTypes /\ [Next]_vars => AllTypes'
  <1>1. AllTypes => now \in Nat
    BY DEF AllTypes, ClockTypes
  <1>. QED  BY <1>1, ClockTypesNext, CampaignTypesNext, RateTypesNext, HookTypesNext,
               ManagerTypesNext DEF AllTypes

LEMMA AllTypesHold == AllTypes => TypeOK
  <1>. SUFFICES ASSUME AllTypes  PROVE TypeOK
    OBVIOUS
  <1>1. \A k \in DOMAIN counts : counts[k].count \in Nat /\ counts[k].expires \in Nat
    BY DEF AllTypes, RateTypes, StoreTypes, Counters
  <1>2. \A k \in Keys : windows[k] \in Seq(Nat)
    BY DEF AllTypes, RateTypes, StoreTypes
  <1>3. \A c \in Clients : \A i \in DOMAIN failed[c] : failed[c][i].reason \in Reasons
    <2>. SUFFICES ASSUME NEW c \in Clients, NEW i \in DOMAIN failed[c]
                  PROVE  failed[c][i].reason \in Reasons
      OBVIOUS
    <2>1. failed[c] \in Seq(Failures)
      BY DEF AllTypes, ManagerTypes
    <2>2. failed[c][i] \in Failures
      BY <2>1
    <2>. QED  BY <2>2 DEF Failures
  <1>4. rate.allowed \in BOOLEAN /\ rate.remaining \in Nat /\ rate.retry \in Nat
    BY DEF AllTypes, RateTypes, HistoryTypes, Answers
  <1>5. /\ DOMAIN limits \subseteq Endpoints /\ DOMAIN load = DOMAIN limits
        /\ \A e \in DOMAIN limits : limits[e].rate \in Nat /\ limits[e].burst \in Nat /\ load[e] \in Nat
    BY DEF AllTypes, RateTypes, LimitTypes
  <1>6. /\ strategy \in Strategies /\ distributed \in BOOLEAN
        /\ DOMAIN cache \subseteq Keys /\ Cardinality(DOMAIN cache) <= CacheSize
        /\ Len(violations) <= MaxViolations
    BY DEF AllTypes, RateTypes, CacheTypes, ViolationTypes
  <1>7. /\ now \in 1 .. MaxTime /\ setups \in 0 .. campaign.setups /\ calls \in 0 .. campaign.calls
    BY DEF AllTypes, ClockTypes, CampaignTypes
  <1>8. /\ Cardinality(DOMAIN processed) <= MaxCached
        /\ secret \in Secrets \cup {NoSecret} /\ tolerance \in Tolerances
        /\ rotations \in 0 .. MaxRotations
    BY DEF AllTypes, HookTypes
  <1>10. /\ whitelist.ips \cup whitelist.blocked \subseteq Addresses
         /\ whitelist.networks \subseteq Networks
    BY DEF AllTypes, ManagerTypes, Whitelists
  <1>9. /\ threshold \in Thresholds \cup {0} /\ auditLogs \in 0 .. MaxLogEntries
    BY DEF AllTypes, ManagerTypes
  <1>. QED  BY <1>1, <1>2, <1>3, <1>4, <1>5, <1>6, <1>7, <1>8, <1>9, <1>10, Zenon DEF TypeOK

\* What a client can make grow stays within its bound, whatever is sent.
THEOREM SecurityTypesAreKept == Spec => []TypeOK
  BY AllTypesInit, AllTypesNext, AllTypesHold, PTL DEF Spec

-----------------------------------------------------------------------------
(* What the limiter remembers is no newer than the client's last check.    *)

\* Nothing outlives the last check by more than a window, and what is repeated
\* was allowed.
QuietInv ==
  \A k \in Keys :
    /\ asked[k] <= now
    /\ counts[<<k, "fixed">>].expires <= asked[k] + WindowSize
    /\ \A i \in 1 .. Len(windows[k]) : windows[k][i] <= asked[k]
    /\ k \in DOMAIN cache => cache[k].answer.allowed

\* A cached answer was given with at least one request left, and the counter has
\* not moved since: the next judged check of the client takes the answer away.
CacheInv ==
  \A k \in DOMAIN cache :
    /\ ~ distributed
    /\ strategy = "fixed_window" => counts[<<k, "fixed">>].count + 1 <= cache[k].answer.limit
    /\ strategy = "sliding_window" => Len(windows[k]) + 1 <= cache[k].answer.limit

\* What each strategy answers and stores, by the parts that the invariants name.
LEMMA FixedJudged ==
  ASSUME RateTypes, now \in Nat, NEW k \in Keys, NEW up \in BOOLEAN,
         strategy = "fixed_window", Judge(k, up)
  PROVE  LET c == <<k, "fixed">>
             limit == Effective(k[2])
         IN  /\ windows' = windows /\ limit \in Nat
             /\ \A x \in Keys : x # k => counts'[<<x, "fixed">>] = counts[<<x, "fixed">>]
             /\ counts'[c].count = IF up THEN Count(c) + 1 ELSE counts[c].count
             /\ counts'[c].expires = IF up /\ (distributed \/ counts[c].expires < now)
                                     THEN now + WindowSize ELSE counts[c].expires
             /\ rate'.limit = limit
             /\ rate'.allowed <=> (up => Count(c) + 1 <= limit)
             /\ rate'.allowed /\ up => rate'.remaining = limit - (Count(c) + 1)
  <1>. DEFINE c == <<k, "fixed">>
              n == IF up THEN Raise(c, WindowSize).count ELSE 0
              limit == Effective(k[2])
  <1>1. c \in Keys \X Kinds /\ WindowSize \in Nat /\ limit \in Nat
        /\ \A x \in Keys : <<x, "fixed">> \in Keys \X Kinds
    BY RateAssumption, EffectiveType DEF Kinds, RateTypes
  <1>2. /\ Raise(c, WindowSize) \in Counters /\ Raise(c, WindowSize).count = Count(c) + 1
        /\ Count(c) \in Nat
        /\ Raise(c, WindowSize).expires =
              IF distributed \/ counts[c].expires < now THEN now + WindowSize ELSE counts[c].expires
    BY <1>1, RaiseType DEF RateTypes
  <1>3. /\ counts' = IF up THEN [counts EXCEPT ![c] = Raise(c, WindowSize)] ELSE counts
        /\ rate' = IF n <= limit THEN Answer(TRUE, limit - n, 0, limit)
                                 ELSE Answer(FALSE, 0, WindowSize, limit)
        /\ windows' = windows
    BY DEF Fixed, Judge
  <1>4. counts \in [Keys \X Kinds -> Counters]
    BY DEF RateTypes, StoreTypes
  <1>5. \A x \in Keys : x # k => counts'[<<x, "fixed">>] = counts[<<x, "fixed">>]
    BY <1>1, <1>3, <1>4
  <1>6. counts'[c] = IF up THEN Raise(c, WindowSize) ELSE counts[c]
    BY <1>1, <1>3, <1>4
  <1>7. n = IF up THEN Count(c) + 1 ELSE 0
    BY <1>2
  <1>. HIDE DEF c, n, limit
  <1>8. /\ rate'.limit = limit
        /\ rate'.allowed <=> n <= limit
        /\ rate'.allowed => rate'.remaining = limit - n
    BY <1>3 DEF Answer
  <1>9. /\ counts'[c].count = IF up THEN Count(c) + 1 ELSE counts[c].count
        /\ counts'[c].expires = IF up /\ (distributed \/ counts[c].expires < now)
                                THEN now + WindowSize ELSE counts[c].expires
    BY <1>2, <1>6
  <1>10. /\ rate'.allowed <=> (up => Count(c) + 1 <= limit)
         /\ rate'.allowed /\ up => rate'.remaining = limit - (Count(c) + 1)
    BY <1>1, <1>2, <1>7, <1>8
  <1>. QED  BY <1>1, <1>3, <1>5, <1>8, <1>9, <1>10 DEF c, limit

LEMMA SlidingJudged ==
  ASSUME RateTypes, now \in Nat, NEW k \in Keys, NEW up \in BOOLEAN,
         strategy = "sliding_window", Judge(k, up)
  PROVE  LET limit == Effective(k[2])
         IN  /\ counts' = counts /\ limit \in Nat
             /\ \A x \in Keys : x # k => windows'[x] = windows[x]
             /\ windows'[k] = IF up THEN Enter(k) ELSE windows[k]
             /\ rate'.limit = limit
             /\ rate'.allowed <=> (up => Len(Enter(k)) <= limit)
             /\ rate'.allowed /\ up => rate'.remaining = limit - Len(Enter(k))
  <1>. DEFINE w == IF up THEN Enter(k) ELSE <<>>
              wait == Max({1, w[1] + WindowSize - now})
              limit == Effective(k[2])
  <1>1. Enter(k) \in Seq(Nat) /\ Len(w) \in Nat /\ limit \in Nat
    BY EnterKeeps, EffectiveType DEF RateTypes
  <1>2. /\ windows' = IF up THEN [windows EXCEPT ![k] = w] ELSE windows
        /\ rate' = IF Len(w) <= limit THEN Answer(TRUE, limit - Len(w), 0, limit)
                                      ELSE Answer(FALSE, 0, wait, limit)
        /\ counts' = counts
    BY DEF Sliding, Judge
  <1>3. windows \in [Keys -> Seq(Nat)]
    BY DEF RateTypes, StoreTypes
  <1>4. /\ \A x \in Keys : x # k => windows'[x] = windows[x]
        /\ windows'[k] = IF up THEN Enter(k) ELSE windows[k]
    BY <1>2, <1>3
  <1>5. w = IF up THEN Enter(k) ELSE <<>>
    OBVIOUS
  <1>. HIDE DEF w, wait, limit
  <1>6. /\ rate'.limit = limit
        /\ rate'.allowed <=> Len(w) <= limit
        /\ rate'.allowed => rate'.remaining = limit - Len(w)
    BY <1>2 DEF Answer
  <1>7. /\ rate'.allowed <=> (up => Len(Enter(k)) <= limit)
        /\ rate'.allowed /\ up => rate'.remaining = limit - Len(Enter(k))
    BY <1>1, <1>5, <1>6
  <1>. QED  BY <1>1, <1>2, <1>4, <1>6, <1>7 DEF limit

LEMMA BucketJudged ==
  ASSUME RateTypes, now \in Nat, NEW k \in Keys, NEW up \in BOOLEAN,
         strategy = "token_bucket", Judge(k, up)
  PROVE  /\ windows' = windows
         /\ \A x \in Keys : counts'[<<x, "fixed">>] = counts[<<x, "fixed">>]
         /\ Effective(k[2]) >= 1 => rate'.allowed
  <1>. DEFINE b == <<k, "bucket">>
              r == <<k, "refill">>
  <1>1. /\ windows' = windows
        /\ \/ counts' = counts
           \/ counts' = [counts EXCEPT ![b] = Raise(b, BucketLife), ![r] = Raise(r, BucketLife)]
    BY DEF Bucket, Judge
  <1>2. counts \in [Keys \X Kinds -> Counters] /\ \A x \in Keys : <<x, "fixed">> \in Keys \X Kinds
    BY DEF RateTypes, StoreTypes, Kinds
  <1>3. \A x \in Keys : counts'[<<x, "fixed">>] = counts[<<x, "fixed">>]
    BY <1>1, <1>2
  <1>4. ASSUME Effective(k[2]) >= 1  PROVE rate'.allowed
    <2>1. Effective(k[2]) > 0 /\ Configured(k[2]).burst > 0
      BY <1>4, EffectiveType DEF RateTypes
    <2>2. Tokens(k, up) = Configured(k[2]).burst
      BY <2>1 DEF Tokens
    <2>3. rate' = Answer(TRUE, Tokens(k, up) - 1, 0, Effective(k[2]))
      BY <2>1, <2>2 DEF Bucket, Judge
    <2>. QED  BY <2>3 DEF Answer
  <1>. QED  BY <1>1, <1>3, <1>4

\* A judged check, seen by what the histories and the stores are afterwards.
LEMMA QuietCounted ==
  ASSUME RateTypes, now \in Nat, NEW k \in Keys, NEW up \in BOOLEAN, Judge(k, up), QuietInv
  PROVE  /\ \A x \in Keys : x # k => /\ counts'[<<x, "fixed">>] = counts[<<x, "fixed">>]
                                     /\ windows'[x] = windows[x]
         /\ counts'[<<k, "fixed">>].expires <= now + WindowSize
         /\ \A i \in 1 .. Len(windows'[k]) : windows'[k][i] <= now
         /\ now > asked[k] + WindowSize /\ Effective(k[2]) >= 1 => rate'.allowed
  <1>. DEFINE c == <<k, "fixed">>
  <1>1. /\ WindowSize \in Nat /\ asked[k] \in Int /\ asked[k] <= now
        /\ c \in Keys \X Kinds /\ counts[c] \in Counters
        /\ counts[c].expires <= asked[k] + WindowSize
        /\ windows[k] \in Seq(Nat) /\ \A i \in 1 .. Len(windows[k]) : windows[k][i] <= asked[k]
    BY RateAssumption DEF QuietInv, RateTypes, StoreTypes, HistoryTypes, Kinds
  <1>2. counts[c].expires \in Nat /\ counts[c].count \in Nat
    BY <1>1 DEF Counters
  <1>3. \A i \in 1 .. Len(windows[k]) : windows[k][i] <= now
    BY <1>1
  <1>4. CASE strategy = "fixed_window"
    <2>1. now > asked[k] + WindowSize => Count(c) = 0
      BY <1>1, <1>2 DEF Count
    <2>2. counts'[c].expires <= now + WindowSize
      BY <1>1, <1>2, <1>4, FixedJudged
    <2>3. now > asked[k] + WindowSize /\ Effective(k[2]) >= 1 => rate'.allowed
      BY <1>4, <2>1, FixedJudged
    <2>4. windows' = windows /\ \A x \in Keys : x # k => counts'[<<x, "fixed">>] = counts[<<x, "fixed">>]
      BY <1>4, FixedJudged
    <2>. QED  BY <1>3, <2>2, <2>3, <2>4
  <1>5. CASE strategy = "sliding_window"
    <2>1. /\ counts' = counts /\ \A x \in Keys : x # k => windows'[x] = windows[x]
          /\ windows'[k] = IF up THEN Enter(k) ELSE windows[k]
          /\ rate'.allowed <=> (up => Len(Enter(k)) <= Effective(k[2]))
          /\ Effective(k[2]) \in Nat
      BY <1>5, SlidingJudged
    <2>2. /\ Enter(k) \in Seq(Nat)
          /\ Gone(k) \in 0 .. Len(windows[k]) + 1
          /\ \A i \in 1 .. Len(Enter(k)) :
               Enter(k)[i] = IF Gone(k) + i <= Len(windows[k]) THEN windows[k][Gone(k) + i] ELSE now
          /\ \A i \in 1 .. Len(windows[k]) : windows[k][i] <= now - WindowSize => i <= Gone(k)
      BY EnterKeeps DEF RateTypes
    <2>3. ASSUME NEW i \in 1 .. Len(Enter(k))  PROVE Enter(k)[i] <= now
      <3>1. CASE Gone(k) + i <= Len(windows[k])
        <4>1. Gone(k) + i \in 1 .. Len(windows[k])
          BY <1>1, <2>2, <3>1
        <4>. QED  BY <1>3, <2>2, <3>1, <4>1
      <3>2. CASE ~ (Gone(k) + i <= Len(windows[k]))
        <4>1. Enter(k)[i] = now
          BY <2>2, <3>2
        <4>. QED  BY <4>1
      <3>. QED  BY <3>1, <3>2
    <2>4. ASSUME now > asked[k] + WindowSize  PROVE Len(Enter(k)) <= 1
      <3>1. ASSUME NEW i \in 1 .. Len(windows[k])  PROVE i <= Gone(k)
        <4>1. windows[k][i] \in Nat /\ windows[k][i] <= asked[k]
          BY <1>1
        <4>2. windows[k][i] <= now - WindowSize
          BY <1>1, <2>4, <4>1
        <4>. QED  BY <2>2, <4>2
      <3>2. Len(windows[k]) <= Gone(k)
        BY <1>1, <2>2, <3>1
      <3>. QED  BY <1>1, <2>2, <3>2 DEF Gone
    <2>5. now > asked[k] + WindowSize /\ Effective(k[2]) >= 1 => rate'.allowed
      BY <2>1, <2>2, <2>4
    <2>6. \A i \in 1 .. Len(windows'[k]) : windows'[k][i] <= now
      BY <1>3, <2>1, <2>3
    <2>. QED  BY <1>1, <1>2, <2>1, <2>5, <2>6
  <1>6. CASE strategy = "token_bucket"
    BY <1>1, <1>2, <1>3, <1>6, BucketJudged
  <1>. QED  BY <1>4, <1>5, <1>6 DEF RateTypes, Strategies

\* A check keeps the invariant, and lets a quiet client through.
LEMMA QuietCheck ==
  ASSUME RateTypes, now \in Nat, NEW k \in Keys, CheckLimit(k), QuietInv, now' = now
  PROVE  QuietInv' /\ QuietClientIsAllowed
  <1>1. /\ asked' = [asked EXCEPT ![k] = now] /\ asked \in [Keys -> Int] /\ WindowSize \in Nat
        /\ asked[k] <= now
    BY RateAssumption DEF CheckLimit, RateTypes, HistoryTypes, QuietInv
  <1>2. /\ asked'[k] = now
        /\ \A x \in Keys : x # k => asked'[x] = asked[x]
    BY <1>1
  <1>3. CASE CachedCheck(k)
    <2>1. /\ counts' = counts /\ windows' = windows /\ cache' = CachedAfterCleanup
          /\ k \in DOMAIN CachedAfterCleanup /\ rate' = CachedAfterCleanup[k].answer
      BY <1>3 DEF CachedCheck, Repeats, Fresh
    <2>2. /\ DOMAIN CachedAfterCleanup \subseteq DOMAIN cache
          /\ \A x \in DOMAIN CachedAfterCleanup : CachedAfterCleanup[x] = cache[x]
      BY CleanedCache
    <2>3. rate'.allowed /\ \A x \in Keys : x \in DOMAIN cache' => cache'[x].answer.allowed
      BY <2>1, <2>2 DEF QuietInv
    <2>4. \A x \in Keys :
            /\ asked'[x] <= now'
            /\ counts'[<<x, "fixed">>].expires <= asked'[x] + WindowSize
            /\ \A i \in 1 .. Len(windows'[x]) : windows'[x][i] <= asked'[x]
      <3>1. /\ counts[<<k, "fixed">>].expires \in Nat
            /\ windows[k] \in Seq(Nat)
        BY DEF RateTypes, StoreTypes, Counters, Kinds
      <3>2. /\ counts[<<k, "fixed">>].expires <= now + WindowSize
            /\ \A i \in 1 .. Len(windows[k]) : windows[k][i] <= now
        BY <1>1, <3>1 DEF QuietInv
      <3>3. asked'[k] = now' /\ now' = now
        BY <1>2
      <3>. SUFFICES ASSUME NEW x \in Keys
                    PROVE  /\ asked'[x] <= now'
                           /\ counts'[<<x, "fixed">>].expires <= asked'[x] + WindowSize
                           /\ \A i \in 1 .. Len(windows'[x]) : windows'[x][i] <= asked'[x]
        OBVIOUS
      <3>4. CASE x = k
        BY <2>1, <3>2, <3>3, <3>4
      <3>5. CASE x # k
        BY <1>2, <2>1, <3>3, <3>5 DEF QuietInv
      <3>. QED  BY <3>4, <3>5
    <2>. QED  BY <1>2, <2>3, <2>4 DEF QuietInv, QuietClientIsAllowed
  <1>4. CASE CountedCheck(k)
    <2>1. PICK up \in BOOLEAN : Judge(k, up)
      BY <1>4, CountedCheckFacts
    <2>2. /\ \A x \in Keys : x # k => /\ counts'[<<x, "fixed">>] = counts[<<x, "fixed">>]
                                      /\ windows'[x] = windows[x]
          /\ counts'[<<k, "fixed">>].expires <= now + WindowSize
          /\ \A i \in 1 .. Len(windows'[k]) : windows'[k][i] <= now
          /\ now > asked[k] + WindowSize /\ Effective(k[2]) >= 1 => rate'.allowed
      BY <2>1, QuietCounted
    <2>3. \A x \in Keys : x \in DOMAIN cache' => cache'[x].answer.allowed
      <3>. SUFFICES ASSUME NEW x \in DOMAIN cache'  PROVE cache'[x].answer.allowed
        OBVIOUS
      <3>1. CASE x \in DOMAIN cache /\ cache'[x] = cache[x]
        BY <3>1 DEF QuietInv, RateTypes, CacheTypes
      <3>2. CASE cache'[x] = [at |-> now, answer |-> rate'] /\ rate'.allowed
        BY <3>2
      <3>. QED  BY <1>4, <3>1, <3>2, CountedCheckCache
    <2>4. QuietInv'
      <3>. SUFFICES ASSUME NEW x \in Keys
                    PROVE  /\ asked'[x] <= now'
                           /\ counts'[<<x, "fixed">>].expires <= asked'[x] + WindowSize
                           /\ \A i \in 1 .. Len(windows'[x]) : windows'[x][i] <= asked'[x]
        BY <2>3 DEF QuietInv
      <3>1. CASE x = k
        BY <1>2, <2>2, <3>1
      <3>2. CASE x # k
        BY <1>2, <2>2, <3>2 DEF QuietInv
      <3>. QED  BY <3>1, <3>2
    <2>. QED  BY <1>2, <2>2, <2>4 DEF QuietClientIsAllowed
  <1>. QED  BY <1>3, <1>4 DEF CheckLimit

LEMMA QuietInvInit == Init => QuietInv
  <1>. SUFFICES ASSUME Init  PROVE QuietInv
    OBVIOUS
  <1>1. /\ now = 1 /\ WindowSize \in Nat
        /\ asked = [k \in Keys |-> 0 - WindowSize] /\ windows = [k \in Keys |-> <<>>]
        /\ counts = [k \in Keys \X Kinds |-> Zero]
        /\ DOMAIN cache = {}
    BY RateAssumption DEF Init, StartClock, RateInit, Kinds
  <1>2. \A k \in Keys : counts[<<k, "fixed">>].expires = 0
    BY <1>1 DEF Zero, Kinds
  <1>3. \A k \in Keys : asked[k] = 0 - WindowSize /\ Len(windows[k]) = 0
    BY <1>1
  <1>. SUFFICES ASSUME NEW k \in Keys
                PROVE  /\ asked[k] <= now
                       /\ counts[<<k, "fixed">>].expires <= asked[k] + WindowSize
                       /\ \A i \in 1 .. Len(windows[k]) : windows[k][i] <= asked[k]
    BY <1>1 DEF QuietInv
  <1>4. (0 - WindowSize) + WindowSize = 0 /\ 0 - WindowSize <= 1
    BY <1>1
  <1>5. counts[<<k, "fixed">>].expires = asked[k] + WindowSize
    BY <1>2, <1>3, <1>4
  <1>. QED  BY <1>1, <1>3, <1>4, <1>5

LEMMA QuietStep ==
  AllTypes /\ QuietInv /\ [Next]_vars => QuietInv' /\ QuietClientIsAllowed
  <1>. SUFFICES ASSUME AllTypes, QuietInv, [Next]_vars  PROVE QuietInv' /\ QuietClientIsAllowed
    OBVIOUS
  <1>1. RateTypes /\ now \in Nat /\ (now' = now \/ now' = now + 1)
    BY ClockTypesNext DEF AllTypes, ClockTypes
  <1>2. CASE UNCHANGED <<counts, windows, cache, asked>>
    <2>1. \A k \in Keys : asked[k] \in Int
      BY <1>1 DEF RateTypes, HistoryTypes
    <2>. QED  BY <1>1, <1>2, <2>1 DEF QuietInv, QuietClientIsAllowed
  <1>3. CASE now' = now /\ \E k \in Keys : CheckLimit(k)
    BY <1>1, <1>3, QuietCheck
  <1>. QED  BY <1>2, <1>3, RateSteps DEF rateVars, ConfigureLimit, AdjustLimitForLoad, ResetStats

LEMMA CacheInvCheck ==
  ASSUME RateTypes, now \in Nat, NEW k \in Keys, CheckLimit(k), CacheInv
  PROVE  CacheInv'
  <1>1. CASE CachedCheck(k)
    <2>1. UNCHANGED <<strategy, distributed, counts, windows>> /\ cache' = CachedAfterCleanup
      BY <1>1 DEF CachedCheck
    <2>. QED  BY <2>1, CleanedCache DEF CacheInv
  <1>2. CASE CountedCheck(k)
    <2>1. PICK up \in IF distributed THEN BOOLEAN ELSE {TRUE} : Judge(k, up)
      BY <1>2, CountedCheckFacts
    <2>2. UNCHANGED <<strategy, distributed>> /\ rate' \in Answers /\ StoreTypes'
      BY <1>2, CountedCheckFacts
    <2>3. up \in BOOLEAN
      BY <2>1
    <2>. SUFFICES ASSUME NEW x \in DOMAIN cache'
                  PROVE  /\ ~ distributed
                         /\ strategy = "fixed_window" =>
                              counts'[<<x, "fixed">>].count + 1 <= cache'[x].answer.limit
                         /\ strategy = "sliding_window" =>
                              Len(windows'[x]) + 1 <= cache'[x].answer.limit
      BY <2>2 DEF CacheInv
    <2>4. CASE x \in DOMAIN cache /\ cache'[x] = cache[x] /\ (x # k \/ distributed)
      <3>1. ~ distributed /\ x # k /\ x \in Keys
        BY <2>4 DEF CacheInv, RateTypes, CacheTypes
      <3>2. CASE strategy = "fixed_window"
        <4>1. counts'[<<x, "fixed">>] = counts[<<x, "fixed">>]
          BY <2>1, <2>3, <3>1, <3>2, FixedJudged
        <4>. QED  BY <2>4, <3>1, <3>2, <4>1 DEF CacheInv
      <3>3. CASE strategy = "sliding_window"
        <4>1. windows'[x] = windows[x]
          BY <2>1, <2>3, <3>1, <3>3, SlidingJudged
        <4>. QED  BY <2>4, <3>1, <3>3, <4>1 DEF CacheInv
      <3>. QED  BY <3>1, <3>2, <3>3
    <2>5. CASE /\ x = k /\ ~ distributed /\ cache'[x] = [at |-> now, answer |-> rate']
               /\ rate'.allowed /\ 10 * rate'.remaining > rate'.limit
      <3>1. /\ up = TRUE /\ cache'[x].answer = rate'
            /\ rate'.remaining \in Nat /\ rate'.limit \in Nat
        BY <2>1, <2>2, <2>5 DEF Answers
      <3>2. rate'.remaining >= 1
        BY <2>5, <3>1
      <3>3. CASE strategy = "fixed_window"
        <4>. DEFINE c == <<k, "fixed">>
        <4>1. /\ counts'[c].count = Count(c) + 1 /\ rate'.remaining = rate'.limit - (Count(c) + 1)
          BY <2>1, <2>3, <2>5, <3>1, <3>3, FixedJudged
        <4>2. Count(c) \in Nat
          BY DEF RateTypes, StoreTypes, Counters, Kinds, Count
        <4>. QED  BY <2>5, <3>1, <3>2, <3>3, <4>1, <4>2
      <3>4. CASE strategy = "sliding_window"
        <4>1. /\ windows'[k] = Enter(k) /\ rate'.remaining = rate'.limit - Len(Enter(k))
          BY <2>1, <2>3, <2>5, <3>1, <3>4, SlidingJudged
        <4>2. Len(Enter(k)) \in Nat
          BY EnterKeeps DEF RateTypes
        <4>. QED  BY <2>5, <3>1, <3>2, <3>4, <4>1, <4>2
      <3>. QED  BY <2>5, <3>3, <3>4
    <2>. QED  BY <1>2, <2>4, <2>5, CountedCheckCache
  <1>. QED  BY <1>1, <1>2 DEF CheckLimit

LEMMA CacheInvNext == AllTypes /\ CacheInv /\ [Next]_vars => CacheInv'
  <1>. SUFFICES ASSUME AllTypes, CacheInv, [Next]_vars  PROVE CacheInv'
    OBVIOUS
  <1>1. RateTypes /\ now \in Nat
    BY DEF AllTypes, ClockTypes
  <1>2. CASE UNCHANGED <<strategy, distributed, counts, windows, cache>>
    BY <1>2 DEF CacheInv
  <1>3. CASE \E k \in Keys : CheckLimit(k)
    BY <1>1, <1>3, CacheInvCheck
  <1>. QED  BY <1>2, <1>3, RateSteps DEF rateVars, ConfigureLimit, AdjustLimitForLoad, ResetStats

\* The invariant says more than the property: it holds for the answers that are
\* not fresh as well.
LEMMA CacheInvFits == AllTypes /\ CacheInv => CachedAnswersStillFit
  <1>. SUFFICES ASSUME AllTypes, CacheInv, NEW k \in DOMAIN cache, strategy # "token_bucket",
                       Effective(k[2]) >= cache[k].answer.limit
                PROVE  Used(k) + 1 <= Effective(k[2])
    BY DEF CachedAnswersStillFit
  <1>1. /\ k \in Keys /\ cache[k].answer.limit \in Nat /\ Effective(k[2]) \in Nat
        /\ RateTypes /\ now \in Nat
    BY EffectiveType DEF AllTypes, ClockTypes, RateTypes, CacheTypes, Answers
  <1>2. CASE strategy = "fixed_window"
    <2>1. Count(<<k, "fixed">>) \in Nat /\ counts[<<k, "fixed">>].count \in Nat
          /\ Count(<<k, "fixed">>) <= counts[<<k, "fixed">>].count
      BY <1>1 DEF RateTypes, StoreTypes, Counters, Kinds, Count
    <2>. QED  BY <1>1, <1>2, <2>1 DEF CacheInv, Used
  <1>3. CASE strategy = "sliding_window"
    <2>1. Len(Enter(k)) \in Nat /\ Len(windows[k]) \in Nat /\ Len(Enter(k)) <= Len(windows[k]) + 1
      BY <1>1, EnterKeeps DEF RateTypes, StoreTypes, Gone
    <2>. QED  BY <1>1, <1>3, <2>1 DEF CacheInv, Used
  <1>. QED  BY <1>1, <1>2, <1>3 DEF RateTypes, Strategies

-----------------------------------------------------------------------------
(* Failures that left the window block nobody.                             *)

LEMMA YoungEntries ==
  ASSUME NEW all \in Seq(Failures), now \in Nat, Young(all) # <<>>
  PROVE  \E i \in DOMAIN all : all[i].at > now - ThreatWindow
  <1>. DEFINE old == {i \in DOMAIN all : all[i].at <= now - ThreatWindow}
              d == DropThrough(all, old)
  <1>1. old \subseteq DOMAIN all
    OBVIOUS
  <1>2. Young(all) = d
    BY DEF Young
  <1>. HIDE DEF old
  <1>3. d \in Seq(Failures) /\ Len(all) - Len(d) \in 0 .. Len(all)
    <2>1. d \in Seq(Failures)
      BY <1>1, Dropped
    <2>2. Len(all) - Len(d) \in 0 .. Len(all)
      BY <1>1, Dropped
    <2>. QED  BY <2>1, <2>2
  <1>4. \A i \in old : i <= Len(all) - Len(d)
    BY <1>1, Dropped
  <1>. HIDE DEF d
  <1>5. Len(d) > 0
    BY <1>2, <1>3
  <1>6. Len(all) \in DOMAIN all /\ ~ (Len(all) <= Len(all) - Len(d))
    BY <1>3, <1>5
  <1>7. Len(all) \notin old
    BY <1>4, <1>6
  <1>8. all[Len(all)].at \in Nat
    <2>1. all[Len(all)] \in Failures
      BY <1>6
    <2>. QED  BY <2>1 DEF Failures
  <1>9. all[Len(all)].at > now - ThreatWindow
    BY <1>6, <1>7, <1>8, ManagerAssumption DEF old
  <1>. QED  BY <1>6, <1>9

\* Without recent failures no pattern is seen and the confidence is 0.
LEMMA NoFailureNoThreat ==
  ASSUME NEW c, Recent(c) = <<>>, threshold \in Nat \ {0}
  PROVE  AnalyzeThreatLevel(c).block = FALSE
  <1>1. Len(Recent(c)) = 0 /\ Range(Recent(c)) = {}
    BY DEF Range
  <1>2. Patterns(c) = {}
    <2>. DEFINE reasons == {f.reason : f \in Range(Recent(c))}
    <2>1. reasons = {}
      BY <1>1
    <2>2. Cardinality(reasons) = 0
      BY <2>1, FS_EmptySet
    <2>3. ~ (Cardinality(reasons) >= 3)
      BY <2>2
    <2>4. ~ (Len(Recent(c)) >= threshold) /\ ~ (Len(Recent(c)) >= 5)
      BY <1>1
    <2>. QED  BY <2>3, <2>4, Zenon DEF Patterns
  <1>3. Cardinality(Patterns(c)) = 0
    BY <1>2, FS_EmptySet
  <1>. DEFINE top == 10 * threshold
  <1>4. top \in Int /\ 0 \in Int /\ 0 <= top
    OBVIOUS
  <1>5. Min({top, 0}) = 0
    <2>1. Min({top, 0}) \in {top, 0} /\ Min({top, 0}) <= top /\ Min({top, 0}) <= 0
      BY <1>4, MinOfTwo, Zenon
    <2>. QED  BY <1>4, <2>1
  <1>6. Confidence(c) = 0
    <2>1. 10 * Len(Recent(c)) = 0
      BY <1>1
    <2>2. Min({top, 10 * Len(Recent(c))}) + threshold * Cardinality(Patterns(c)) = 0
      <3>1. Min({top, 10 * Len(Recent(c))}) = 0
        BY <1>5, <2>1, Zenon
      <3>2. threshold * Cardinality(Patterns(c)) = 0
        BY <1>3
      <3>. QED  BY <3>1, <3>2
    <2>3. Confidence(c) = Min({top, 0})
      BY <2>2, Zenon DEF Confidence
    <2>. QED  BY <1>5, <2>3
  <1>7. ~ (Confidence(c) > 8 * threshold) /\ ~ (Confidence(c) > 6 * threshold)
        /\ ~ (Confidence(c) > 4 * threshold)
    BY <1>6
  <1>8. Level(c) = "low"
    BY <1>7, Zenon DEF Level
  <1>9. "low" \notin {"critical", "high"}
    OBVIOUS
  <1>10. Level(c) \notin {"critical", "high"}
    BY <1>8, <1>9, Zenon
  <1>11. AnalyzeThreatLevel(c).block = (Level(c) \in {"critical", "high"})
    BY DEF AnalyzeThreatLevel
  <1>12. (Level(c) \in {"critical", "high"}) = FALSE
    BY <1>10
  <1>. QED  BY <1>11, <1>12, Zenon

LEMMA BlocksForYoungFailures ==
  AllTypes /\ [Next]_vars => OldFailuresDoNotBlock
  <1>. SUFFICES ASSUME AllTypes, [Next]_vars, verdict'.threat.block, verdict' # verdict
                PROVE  \E i \in DOMAIN failed[verdict'.threat.client] :
                         failed[verdict'.threat.client][i].at > now - ThreatWindow
    BY DEF OldFailuresDoNotBlock
  <1>1. PICK k \in Keys, s \in campaign.samples : ValidateRequest(k, s.request, s.headers, s.call)
    <2>1. Operation
      BY DEF Next, vars, Setup, ConfigureHooks, ConfigureAddresses, ConfigureRates,
             EnableThreatDetection, EnableAuditLogging, ValidateContent, managerVars
    <2>. QED  BY <2>1 DEF Operation, RecordFailedRequest, RecordEvent
  <1>2. PICK raises \in BOOLEAN :
          verdict'.threat = IF threshold = 0 \/ raises THEN NoThreat ELSE AnalyzeThreatLevel(k[1])
    BY <1>1 DEF ValidateRequest
  <1>3. threshold # 0 /\ verdict'.threat = AnalyzeThreatLevel(k[1])
    BY <1>2 DEF NoThreat
  <1>4. /\ threshold \in Nat \ {0} /\ k[1] \in Clients /\ now \in Nat
        /\ failed[k[1]] \in Seq(Failures)
    BY <1>3, ManagerAssumption DEF AllTypes, ManagerTypes, ClockTypes, Keys
  <1>5. verdict'.threat.client = k[1]
    BY <1>3 DEF AnalyzeThreatLevel
  <1>6. Recent(k[1]) # <<>>
    BY <1>3, <1>4, NoFailureNoThreat
  <1>. QED  BY <1>4, <1>5, <1>6, YoungEntries DEF Recent

\* Neither requests nor failures count against a client once they left the window.
THEOREM PastIsAlwaysForgotten == Spec => PastIsForgotten
  <1>1. AllTypes /\ QuietInv /\ [Next]_vars => [QuietClientIsAllowed /\ OldFailuresDoNotBlock]_vars
    BY QuietStep, BlocksForYoungFailures
  <1>. QED  BY <1>1, AllTypesInit, AllTypesNext, QuietInvInit, QuietStep, PTL
            DEF Spec, PastIsForgotten

-----------------------------------------------------------------------------
(* A sliding window.                                                       *)

\* Grant i stands in the window w, with as many requests after it as there are
\* grants after it and more to come.
Stands(w, g, i, more) ==
  \E p \in 1 .. Len(w) : w[p] = g[i].at /\ Len(w) - p >= Len(g) + more - i

\* A window in Redis is full of requests no older than one at time s, which may
\* have been trimmed away.
Crowded(w, s) == distributed /\ Len(w) = WindowKept /\ \A p \in 1 .. Len(w) : s <= w[p]

\* The window is in the order of time, and the young grants stand in it or were
\* trimmed away.
Lined(w, g, t) ==
  /\ \A i, j \in 1 .. Len(w) : i <= j => w[i] <= w[j]
  /\ \A i \in 1 .. Len(g) :
       /\ g[i].at <= t
       /\ g[i].at > t - WindowSize => Stands(w, g, i, 0) \/ Crowded(w, g[i].at)

\* The present request enters the window behind all others. What goes is older than
\* the young grants, or is trimmed from a full window.
LEMMA EnterShifts ==
  ASSUME NEW k \in Keys, StoreTypes, now \in Nat, NEW g \in Seq(Grants), Lined(windows[k], g, now),
         \A i \in 1 .. Len(windows[k]) : windows[k][i] <= now
  PROVE  /\ \A i, j \in 1 .. Len(Enter(k)) : i <= j => Enter(k)[i] <= Enter(k)[j]
         /\ \A i \in 1 .. Len(g) : g[i].at > now - WindowSize =>
              Stands(Enter(k), g, i, 1) \/ Crowded(Enter(k), g[i].at)
         /\ WindowSize > 0 => Len(Enter(k)) >= 1 /\ Enter(k)[Len(Enter(k))] = now
  <1>. DEFINE w == windows[k]
              e == Enter(k)
              m == Gone(k)
  <1>1. w \in Seq(Nat) /\ WindowSize \in Nat /\ WindowKept \in Nat \ {0} /\ e \in Seq(Nat)
    BY EnterKeeps, RateAssumption DEF StoreTypes
  <1>2. m \in 0 .. Len(w) + 1 /\ (distributed => Len(e) <= WindowKept)
    BY EnterKeeps
  <1>3. \A i \in 1 .. Len(e) : e[i] = IF m + i <= Len(w) THEN w[m + i] ELSE now
    BY EnterKeeps
  <1>4. \/ m = 0
        \/ m = Len(w) + 1 /\ WindowSize = 0
        \/ m <= Len(w) /\ w[m] <= now - WindowSize
        \/ distributed /\ m <= Len(w) /\ Len(e) = WindowKept
    BY EnterKeeps
  <1>5. m = Len(w) + 1 - Len(e)
    BY DEF Gone
  <1>6. \A i, j \in 1 .. Len(w) : i <= j => w[i] <= w[j]
    BY DEF Lined
  <1>7. \A i \in 1 .. Len(w) : w[i] <= now
    OBVIOUS
  <1>8. \A i \in 1 .. Len(g) : /\ g[i].at <= now
                               /\ g[i].at > now - WindowSize => Stands(w, g, i, 0) \/ Crowded(w, g[i].at)
    BY DEF Lined
  <1>. HIDE DEF w, e, m
  <1>9. Len(e) = Len(w) + 1 - m /\ Len(w) \in Nat /\ Len(e) \in Nat /\ Len(g) \in Nat
    BY <1>1, <1>2, <1>5
  <1>10. ASSUME NEW i \in 1 .. Len(e), NEW j \in 1 .. Len(e), i <= j
         PROVE  e[i] <= e[j]
    <2>1. m + i \in 1 .. Len(w) + 1 /\ m + j \in 1 .. Len(w) + 1 /\ m + i <= m + j
      BY <1>2, <1>9, <1>10
    <2>2. e[i] = (IF m + i <= Len(w) THEN w[m + i] ELSE now)
      BY <1>3
    <2>3. e[j] = (IF m + j <= Len(w) THEN w[m + j] ELSE now)
      BY <1>3
    <2>. QED  BY <1>6, <1>7, <1>9, <2>1, <2>2, <2>3
  <1>11. ASSUME NEW i \in 1 .. Len(g), g[i].at > now - WindowSize
         PROVE  Stands(e, g, i, 1) \/ Crowded(e, g[i].at)
    <2>. DEFINE s == g[i].at
    <2>1. s <= now /\ s > now - WindowSize /\ s \in Nat
      <3>1. g[i] \in Grants
        OBVIOUS
      <3>. QED  BY <1>8, <1>11, <3>1 DEF Grants
    <2>2. Stands(w, g, i, 0) \/ Crowded(w, s)
      BY <1>8, <1>11
    <2>. HIDE DEF s
    <2>3. ASSUME \A q \in 1 .. Len(w) : q > m => s <= w[q]
          PROVE  \A q \in 1 .. Len(e) : s <= e[q]
      <3>1. ASSUME NEW q \in 1 .. Len(e)  PROVE s <= e[q]
        <4>1. e[q] = (IF m + q <= Len(w) THEN w[m + q] ELSE now)
          BY <1>3
        <4>2. m + q \in 1 .. Len(w) + 1 /\ m + q > m
          BY <1>2, <1>9
        <4>. QED  BY <1>9, <2>1, <2>3, <4>1, <4>2
      <3>. QED  BY <3>1
    <2>4. CASE Crowded(w, s)
      <3>1. distributed /\ Len(w) = WindowKept /\ \A p \in 1 .. Len(w) : s <= w[p]
        BY <2>4 DEF Crowded
      <3>2. m # 0
        BY <1>1, <1>2, <1>9, <3>1
      <3>3. ~ (m = Len(w) + 1 /\ WindowSize = 0)
        BY <1>1, <2>1
      <3>4. ~ (m <= Len(w) /\ w[m] <= now - WindowSize)
        <4>. SUFFICES ASSUME m <= Len(w), w[m] <= now - WindowSize  PROVE FALSE
          OBVIOUS
        <4>1. m \in 1 .. Len(w)
          BY <1>2, <1>9, <3>2
        <4>2. w[m] \in Nat /\ s <= w[m]
          BY <1>1, <3>1, <4>1
        <4>. QED  BY <1>1, <2>1, <4>2
      <3>5. Len(e) = WindowKept
        BY <1>4, <3>2, <3>3, <3>4
      <3>6. \A q \in 1 .. Len(e) : s <= e[q]
        BY <2>3, <3>1
      <3>. QED  BY <3>1, <3>5, <3>6 DEF Crowded, s
    <2>5. ASSUME Stands(w, g, i, 0)
          PROVE  Stands(e, g, i, 1) \/ Crowded(e, g[i].at)
      <3>1. PICK p \in 1 .. Len(w) : w[p] = s /\ Len(w) - p >= Len(g) + 0 - i
        BY <2>5 DEF Stands, s
      <3>2. CASE p > m
        <4>1. p - m \in 1 .. Len(e) /\ m + (p - m) = p /\ Len(e) - (p - m) >= Len(g) + 1 - i
          BY <1>2, <1>9, <3>1, <3>2
        <4>2. e[p - m] = s
          <5>1. e[p - m] = IF m + (p - m) <= Len(w) THEN w[m + (p - m)] ELSE now
            BY <1>3, <4>1
          <5>. QED  BY <3>1, <4>1, <5>1
        <4>. QED  BY <4>1, <4>2 DEF Stands, s
      <3>3. CASE ~ (p > m)
        <4>1. m # 0 /\ p <= m
          BY <1>2, <3>1, <3>3
        <4>2. ~ (m = Len(w) + 1 /\ WindowSize = 0)
          BY <1>1, <2>1
        <4>3. ~ (m <= Len(w) /\ w[m] <= now - WindowSize)
          <5>. SUFFICES ASSUME m <= Len(w), w[m] <= now - WindowSize  PROVE FALSE
            OBVIOUS
          <5>1. m \in 1 .. Len(w)
            BY <1>2, <1>9, <4>1
          <5>2. w[m] \in Nat /\ w[p] <= w[m]
            BY <1>1, <1>6, <4>1, <5>1
          <5>. QED  BY <1>1, <2>1, <3>1, <5>2
        <4>4. distributed /\ Len(e) = WindowKept
          BY <1>4, <4>1, <4>2, <4>3
        <4>5. \A q \in 1 .. Len(w) : q > m => s <= w[q]
          <5>1. ASSUME NEW q \in 1 .. Len(w), q > m  PROVE s <= w[q]
            <6>1. p <= q
              BY <1>2, <4>1, <5>1
            <6>. QED  BY <1>6, <3>1, <6>1
          <5>. QED  BY <5>1
        <4>6. \A q \in 1 .. Len(e) : s <= e[q]
          BY <2>3, <4>5
        <4>. QED  BY <4>4, <4>6 DEF Crowded, s
      <3>. QED  BY <3>2, <3>3
    <2>. QED  BY <2>2, <2>4, <2>5 DEF s
  <1>12. ASSUME WindowSize > 0  PROVE Len(e) >= 1 /\ e[Len(e)] = now
    <2>1. m <= Len(w)
      BY <1>1, <1>2, <1>4, <1>9, <1>12
    <2>2. Len(e) \in 1 .. Len(e) /\ ~ (m + Len(e) <= Len(w))
      BY <1>2, <1>9, <2>1
    <2>. QED  BY <1>3, <1>9, <2>2
  <1>. QED  BY <1>10, <1>11, <1>12 DEF e

\* A refused request leaves the grants as they are; a granted one comes after them.
LEMMA LinedAfterRefusal ==
  ASSUME NEW k \in Keys, StoreTypes, now \in Nat, NEW g \in Seq(Grants), Lined(windows[k], g, now),
         \A i \in 1 .. Len(windows[k]) : windows[k][i] <= now
  PROVE  Lined(Enter(k), g, now)
  <1>1. Enter(k) \in Seq(Nat) /\ Len(g) \in Nat
    BY EnterKeeps
  <1>2. ASSUME NEW i \in 1 .. Len(g), Stands(Enter(k), g, i, 1)
        PROVE  Stands(Enter(k), g, i, 0)
    <2>1. PICK p \in 1 .. Len(Enter(k)) :
            Enter(k)[p] = g[i].at /\ Len(Enter(k)) - p >= Len(g) + 1 - i
      BY <1>2 DEF Stands
    <2>2. Len(Enter(k)) - p >= Len(g) + 0 - i
      BY <1>1, <2>1
    <2>. QED  BY <2>1, <2>2 DEF Stands
  <1>3. \A i \in 1 .. Len(g) : g[i].at <= now
    BY DEF Lined
  <1>. QED  BY <1>2, <1>3, EnterShifts DEF Lined

LEMMA LinedAfterGrant ==
  ASSUME NEW k \in Keys, StoreTypes, now \in Nat, NEW g \in Seq(Grants), Lined(windows[k], g, now),
         \A i \in 1 .. Len(windows[k]) : windows[k][i] <= now, NEW limit \in Nat
  PROVE  Lined(Enter(k), Append(g, [at |-> now, limit |-> limit]), now)
  <1>. DEFINE last == [at |-> now, limit |-> limit]
              h == Append(g, last)
              e == Enter(k)
  <1>1. e \in Seq(Nat) /\ Len(g) \in Nat /\ WindowSize \in Nat
    BY EnterKeeps, RateAssumption
  <1>2. Len(h) = Len(g) + 1 /\ h[Len(g) + 1] = last /\ \A i \in 1 .. Len(g) : h[i] = g[i]
    BY AppendProperties
  <1>3. last.at = now
    OBVIOUS
  <1>4. \A i \in 1 .. Len(g) : g[i].at <= now
    BY DEF Lined
  <1>. HIDE DEF last
  <1>5. /\ \A i, j \in 1 .. Len(e) : i <= j => e[i] <= e[j]
        /\ \A i \in 1 .. Len(g) : g[i].at > now - WindowSize =>
             Stands(e, g, i, 1) \/ Crowded(e, g[i].at)
        /\ WindowSize > 0 => Len(e) >= 1 /\ e[Len(e)] = now
    BY EnterShifts
  <1>. HIDE DEF h, e
  <1>6. ASSUME NEW i \in 1 .. Len(h)
        PROVE  /\ h[i].at <= now
               /\ h[i].at > now - WindowSize => Stands(e, h, i, 0) \/ Crowded(e, h[i].at)
    <2>1. CASE i \in 1 .. Len(g)
      <3>1. h[i] = g[i]
        BY <1>2, <2>1
      <3>2. ASSUME g[i].at > now - WindowSize, ~ Crowded(e, g[i].at)
            PROVE  Stands(e, h, i, 0)
        <4>1. PICK p \in 1 .. Len(e) : e[p] = g[i].at /\ Len(e) - p >= Len(g) + 1 - i
          BY <1>5, <2>1, <3>2 DEF Stands
        <4>2. Len(e) - p >= Len(h) + 0 - i
          BY <1>1, <1>2, <4>1
        <4>. QED  BY <3>1, <4>1, <4>2 DEF Stands
      <3>. QED  BY <1>4, <2>1, <3>1, <3>2
    <2>2. CASE i = Len(g) + 1
      <3>1. h[i].at = now
        BY <1>2, <1>3, <2>2
      <3>2. ASSUME WindowSize > 0  PROVE Stands(e, h, i, 0)
        <4>1. Len(e) \in 1 .. Len(e) /\ e[Len(e)] = h[i].at
          BY <1>1, <1>5, <3>1, <3>2
        <4>2. Len(e) - Len(e) >= Len(h) + 0 - i
          BY <1>1, <1>2, <2>2
        <4>. QED  BY <4>1, <4>2 DEF Stands
      <3>3. now > now - WindowSize => WindowSize > 0
        BY <1>1
      <3>. QED  BY <3>1, <3>2, <3>3
    <2>. QED  BY <1>1, <1>2, <2>1, <2>2
  <1>. QED  BY <1>5, <1>6 DEF Lined, e, h, last

\* Young grants are no more than the requests in the window, unless it is full.
LEMMA LinedFits ==
  ASSUME NEW w \in Seq(Nat), NEW g \in Seq(Grants), NEW t, Lined(w, g, t),
         ~ (distributed /\ Len(w) = WindowKept)
  PROVE  Cardinality({i \in DOMAIN g : g[i].at > t - WindowSize}) <= Len(w)
  <1>. DEFINE S == {i \in DOMAIN g : g[i].at > t - WindowSize}
              a == Len(g) - Len(w) + 1
  <1>1. Len(g) \in Nat /\ Len(w) \in Nat /\ a \in Int /\ DOMAIN g = 1 .. Len(g)
    OBVIOUS
  <1>2. ASSUME NEW i \in S  PROVE i \in a .. Len(g)
    <2>1. PICK p \in 1 .. Len(w) : w[p] = g[i].at /\ Len(w) - p >= Len(g) + 0 - i
      BY <1>1 DEF Lined, Stands, Crowded
    <2>. QED  BY <1>1, <2>1
  <1>3. IsFiniteSet(a .. Len(g)) /\ Cardinality(a .. Len(g)) <= Len(w)
    <2>1. /\ IsFiniteSet(a .. Len(g))
          /\ Cardinality(a .. Len(g)) = IF a > Len(g) THEN 0 ELSE Len(g) - a + 1
      <3>1. a \in Int /\ Len(g) \in Int
        BY <1>1
      <3>. HIDE DEF a
      <3>. QED  BY <3>1, FS_Interval, Zenon
    <2>. QED  BY <1>1, <2>1
  <1>. HIDE DEF S, a
  <1>4. Cardinality(S) <= Cardinality(a .. Len(g)) /\ IsFiniteSet(S)
    BY <1>2, <1>3, FS_Subset
  <1>5. Cardinality(S) \in Nat /\ Cardinality(a .. Len(g)) \in Nat
    BY <1>3, <1>4, FS_CardinalityType
  <1>. QED  BY <1>1, <1>3, <1>4, <1>5 DEF S

-----------------------------------------------------------------------------
(* A fixed window.                                                         *)

\* The grants g of a client fall into the periods of its counter c: start[i] is
\* when the counter of grant i began, current when the present one did. A later
\* period begins after the grants of the earlier ones, and more than a window
\* after they began.
Earlier(g, start, i, s) == g[i].at < s /\ start[i] + WindowSize < s

Periods(g, c, t, start, current) ==
  /\ current <= t /\ current + WindowSize <= c.expires
  /\ \A i \in 1 .. Len(g) :
       /\ start[i] <= g[i].at /\ g[i].at <= t /\ g[i].at <= c.expires
       /\ Earlier(g, start, i, current) \/ (start[i] = current /\ Len(g) - i + 1 <= c.count)
  /\ \A i, j \in 1 .. Len(g) : i <= j =>
       /\ g[i].at <= g[j].at
       /\ Earlier(g, start, i, start[j]) \/ (start[i] = start[j] /\ j - i + 1 <= g[j].limit)

Starts(g) == [1 .. Len(g) -> Int]

\* Time passes, and refused requests are counted as well.
LEMMA PeriodsLast ==
  ASSUME NEW g \in Seq(Grants), NEW c \in Counters, NEW t \in Nat, NEW start \in Starts(g),
         NEW current \in Int, Periods(g, c, t, start, current),
         NEW d \in Counters, NEW u \in Nat, c.count <= d.count, c.expires <= d.expires, t <= u
  PROVE  Periods(g, d, u, start, current)
  <1>1. /\ c.count \in Nat /\ c.expires \in Nat /\ d.count \in Nat /\ d.expires \in Nat
        /\ Len(g) \in Nat /\ WindowSize \in Nat
    BY RateAssumption DEF Counters
  <1>2. current <= u /\ current + WindowSize <= d.expires
    BY <1>1 DEF Periods
  <1>3. ASSUME NEW i \in 1 .. Len(g)
        PROVE  /\ start[i] <= g[i].at /\ g[i].at <= u /\ g[i].at <= d.expires
               /\ \/ Earlier(g, start, i, current)
                  \/ start[i] = current /\ Len(g) - i + 1 <= d.count
    <2>1. g[i] \in Grants
      OBVIOUS
    <2>2. g[i].at \in Nat
      BY <2>1 DEF Grants
    <2>. QED  BY <1>1, <2>2 DEF Periods
  <1>. QED  BY <1>2, <1>3 DEF Periods

\* The counter begins again with the first request after its expiry.
LEMMA PeriodsRestart ==
  ASSUME NEW g \in Seq(Grants), NEW c \in Counters, NEW t \in Nat, NEW start \in Starts(g),
         NEW current \in Int, Periods(g, c, t, start, current), c.expires < t,
         NEW d \in Counters, d.expires = t + WindowSize
  PROVE  Periods(g, d, t, start, t)
  <1>1. /\ c.expires \in Nat /\ Len(g) \in Nat /\ WindowSize \in Nat
        /\ current + WindowSize <= c.expires
    BY RateAssumption DEF Counters, Periods
  <1>2. ASSUME NEW i \in 1 .. Len(g)
        PROVE  /\ start[i] <= g[i].at /\ g[i].at <= t /\ g[i].at <= d.expires
               /\ Earlier(g, start, i, t)
    <2>1. g[i] \in Grants
      OBVIOUS
    <2>2. g[i].at \in Nat /\ start[i] \in Int
      BY <2>1 DEF Grants, Starts
    <2>3. /\ start[i] <= g[i].at /\ g[i].at <= t /\ g[i].at <= c.expires
          /\ Earlier(g, start, i, current) \/ start[i] = current
      BY DEF Periods
    <2>. QED  BY <1>1, <2>2, <2>3 DEF Earlier
  <1>. QED  BY <1>1, <1>2 DEF Periods

\* A granted request is counted in the present period.
Began(g, start, current) == [i \in 1 .. Len(g) + 1 |-> IF i <= Len(g) THEN start[i] ELSE current]

LEMMA PeriodsGrant ==
  ASSUME NEW g \in Seq(Grants), NEW c \in Counters, NEW t \in Nat, NEW start \in Starts(g),
         NEW current \in Int, Periods(g, c, t, start, current),
         NEW d \in Counters, d.count = c.count + 1, c.expires <= d.expires, t <= d.expires,
         NEW limit \in Nat, d.count <= limit
  PROVE  LET h == Append(g, [at |-> t, limit |-> limit])
         IN  /\ Began(g, start, current) \in Starts(h)
             /\ Periods(h, d, t, Began(g, start, current), current)
  <1>. DEFINE last == [at |-> t, limit |-> limit]
              h == Append(g, last)
              b == Began(g, start, current)
              n == Len(g) + 1
  <1>1. /\ c.count \in Nat /\ c.expires \in Nat /\ d.count \in Nat /\ d.expires \in Nat
        /\ Len(g) \in Nat /\ WindowSize \in Nat
    BY RateAssumption DEF Counters
  <1>2. last.at = t /\ last.limit = limit /\ last \in Grants
    BY DEF Grants
  <1>. HIDE DEF last
  <1>3. Len(h) = n /\ h[n] = last /\ \A i \in 1 .. Len(g) : h[i] = g[i]
    BY <1>2, AppendProperties
  <1>4. b \in Starts(h) /\ b[n] = current /\ \A i \in 1 .. Len(g) : b[i] = start[i]
    BY <1>1, <1>3 DEF Began, Starts
  <1>5. current <= t /\ current + WindowSize <= c.expires
    BY DEF Periods
  <1>6. ASSUME NEW i \in 1 .. Len(g)
        PROVE  /\ g[i].at \in Nat /\ start[i] \in Int
               /\ start[i] <= g[i].at /\ g[i].at <= t /\ g[i].at <= c.expires
               /\ \/ Earlier(g, start, i, current)
                  \/ start[i] = current /\ Len(g) - i + 1 <= c.count
    <2>1. g[i] \in Grants
      OBVIOUS
    <2>. QED  BY <2>1 DEF Grants, Starts, Periods
  <1>7. \A i, j \in 1 .. Len(g) : i <= j =>
          /\ g[i].at <= g[j].at
          /\ Earlier(g, start, i, start[j]) \/ (start[i] = start[j] /\ j - i + 1 <= g[j].limit)
    BY DEF Periods
  <1>. HIDE DEF h, b
  <1>8. \A i \in 1 .. Len(g) : \A s : Earlier(g, start, i, s) <=> Earlier(h, b, i, s)
    BY <1>3, <1>4 DEF Earlier
  <1>9. h[n].at = t /\ h[n].limit = limit /\ n \in 1 .. n
    BY <1>1, <1>2, <1>3
  <1>. HIDE DEF n
  <1>10. n = Len(g) + 1
    BY DEF n
  <1>11. ASSUME NEW i \in 1 .. n
         PROVE  /\ b[i] <= h[i].at /\ h[i].at <= t /\ h[i].at <= d.expires
                /\ Earlier(h, b, i, current) \/ (b[i] = current /\ n - i + 1 <= d.count)
    <2>1. CASE i \in 1 .. Len(g)
      <3>1. h[i] = g[i] /\ b[i] = start[i]
        BY <1>3, <1>4, <2>1
      <3>2. Earlier(g, start, i, current) => Earlier(h, b, i, current)
        BY <1>8, <2>1
      <3>3. Len(g) - i + 1 <= c.count => n - i + 1 <= d.count
        BY <1>1, <1>10, <2>1
      <3>. QED  BY <1>1, <1>6, <2>1, <3>1, <3>2, <3>3
    <2>2. CASE i = n
      BY <1>1, <1>4, <1>5, <1>9, <1>10, <2>2
    <2>. QED  BY <1>1, <1>10, <2>1, <2>2
  <1>12. ASSUME NEW i \in 1 .. n, NEW j \in 1 .. n, i <= j
         PROVE  /\ h[i].at <= h[j].at
                /\ Earlier(h, b, i, b[j]) \/ (b[i] = b[j] /\ j - i + 1 <= h[j].limit)
    <2>1. CASE j \in 1 .. Len(g)
      <3>1. i \in 1 .. Len(g)
        BY <1>1, <1>12, <2>1
      <3>2. h[i] = g[i] /\ b[i] = start[i] /\ h[j] = g[j] /\ b[j] = start[j]
        BY <1>3, <1>4, <2>1, <3>1
      <3>. QED  BY <1>7, <1>8, <1>12, <2>1, <3>1, <3>2
    <2>2. CASE j = n
      <3>1. h[i].at <= h[j].at
        BY <1>9, <1>11, <2>2
      <3>2. b[j] = current /\ h[j].limit = limit
        BY <1>4, <1>9, <2>2
      <3>3. n - i + 1 <= d.count => j - i + 1 <= limit
        BY <1>1, <1>10, <1>12, <2>2
      <3>. QED  BY <1>11, <3>1, <3>2, <3>3
    <2>. QED  BY <1>1, <1>10, <2>1, <2>2
  <1>13. current <= t /\ current + WindowSize <= d.expires
    BY <1>1, <1>5
  <1>14. Periods(h, d, t, b, current)
    BY <1>3, <1>11, <1>12, <1>13 DEF Periods
  <1>. QED  BY <1>4, <1>14 DEF h, b, last

\* The highest limit among some of the grants.
Highest(g, S) == Max({0} \cup {g[i].limit : i \in S})

LEMMA HighestLimit ==
  ASSUME NEW g \in Seq(Grants), NEW S, S \subseteq DOMAIN g
  PROVE  Highest(g, S) \in Nat /\ \A i \in S : g[i].limit <= Highest(g, S)
  <1>. DEFINE T == {0} \cup {g[i].limit : i \in S}
              limit == [i \in 1 .. Len(g) |-> g[i].limit]
  <1>1. \A i \in 1 .. Len(g) : g[i].limit \in Nat
    <2>. SUFFICES ASSUME NEW i \in 1 .. Len(g)  PROVE g[i].limit \in Nat
      OBVIOUS
    <2>1. g[i] \in Grants
      OBVIOUS
    <2>. QED  BY <2>1 DEF Grants
  <1>2. Len(g) \in Nat /\ \A i \in 1 .. Len(g) : limit[i] \in Nat
    BY <1>1
  <1>3. PICK b \in Nat : \A i \in 1 .. Len(g) : limit[i] <= b
    <2>. HIDE DEF limit
    <2>. QED  BY <1>2, Bounded
  <1>4. \A i \in 1 .. Len(g) : g[i].limit \in 0 .. b
    BY <1>1, <1>3
  <1>5. T \subseteq 0 .. b /\ T # {}
    BY <1>4
  <1>6. Max(T) \in T /\ \A y \in T : y <= Max(T)
    <2>. HIDE DEF T
    <2>. QED  BY <1>5, MaxOf
  <1>7. Highest(g, S) = Max(T)
    BY DEF Highest
  <1>8. Max(T) \in 0 .. b
    BY <1>5, <1>6
  <1>9. \A i \in S : g[i].limit \in T
    OBVIOUS
  <1>. HIDE DEF T
  <1>. QED  BY <1>6, <1>7, <1>8, <1>9

\* Grants that end at the i-th, of which there are at most a limit.
LEMMA EndingAt ==
  ASSUME NEW e \in Nat, NEW n \in Nat, NEW S, \A i \in S : i \in Nat /\ i <= e /\ e - i + 1 <= n
  PROVE  IsFiniteSet(S) /\ Cardinality(S) \in Nat /\ Cardinality(S) <= n
  <1>. DEFINE a == e - n + 1
  <1>1. a \in Int /\ e \in Int /\ \A i \in S : i \in a .. e
    OBVIOUS
  <1>2. (IF a > e THEN 0 ELSE e - a + 1) <= n
    OBVIOUS
  <1>. HIDE DEF a
  <1>3. /\ IsFiniteSet(a .. e)
        /\ Cardinality(a .. e) = IF a > e THEN 0 ELSE e - a + 1
    BY <1>1, FS_Interval, Zenon
  <1>4. Cardinality(a .. e) <= n
    BY <1>1, <1>2, <1>3
  <1>5. S \subseteq a .. e
    BY <1>1
  <1>6. IsFiniteSet(S) /\ Cardinality(S) <= Cardinality(a .. e)
    BY <1>3, <1>5, FS_Subset
  <1>7. Cardinality(S) \in Nat /\ Cardinality(a .. e) \in Nat
    BY <1>3, <1>6, FS_CardinalityType
  <1>. QED  BY <1>4, <1>6, <1>7

\* A window's length meets at most two periods: that of the last grant, and one
\* that ended since the window began.
LEMMA PeriodsFit ==
  ASSUME NEW g \in Seq(Grants), g # <<>>, NEW c, NEW t, NEW start \in Starts(g),
         NEW current, Periods(g, c, t, start, current)
  PROVE  LET S == {i \in DOMAIN g : g[i].at > g[Len(g)].at - WindowSize}
         IN  Cardinality(S) <= 2 * Max({0} \cup {g[i].limit : i \in S})
  <1>. DEFINE S == {i \in DOMAIN g : g[i].at > g[Len(g)].at - WindowSize}
              L == Len(g)
              A == {i \in S : start[i] = start[L]}
              B == {i \in S : start[i] # start[L]}
              M == Highest(g, S)
  <1>1. L \in Nat /\ L \in 1 .. L /\ DOMAIN g = 1 .. L /\ WindowSize \in Nat
    BY RateAssumption
  <1>2. ASSUME NEW i \in 1 .. L
        PROVE  g[i].at \in Nat /\ g[i].limit \in Nat /\ start[i] \in Int /\ start[i] <= g[i].at
    <2>1. g[i] \in Grants
      BY <1>2
    <2>. QED  BY <1>2, <2>1 DEF Grants, Starts, Periods
  <1>3. \A i, j \in 1 .. L : i <= j =>
          /\ g[i].at <= g[j].at
          /\ \/ g[i].at < start[j] /\ start[i] + WindowSize < start[j]
             \/ start[i] = start[j] /\ j - i + 1 <= g[j].limit
    BY DEF Periods, Earlier
  <1>4. M \in Nat /\ \A i \in S : g[i].limit <= M
    BY HighestLimit
  <1>5. \A i \in S : i \in 1 .. L /\ g[i].at > g[L].at - WindowSize
    BY <1>1
  <1>6. A \cup B = S /\ A \cap B = {} /\ S \subseteq 1 .. L
    BY <1>1
  <1>. HIDE DEF S, M, L
  <1>7. IsFiniteSet(A) /\ Cardinality(A) \in Nat /\ Cardinality(A) <= M
    <2>1. ASSUME NEW i \in A  PROVE i \in Nat /\ i <= L /\ L - i + 1 <= g[L].limit /\ g[L].limit <= M
      <3>1. i \in 1 .. L /\ start[i] = start[L] /\ g[i].at > g[L].at - WindowSize
        BY <1>5, <2>1
      <3>2. i <= L /\ start[i] \in Int /\ g[i].at \in Nat /\ g[L].at \in Nat
        BY <1>1, <1>2, <3>1
      <3>3. L - i + 1 <= g[L].limit /\ g[i].at <= g[L].at
        BY <1>1, <1>3, <3>1, <3>2
      <3>4. L \in S
        BY <1>1, <3>1, <3>2, <3>3 DEF S, L
      <3>. QED  BY <1>4, <3>1, <3>2, <3>3, <3>4
    <2>2. \A i \in A : i \in Nat /\ i <= L /\ L - i + 1 <= M
      <3>1. L \in Nat /\ M \in Nat /\ g[L].limit \in Nat
        BY <1>1, <1>2, <1>4
      <3>. HIDE DEF A
      <3>. QED  BY <2>1, <3>1
    <2>. HIDE DEF A
    <2>. QED  BY <1>1, <1>4, <2>2, EndingAt
  <1>8. IsFiniteSet(B) /\ Cardinality(B) \in Nat /\ Cardinality(B) <= M
    <2>1. CASE B = {}
      <3>. HIDE DEF B
      <3>1. IsFiniteSet({}) /\ Cardinality({}) = 0
        BY FS_EmptySet
      <3>. QED  BY <1>4, <2>1, <3>1
    <2>2. CASE B # {}
      <3>. DEFINE e == Max(B)
      <3>1. B \subseteq 0 .. L /\ B \subseteq S
        <4>1. B \subseteq S
          OBVIOUS
        <4>2. \A i \in S : i \in 0 .. L
          BY <1>1, <1>5
        <4>. QED  BY <4>1, <4>2
      <3>2. e \in B /\ \A i \in B : i <= e
        <4>. HIDE DEF B
        <4>. QED  BY <1>1, <2>2, <3>1, MaxOf
      <3>3. e \in 1 .. L /\ g[e].limit \in Nat /\ g[e].limit <= M /\ start[e] # start[L]
        BY <1>2, <1>4, <1>6, <3>1, <3>2
      <3>. HIDE DEF e
      <3>4. start[e] + WindowSize < start[L]
        BY <1>1, <1>3, <3>3
      <3>5. ASSUME NEW i \in B  PROVE i \in Nat /\ i <= e /\ e - i + 1 <= g[e].limit
        <4>1. i \in 1 .. L /\ g[i].at > g[L].at - WindowSize /\ i <= e
          BY <1>5, <3>2, <3>5
        <4>2. /\ g[i].at \in Nat /\ g[L].at \in Nat /\ start[i] \in Int /\ start[e] \in Int
              /\ start[L] \in Int /\ start[L] <= g[L].at
          BY <1>1, <1>2, <3>3, <4>1
        <4>3. ~ (g[i].at < start[e])
          BY <1>1, <3>4, <4>1, <4>2
        <4>. QED  BY <1>3, <3>3, <4>1, <4>3
      <3>6. \A i \in B : i \in Nat /\ i <= e /\ e - i + 1 <= M
        <4>1. e \in Nat
          BY <3>3
        <4>. HIDE DEF B
        <4>. QED  BY <1>4, <3>3, <3>5, <4>1
      <3>. HIDE DEF B
      <3>7. e \in Nat
        BY <3>3
      <3>. QED  BY <1>4, <3>6, <3>7, EndingAt
    <2>. QED  BY <2>1, <2>2
  <1>. HIDE DEF A, B
  <1>9. Cardinality(A \cup B) = Cardinality(A) + Cardinality(B)
    <2>1. Cardinality(A \cup B) = Cardinality(A) + Cardinality(B) - Cardinality(A \cap B)
      BY <1>7, <1>8, FS_Union
    <2>2. Cardinality(A \cap B) = 0
      BY <1>6, FS_EmptySet
    <2>. QED  BY <1>7, <1>8, <2>1, <2>2
  <1>10. Cardinality(S) = Cardinality(A) + Cardinality(B)
    BY <1>6, <1>9, Zenon
  <1>11. Cardinality(S) <= 2 * M
    BY <1>4, <1>7, <1>8, <1>10
  <1>. QED  BY <1>11 DEF S, M, L, Highest

-----------------------------------------------------------------------------
(* The limits hold.                                                        *)

\* The last grant of a sliding window was within its limit, if Redis keeps enough.
Within(g) ==
  g # <<>> =>
    \/ Cardinality({i \in DOMAIN g : g[i].at > g[Len(g)].at - WindowSize}) <= g[Len(g)].limit
    \/ distributed /\ WindowKept <= g[Len(g)].limit

Slides(k) == Lined(windows[k], granted[k], now) /\ Within(granted[k])

HasPeriods(g, c, t) == \E start \in Starts(g), current \in Int : Periods(g, c, t, start, current)

GrantsInv ==
  /\ strategy = "sliding_window" => \A k \in Keys : Slides(k)
  /\ strategy = "fixed_window" => \A k \in Keys : HasPeriods(granted[k], counts[<<k, "fixed">>], now)

\* One judged check in a sliding window.
LEMMA SlidingGrants ==
  ASSUME NEW k \in Keys, StoreTypes, now \in Nat, NEW g \in Seq(Grants),
         Lined(windows[k], g, now), Within(g), NEW limit \in Nat,
         \A i \in 1 .. Len(windows[k]) : windows[k][i] <= now, NEW h,
         \/ h = g
         \/ Len(Enter(k)) <= limit /\ h = Append(g, [at |-> now, limit |-> limit])
  PROVE  Lined(Enter(k), h, now) /\ Within(h)
  <1>1. CASE h = g
    BY <1>1, LinedAfterRefusal
  <1>2. CASE Len(Enter(k)) <= limit /\ h = Append(g, [at |-> now, limit |-> limit])
    <2>. DEFINE last == [at |-> now, limit |-> limit]
    <2>1. h = Append(g, last) /\ last \in Grants
      BY <1>2 DEF Grants
    <2>2. Lined(Enter(k), h, now)
      BY <1>2, LinedAfterGrant
    <2>3. last.at = now /\ last.limit = limit
      OBVIOUS
    <2>. HIDE DEF last
    <2>4. h \in Seq(Grants) /\ h[Len(h)] = last
      BY <2>1, AppendProperties
    <2>5. Enter(k) \in Seq(Nat) /\ Len(Enter(k)) \in Nat
      BY EnterKeeps
    <2>. DEFINE S == {i \in DOMAIN h : h[i].at > now - WindowSize}
    <2>. DEFINE full == distributed /\ Len(Enter(k)) = WindowKept
    <2>6. ~ full => Cardinality(S) <= Len(Enter(k))
      BY <2>2, <2>4, <2>5, LinedFits
    <2>7. IsFiniteSet(S)
      <3>1. S \subseteq 1 .. Len(h) /\ Len(h) \in Nat /\ 1 \in Int /\ Len(h) \in Int
        BY <2>4
      <3>. HIDE DEF S
      <3>2. IsFiniteSet(1 .. Len(h))
        BY <3>1, FS_Interval, Zenon
      <3>. QED  BY <3>1, <3>2, FS_Subset
    <2>8. Cardinality(S) \in Nat
      BY <2>7, FS_CardinalityType
    <2>9. Cardinality(S) <= limit \/ (distributed /\ WindowKept <= limit)
      <3>. HIDE DEF S
      <3>1. CASE full
        BY <1>2, <3>1
      <3>2. CASE ~ full
        <4>1. Cardinality(S) <= Len(Enter(k))
          BY <2>6, <3>2, Zenon
        <4>2. Len(Enter(k)) <= limit
          BY <1>2
        <4>. DEFINE c == Cardinality(S)
                    n == Len(Enter(k))
        <4>3. c \in Nat /\ n \in Nat /\ c <= n /\ n <= limit
          BY <2>5, <2>8, <4>1, <4>2, Zenon
        <4>. HIDE DEF c, n
        <4>4. c <= limit
          BY <4>3
        <4>. QED  BY <4>4, Zenon DEF c
      <3>. QED  BY <3>1, <3>2
    <2>10. Within(h)
      BY <2>3, <2>4, <2>9 DEF Within
    <2>. QED  BY <2>2, <2>10
  <1>. QED  BY <1>1, <1>2

\* One judged check in a fixed window.
LEMMA FixedGrants ==
  ASSUME NEW g \in Seq(Grants), NEW c \in Counters, now \in Nat, HasPeriods(g, c, now),
         NEW limit \in Nat, NEW d \in Counters,
         d.count = IF c.expires < now THEN 1 ELSE c.count + 1,
         \/ d.expires = now + WindowSize /\ c.expires <= now + WindowSize
         \/ d.expires = c.expires /\ ~ (c.expires < now), NEW h,
         h = IF d.count <= limit THEN Append(g, [at |-> now, limit |-> limit]) ELSE g
  PROVE  HasPeriods(h, d, now)
  <1>. DEFINE e == IF c.expires < now THEN [count |-> 0, expires |-> now + WindowSize] ELSE c
  <1>1. PICK start \in Starts(g), current \in Int : Periods(g, c, now, start, current)
    BY DEF HasPeriods
  <1>2. /\ c.expires \in Nat /\ c.count \in Nat /\ WindowSize \in Nat
        /\ d.expires \in Nat /\ d.count \in Nat
    BY RateAssumption DEF Counters
  <1>3. e \in Counters /\ d.count = e.count + 1 /\ now <= d.expires
        /\ e.count \in Nat /\ e.expires \in Nat
    BY <1>2 DEF Counters
  <1>4. e.expires <= d.expires
    BY <1>2
  <1>5. PICK now1 \in Int : Periods(g, e, now, start, now1)
    <2>1. CASE c.expires < now
      <3>1. e.expires = now + WindowSize
        BY <2>1
      <3>. HIDE DEF e
      <3>2. Periods(g, e, now, start, now)
        BY <1>1, <1>3, <2>1, <3>1, PeriodsRestart
      <3>3. now \in Int
        OBVIOUS
      <3>. QED  BY <3>2, <3>3
    <2>2. CASE ~ (c.expires < now)
      BY <1>1, <2>2
    <2>. QED  BY <2>1, <2>2
  <1>. HIDE DEF e
  <1>6. CASE d.count <= limit
    <2>. DEFINE a == Append(g, [at |-> now, limit |-> limit])
                b == Began(g, start, now1)
    <2>1. b \in Starts(a) /\ Periods(a, d, now, b, now1)
      BY <1>1, <1>3, <1>4, <1>5, <1>6, PeriodsGrant
    <2>. HIDE DEF a, b
    <2>2. HasPeriods(a, d, now)
      BY <1>5, <2>1 DEF HasPeriods
    <2>. QED  BY <1>6, <2>2 DEF a
  <1>7. CASE ~ (d.count <= limit)
    <2>1. Periods(g, d, now, start, now1)
      BY <1>1, <1>3, <1>4, <1>5, PeriodsLast
    <2>2. HasPeriods(g, d, now)
      BY <1>1, <1>5, <2>1 DEF HasPeriods
    <2>. QED  BY <1>7, <2>2
  <1>. QED  BY <1>6, <1>7

\* Time passes.
LEMMA LinedLater ==
  ASSUME NEW w, NEW g \in Seq(Grants), NEW t \in Nat, Lined(w, g, t), NEW u \in Nat, t <= u
  PROVE  Lined(w, g, u)
  <1>1. ASSUME NEW i \in 1 .. Len(g)
        PROVE  g[i].at <= u /\ (g[i].at > u - WindowSize => Stands(w, g, i, 0) \/ Crowded(w, g[i].at))
    <2>1. g[i] \in Grants
      OBVIOUS
    <2>2. g[i].at \in Nat /\ WindowSize \in Nat
      BY <2>1, RateAssumption DEF Grants
    <2>3. g[i].at <= t /\ (g[i].at > t - WindowSize => Stands(w, g, i, 0) \/ Crowded(w, g[i].at))
      BY DEF Lined
    <2>. QED  BY <2>2, <2>3
  <1>. QED  BY <1>1 DEF Lined

LEMMA GrantsRest ==
  ASSUME RateTypes, now \in Nat, now' \in Nat, now <= now', GrantsInv,
         UNCHANGED <<strategy, distributed, counts, windows, granted>>
  PROVE  GrantsInv'
  <1>1. /\ \A k \in Keys : granted[k] \in Seq(Grants)
        /\ \A k \in Keys : counts[<<k, "fixed">>] \in Counters
    BY DEF RateTypes, HistoryTypes, StoreTypes, Kinds
  <1>2. ASSUME NEW k \in Keys, strategy = "sliding_window"  PROVE Slides(k)'
    <2>1. Lined(windows[k], granted[k], now) /\ Within(granted[k])
      BY <1>2 DEF GrantsInv, Slides
    <2>2. Lined(windows[k], granted[k], now')
      BY <1>1, <2>1, LinedLater
    <2>. QED  BY <2>1, <2>2 DEF Slides, Lined, Stands, Crowded, Within
  <1>3. ASSUME NEW k \in Keys, strategy = "fixed_window"
        PROVE  HasPeriods(granted[k], counts[<<k, "fixed">>], now')
    <2>. DEFINE g == granted[k]
                c == counts[<<k, "fixed">>]
    <2>1. PICK start \in Starts(g), current \in Int : Periods(g, c, now, start, current)
      BY <1>3 DEF GrantsInv, HasPeriods
    <2>2. g \in Seq(Grants) /\ c \in Counters /\ c.count \in Nat /\ c.expires \in Nat
      BY <1>1 DEF Counters
    <2>. HIDE DEF g, c
    <2>3. Periods(g, c, now', start, current)
      BY <2>1, <2>2, PeriodsLast
    <2>4. HasPeriods(g, c, now')
      BY <2>1, <2>3 DEF HasPeriods
    <2>. QED  BY <2>4 DEF g, c
  <1>. QED  BY <1>2, <1>3 DEF GrantsInv

LEMMA GrantsCheck ==
  ASSUME RateTypes, now \in Nat, now' = now, NEW k \in Keys, CheckLimit(k), QuietInv, GrantsInv
  PROVE  GrantsInv'
  <1>1. CASE CachedCheck(k)
    <2>1. UNCHANGED <<strategy, distributed, counts, windows, granted>>
      BY <1>1 DEF CachedCheck
    <2>. QED  BY <2>1, GrantsRest
  <1>2. CASE CountedCheck(k)
    <2>1. PICK up \in BOOLEAN :
            /\ Judge(k, up)
            /\ granted' = IF rate'.allowed /\ up /\ rate' # Permissive
                          THEN [granted EXCEPT ![k] = Append(granted[k], [at |-> now, limit |-> rate'.limit])]
                          ELSE granted
      BY <1>2, CountedCheckFacts
    <2>2. strategy' = strategy /\ distributed' = distributed /\ rate' \in Answers /\ StoreTypes'
      BY <1>2, CountedCheckFacts
    <2>3. granted \in [Keys -> Seq(Grants)] /\ granted[k] \in Seq(Grants)
      BY DEF RateTypes, HistoryTypes
    <2>4. \A x \in Keys : x # k => granted'[x] = granted[x]
      BY <2>1, <2>3
    <2>5. granted'[k] = IF rate'.allowed /\ up /\ rate' # Permissive
                        THEN Append(granted[k], [at |-> now, limit |-> rate'.limit])
                        ELSE granted[k]
      BY <2>1, <2>3
    <2>6. CASE strategy = "sliding_window"
      <3>. DEFINE limit == Effective(k[2])
      <3>1. /\ \A x \in Keys : x # k => windows'[x] = windows[x]
            /\ windows'[k] = IF up THEN Enter(k) ELSE windows[k]
            /\ rate'.limit = limit /\ limit \in Nat
            /\ rate'.allowed <=> (up => Len(Enter(k)) <= limit)
        BY <2>1, <2>6, SlidingJudged
      <3>. HIDE DEF limit
      <3>2. \A x \in Keys : Lined(windows[x], granted[x], now) /\ Within(granted[x])
        BY <2>6 DEF GrantsInv, Slides
      <3>3. \A i \in 1 .. Len(windows[k]) : windows[k][i] <= now
        <4>1. windows[k] \in Seq(Nat) /\ asked[k] \in Int
          BY DEF RateTypes, StoreTypes, HistoryTypes
        <4>2. asked[k] <= now /\ \A i \in 1 .. Len(windows[k]) : windows[k][i] <= asked[k]
          BY DEF QuietInv
        <4>3. ASSUME NEW i \in 1 .. Len(windows[k])  PROVE windows[k][i] <= now
          <5>1. windows[k][i] \in Nat /\ windows[k][i] <= asked[k]
            BY <4>1, <4>2
          <5>. QED  BY <4>1, <4>2, <5>1
        <4>. QED  BY <4>3
      <3>4. Lined(windows'[k], granted'[k], now) /\ Within(granted'[k])
        <4>1. CASE up
          <5>1. \/ granted'[k] = granted[k]
                \/ /\ Len(Enter(k)) <= limit
                   /\ granted'[k] = Append(granted[k], [at |-> now, limit |-> limit])
            BY <2>5, <3>1, <4>1
          <5>2. StoreTypes
            BY DEF RateTypes
          <5>3. Lined(Enter(k), granted'[k], now) /\ Within(granted'[k])
            BY <2>3, <3>1, <3>2, <3>3, <5>1, <5>2, SlidingGrants
          <5>. QED  BY <3>1, <4>1, <5>3
        <4>2. CASE ~ up
          BY <2>5, <3>1, <3>2, <4>2
        <4>. QED  BY <4>1, <4>2
      <3>5. ASSUME NEW x \in Keys  PROVE Slides(x)'
        <4>1. Lined(windows'[x], granted'[x], now) /\ Within(granted'[x])
          BY <2>4, <3>1, <3>2, <3>4
        <4>. QED  BY <2>2, <4>1 DEF Slides, Lined, Stands, Crowded, Within
      <3>. QED  BY <2>2, <2>6, <3>5 DEF GrantsInv
    <2>7. CASE strategy = "fixed_window"
      <3>. DEFINE limit == Effective(k[2])
                  c == counts[<<k, "fixed">>]
                  d == counts'[<<k, "fixed">>]
                  n == Count(<<k, "fixed">>) + 1
      <3>1. \A x \in Keys : x # k => counts'[<<x, "fixed">>] = counts[<<x, "fixed">>]
        BY <2>1, <2>7, FixedJudged
      <3>2. /\ d.count = IF up THEN n ELSE c.count
            /\ d.expires = IF up /\ (distributed \/ c.expires < now)
                           THEN now + WindowSize ELSE c.expires
            /\ rate'.limit = limit /\ limit \in Nat
            /\ rate'.allowed <=> (up => n <= limit)
            /\ rate'.allowed /\ up => rate'.remaining = limit - n
        BY <2>1, <2>7, FixedJudged
      <3>3. n = IF c.expires < now THEN 1 ELSE c.count + 1
        BY DEF Count
      <3>4. /\ c \in Counters /\ d \in Counters /\ c.expires \in Nat /\ WindowSize \in Nat
            /\ asked[k] \in Int /\ n \in Nat /\ n >= 1
        BY <2>2, <3>3, RateAssumption DEF RateTypes, StoreTypes, HistoryTypes, Kinds, Counters
      <3>5. c.expires <= asked[k] + WindowSize /\ asked[k] <= now
        BY DEF QuietInv
      <3>6. HasPeriods(granted[k], c, now)
        BY <2>7 DEF GrantsInv
      <3>. HIDE DEF limit, c, d, n
      <3>7. HasPeriods(granted'[k], d, now)
        <4>1. CASE up
          <5>1. d.count = IF c.expires < now THEN 1 ELSE c.count + 1
            BY <3>2, <3>3, <4>1
          <5>2. \/ d.expires = now + WindowSize /\ c.expires <= now + WindowSize
                \/ d.expires = c.expires /\ ~ (c.expires < now)
            BY <3>2, <3>4, <3>5, <4>1
          <5>3. n <= limit => rate' # Permissive
            <6>1. Permissive.remaining = 100 /\ Permissive.limit = 100
              BY DEF Permissive, Answer
            <6>2. n <= limit => rate'.remaining = limit - n /\ rate'.limit = limit
              BY <3>2, <4>1
            <6>. QED  BY <3>2, <3>4, <6>1, <6>2
          <5>4. granted'[k] = IF d.count <= limit
                              THEN Append(granted[k], [at |-> now, limit |-> limit])
                              ELSE granted[k]
            BY <2>5, <3>2, <4>1, <5>3
          <5>. QED  BY <2>3, <3>2, <3>4, <3>6, <5>1, <5>2, <5>4, FixedGrants
        <4>2. CASE ~ up
          <5>1. granted'[k] = granted[k] /\ d.count = c.count /\ d.expires = c.expires
            BY <2>5, <3>2, <4>2
          <5>2. d = c
            BY <3>4, <5>1 DEF Counters
          <5>. QED  BY <3>6, <5>1, <5>2
        <4>. QED  BY <4>1, <4>2
      <3>8. ASSUME NEW x \in Keys
            PROVE  HasPeriods(granted'[x], counts'[<<x, "fixed">>], now)
        <4>1. CASE x = k
          BY <3>7, <4>1 DEF d
        <4>2. CASE x # k
          <5>1. HasPeriods(granted[x], counts[<<x, "fixed">>], now)
            BY <2>7 DEF GrantsInv
          <5>. QED  BY <2>4, <3>1, <4>2, <5>1
        <4>. QED  BY <4>1, <4>2
      <3>. QED  BY <2>2, <2>7, <3>8 DEF GrantsInv
    <2>8. CASE strategy = "token_bucket"
      BY <2>2, <2>8 DEF GrantsInv
    <2>. QED  BY <2>6, <2>7, <2>8 DEF RateTypes, Strategies
  <1>. QED  BY <1>1, <1>2 DEF CheckLimit

LEMMA GrantsInvInit == Init => GrantsInv
  <1>. SUFFICES ASSUME Init  PROVE GrantsInv
    OBVIOUS
  <1>1. /\ now = 1 /\ WindowSize \in Nat
        /\ granted = [k \in Keys |-> <<>>] /\ windows = [k \in Keys |-> <<>>]
        /\ counts = [k \in Keys \X Kinds |-> Zero]
    BY RateAssumption DEF Init, StartClock, RateInit, Kinds
  <1>2. ASSUME NEW k \in Keys  PROVE Slides(k)
    <2>1. windows[k] = <<>> /\ granted[k] = <<>>
      BY <1>1
    <2>. QED  BY <2>1 DEF Slides, Lined, Within
  <1>3. ASSUME NEW k \in Keys
        PROVE  HasPeriods(granted[k], counts[<<k, "fixed">>], now)
    <2>. DEFINE c == counts[<<k, "fixed">>]
                current == 0 - WindowSize
                start == [i \in 1 .. 0 |-> 0]
    <2>1. granted[k] = <<>> /\ Len(granted[k]) = 0 /\ c.expires = 0
      BY <1>1 DEF Kinds, Zero
    <2>2. current \in Int /\ current <= now /\ current + WindowSize <= c.expires
      BY <1>1, <2>1
    <2>. HIDE DEF c, current
    <2>3. start \in Starts(granted[k])
      BY <2>1 DEF Starts
    <2>. HIDE DEF start
    <2>4. Periods(granted[k], c, now, start, current)
      BY <2>1, <2>2 DEF Periods
    <2>5. HasPeriods(granted[k], c, now)
      BY <2>2, <2>3, <2>4 DEF HasPeriods
    <2>. QED  BY <2>5 DEF c
  <1>. QED  BY <1>2, <1>3 DEF GrantsInv

LEMMA GrantsInvNext == AllTypes /\ QuietInv /\ GrantsInv /\ [Next]_vars => GrantsInv'
  <1>. SUFFICES ASSUME AllTypes, QuietInv, GrantsInv, [Next]_vars  PROVE GrantsInv'
    OBVIOUS
  <1>1. /\ RateTypes /\ now \in Nat /\ now' \in Nat /\ now <= now'
        /\ now' = now \/ now' = now + 1
    BY ClockTypesNext DEF AllTypes, ClockTypes
  <1>2. CASE UNCHANGED <<strategy, distributed, counts, windows, granted>>
    BY <1>1, <1>2, GrantsRest
  <1>3. CASE now' = now /\ \E k \in Keys : CheckLimit(k)
    BY <1>1, <1>3, GrantsCheck
  <1>. QED  BY <1>2, <1>3, RateSteps DEF rateVars, ConfigureLimit, AdjustLimitForLoad, ResetStats

LEMMA GrantsInvFits == AllTypes /\ GrantsInv => GrantsStayWithinLimit
  <1>. SUFFICES ASSUME AllTypes, GrantsInv, NEW k \in Keys, granted[k] # <<>>
                PROVE  LET g == granted[k]
                           last == g[Len(g)]
                           inWindow == {i \in DOMAIN g : g[i].at > last.at - WindowSize}
                       IN  /\ strategy = "sliding_window" =>
                                \/ Cardinality(inWindow) <= last.limit
                                \/ distributed /\ WindowKept <= last.limit
                           /\ strategy = "fixed_window" =>
                                Cardinality(inWindow) <= 2 * Max({0} \cup {g[i].limit : i \in inWindow})
    BY DEF GrantsStayWithinLimit
  <1>. DEFINE g == granted[k]
              S == {i \in DOMAIN g : g[i].at > g[Len(g)].at - WindowSize}
  <1>1. strategy = "sliding_window" =>
          Cardinality(S) <= g[Len(g)].limit \/ (distributed /\ WindowKept <= g[Len(g)].limit)
    <2>. SUFFICES ASSUME strategy = "sliding_window"
                  PROVE  \/ Cardinality(S) <= g[Len(g)].limit
                         \/ distributed /\ WindowKept <= g[Len(g)].limit
      BY Zenon
    <2>1. Within(granted[k])
      BY DEF GrantsInv, Slides
    <2>. QED  BY <2>1, Zenon DEF Within
  <1>2. ASSUME strategy = "fixed_window"
        PROVE  Cardinality(S) <= 2 * Max({0} \cup {g[i].limit : i \in S})
    <2>1. PICK start \in Starts(g), current \in Int :
                 Periods(g, counts[<<k, "fixed">>], now, start, current)
      BY <1>2 DEF GrantsInv, HasPeriods
    <2>2. g \in Seq(Grants) /\ g # <<>>
      BY DEF AllTypes, RateTypes, HistoryTypes
    <2>. HIDE DEF g
    <2>. QED  BY <2>1, <2>2, PeriodsFit
  <1>. QED  BY <1>1, <1>2

LEMMA CacheInvInit == Init => CacheInv
  BY DEF Init, RateInit, CacheInv

\* Whatever is asked, configured and adjusted in which order, a client's counted
\* grants stay within the limit of its strategy, but for a sliding window in Redis
\* with a limit beyond what is kept, and an answer repeated from the cache is one
\* the counter would give.
THEOREM CountedGrantsAlwaysFit == Spec => []CountedGrantsFit
  <1>. DEFINE Inv == AllTypes /\ QuietInv /\ CacheInv /\ GrantsInv
  <1>1. Init => Inv
    BY AllTypesInit, QuietInvInit, CacheInvInit, GrantsInvInit
  <1>2. Inv /\ [Next]_vars => Inv'
    BY AllTypesNext, QuietStep, CacheInvNext, GrantsInvNext
  <1>3. Inv => CountedGrantsFit
    BY CacheInvFits, GrantsInvFits DEF CountedGrantsFit
  <1>. QED  BY <1>1, <1>2, <1>3, PTL DEF Spec
=============================================================================
