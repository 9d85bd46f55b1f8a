-------------------------- MODULE WebhookValidator --------------------------
(***************************************************************************)
(* features/security/webhook_validator.py: signed webhook calls. A call    *)
(* that names its time is accepted once: its signature and time are        *)
(* remembered for as long as the time in it can still be acceptable, in a  *)
(* store of limited size that a new secret empties. A call that names no   *)
(* time is not remembered. A signature is the term that was signed.        *)
(***************************************************************************)
EXTENDS SecurityClock, Sequences, FiniteSets, FiniteSetsExt, Functions

CONSTANTS
  Bodies,          \* payloads of webhook calls
  Secrets,         \* webhook secrets
  NoSecret,
  Tolerances,      \* tolerance_seconds (300)
  MaxCached,       \* _max_cached_signatures (1000)
  MaxRotations     \* rotations kept in the log (10)
ASSUME HookAssumption ==
  Tolerances \subseteq Nat /\ MaxCached \in Nat /\ MaxRotations \in Nat

VARIABLES
  secret,
  tolerance,
  processed,       \* signature and time -> when it was accepted
  rotations,       \* length of the key rotation log
  hookStats,
  hook,            \* what the last validation answered
  passes,          \* history: signature and time -> when it was accepted under
                   \* the present secret, each time
  pushedOut,       \* history: of these, forgotten because the store was full
  changedSince     \* history: the tolerance changed under the present secret

hookVars == <<secret, tolerance, processed, rotations, hookStats, hook,
              passes, pushedOut, changedSince>>

NoHookStats == [total |-> 0, good |-> 0, bad |-> 0, replays |-> 0, expired |-> 0,
                signature |-> 0, large |-> 0]

HookInit ==
  /\ secret = NoSecret
  /\ tolerance \in Tolerances
  /\ processed = <<>>
  /\ rotations = 0
  /\ hookStats = NoHookStats
  /\ hook = "none"
  /\ passes = <<>> /\ pushedOut = {} /\ changedSince = FALSE

\* create_signature: the HMAC of the time, in whole seconds, and the payload.
CreateSignature(body, key, at) == [body |-> body, secret |-> key, at |-> at]

\* A call as it arrives. time = 0 is a header without a time, which is then
\* signed for the second in which it is checked; a header may be unreadable, and
\* a payload too large or no JSON text.
Calls(times) ==
  [body : Bodies, sig : [body : Bodies, secret : Secrets, at : times], time : times \cup {0},
   shape : {"bytes", "json", "not_json", "large", "bad_header", "error"}]

\* configure_webhook_secret builds a new validator.
ConfigureWebhookSecret(s) ==
  /\ secret' = s
  /\ tolerance' \in Tolerances
  /\ processed' = <<>>
  /\ rotations' = 0
  /\ hookStats' = NoHookStats
  /\ hook' = "none"
  /\ passes' = <<>> /\ pushedOut' = {} /\ changedSince' = FALSE

\* _cleanup_old_signatures, given the store with the new signature in it. The
\* order of signatures accepted at one moment is left open.
HalfCutoff == now - tolerance   \* seeded fault
Cutoff == now - 2 * tolerance
StoresAfter(p) ==
  IF Cardinality(DOMAIN p) <= MaxCached THEN {p}
  ELSE LET young == Restrict(p, {k \in DOMAIN p : p[k] >= Cutoff})
       IN  IF Cardinality(DOMAIN young) <= MaxCached THEN {young}
           ELSE {Restrict(young, S) : S \in
                   {T \in SUBSET DOMAIN young :
                      /\ Cardinality(T) = MaxCached
                      /\ \A x \in T, y \in DOMAIN young \ T : young[x] >= young[y]}}

Key(c) == <<c.sig, c.time>>
Distance(a, b) == IF a < b THEN b - a ELSE a - b

\* The checks of validate_signature, in their order.
Outcome(c) ==
  CASE c.shape = "error" -> "error"
    [] c.shape = "large" -> "large"
    [] c.shape = "bad_header" -> "bad_header"
    [] c.time # 0 /\ Distance(now, c.time) > tolerance -> "expired"
    [] c.time # 0 /\ Key(c) \in DOMAIN processed -> "replay"
    [] c.sig # CreateSignature(c.body, secret, IF c.time # 0 THEN c.time ELSE now) -> "mismatch"
    [] OTHER -> "valid"

Tally(s, o) ==
  [s EXCEPT !.total = @ + 1,
            !.good = IF o = "valid" THEN @ + 1 ELSE @,
            !.bad = IF o = "valid" THEN @ ELSE @ + 1,
            !.replays = IF o = "replay" THEN @ + 1 ELSE @,
            !.expired = IF o = "expired" THEN @ + 1 ELSE @,
            !.signature = IF o \in {"bad_header", "mismatch"} THEN @ + 1 ELSE @,
            !.large = IF o = "large" THEN @ + 1 ELSE @]

PassedAgain(k) ==
  [x \in DOMAIN passes \cup {k} |->
     IF x # k THEN passes[x]
     ELSE Append(IF k \in DOMAIN passes THEN passes[k] ELSE <<>>, now)]

ValidateSignature(c) ==
  /\ hook' = Outcome(c)
  /\ hookStats' = Tally(hookStats, Outcome(c))
  /\ passes' = IF Outcome(c) = "valid" THEN PassedAgain(Key(c)) ELSE passes
  /\ IF Outcome(c) = "valid" /\ c.time # 0
     THEN LET p == [k \in DOMAIN processed \cup {Key(c)} |->
                      IF k = Key(c) THEN now ELSE processed[k]]
          IN  /\ processed' \in StoresAfter(p)
              /\ pushedOut' = pushedOut \cup {k \in DOMAIN p \ DOMAIN processed' : p[k] >= Cutoff}
     ELSE UNCHANGED <<processed, pushedOut>>
  /\ UNCHANGED <<secret, tolerance, rotations, changedSince>>

\* validate_json_webhook: text that is no JSON is refused and not counted.
ValidateJsonWebhook(c) ==
  IF c.shape = "not_json"
  THEN hook' = "not_json" /\ UNCHANGED <<secret, tolerance, processed, rotations, hookStats,
                                         passes, pushedOut, changedSince>>
  ELSE ValidateSignature(c)

\* update_secret: what was processed is forgotten with the old secret.
UpdateSecret(s) ==
  /\ secret # NoSecret
  /\ secret' = s
  /\ rotations' = Min({rotations + 1, MaxRotations})
  /\ processed' = <<>>
  /\ passes' = <<>> /\ pushedOut' = {} /\ changedSince' = FALSE
  /\ UNCHANGED <<tolerance, hookStats, hook>>

ConfigureTolerance(t) ==
  /\ secret # NoSecret
  /\ tolerance' = t
  /\ changedSince' = (changedSince \/ t # tolerance)
  /\ UNCHANGED <<secret, processed, rotations, hookStats, hook, passes, pushedOut>>
-----------------------------------------------------------------------------
\* What has to hold.

\* A signature is accepted twice under one secret only if the tolerance changed
\* in between, if the store was full of acceptable ones and dropped it, or if it
\* came without a time: then it is not remembered, and is accepted as often as it
\* is sent in the one second it was signed for, and never after
\* (webhook_validator.py:194-233). That the clean-up keeps the others long enough
\* rests on twice the tolerance, since a call may be signed for a moment that is
\* still to come (webhook_validator.py:269-293).
AcceptedOnce ==
  \A k \in DOMAIN passes :
    \/ Len(passes[k]) = 1
    \/ k \in pushedOut \/ changedSince
    \/ k[2] = 0 /\ \A i \in DOMAIN passes[k] : passes[k][i] = k[1].at
=============================================================================
