-------------------------- MODULE RequestValidator --------------------------
(***************************************************************************)
(* features/security/request_validator.py: which addresses, headers and    *)
(* contents are let through. The list of addresses is state; the checks of *)
(* headers and contents are functions of their arguments.                  *)
(***************************************************************************)
EXTENDS Naturals, Sequences, FiniteSets

CONSTANTS
  Addresses,    \* well-formed client addresses
  NotAddress,   \* a text that is no IPv4 address
  Networks      \* sets of addresses an entry with a slash stands for

VARIABLE whitelist   \* the IPWhitelist; on tells whether it was configured

NoWhitelist == [on |-> FALSE, ips |-> {}, networks |-> {}, blocked |-> {}]

ConfigureIpWhitelist ==
  /\ ~whitelist.on
  /\ whitelist' = [NoWhitelist EXCEPT !.on = TRUE]

AddAllowedIp(a) ==
  /\ whitelist.on
  /\ whitelist' = [whitelist EXCEPT !.ips = @ \cup {a}]

AddAllowedNetwork(n) ==
  /\ whitelist.on
  /\ whitelist' = [whitelist EXCEPT !.networks = @ \cup {n}]

AddBlockedIp(a) ==
  /\ whitelist.on
  /\ whitelist' = [whitelist EXCEPT !.blocked = @ \cup {a}]

\* is_allowed: a blocked address first, then the addresses, then the networks.
\* A text that is no address is in none of them.
Listed(w, a) ==
  /\ a \notin w.blocked
  /\ a \in w.ips \/ \E n \in w.networks : a \in n

IsIpAllowed(a) == ~whitelist.on \/ Listed(whitelist, a)
-----------------------------------------------------------------------------
\* validate_request_headers under the default policy. A request is what its
\* headers and URL come to.
Policy == [https |-> TRUE, agent |-> TRUE]

Requests ==
  [secure : BOOLEAN,                                  \* https, or forwarded as https
   type : {"none", "allowed", "other"},
   length : {"none", "fits", "too_long", "no_number"},
   agent : {"none", "usual", "tool", "mail_service"},
   largeHeader : BOOLEAN]

\* A name of a mail service is looked for before the suspicious words.
SuspiciousAgent(a) == a = "tool"

Breaks(r, rule) ==
  \/ rule = "https" /\ Policy.https /\ ~r.secure
  \/ rule = "content_type" /\ r.type = "other"
  \/ rule = "content_length" /\ r.length \in {"too_long", "no_number"}
  \/ rule = "user_agent" /\ Policy.agent /\ (r.agent = "none" \/ SuspiciousAgent(r.agent))
  \/ rule = "header_size" /\ r.largeHeader

HeaderViolations(r) ==
  {rule \in {"https", "content_type", "content_length", "user_agent", "header_size"} : Breaks(r, rule)}

ValidHeaders(r) == HeaderViolations(r) = {}
-----------------------------------------------------------------------------
\* ContentValidator: a text with a pattern of MALICIOUS_PATTERNS ("markup") or of
\* SQL_INJECTION_PATTERNS ("sql") is suspect. A payload is a sequence of entries;
\* a nested value is the set of texts in it, its keys are not looked at.
Texts == {"plain", "markup", "sql"}
Values == [kind : {"text"}, texts : {{t} : t \in Texts}]
          \cup [kind : {"scalar", "unsupported"}, texts : {{}}]
          \cup [kind : {"nested"}, texts : SUBSET Texts]
Entries == [safeKey : BOOLEAN, value : Values]
Payloads == UNION {[1 .. n -> Entries] : n \in 0 .. 2}

TextViolations(texts) == texts \ {"plain"}

EntryViolations(e) ==
  IF ~e.safeKey THEN {"key"}
  ELSE IF e.value.kind = "unsupported" THEN {"type"}
  ELSE TextViolations(e.value.texts)

\* In strict mode markup is removed but nothing is escaped; without it, what has
\* any violation is escaped, and once more for every SQL pattern.
Sanitised(strict, t) ==
  [removed |-> t = "markup", escapes |-> IF strict \/ t = "plain" THEN 0 ELSE IF t = "sql" THEN 2 ELSE 1]

Kept(p) == {i \in DOMAIN p : p[i].safeKey /\ p[i].value.kind # "unsupported"}

\* Seeded fault: strict mode forgets the types.
AcceptsAnyType(p, strict) ==
  LET bad == {i \in DOMAIN p : ~p[i].safeKey \/ TextViolations(p[i].value.texts) # {}}
  IN  IF strict /\ bad # {}
      THEN [valid |-> FALSE, kept |-> {}, escapes |-> <<>>]
      ELSE [valid |-> TRUE, kept |-> Kept(p),
            escapes |-> [i \in Kept(p) |-> {Sanitised(strict, t).escapes : t \in p[i].value.texts}]]

\* In strict mode the first entry with a violation ends the validation.
ValidateJsonPayload(p, strict) ==
  LET bad == {i \in DOMAIN p : EntryViolations(p[i]) # {}}
  IN  IF strict /\ bad # {}
      THEN [valid |-> FALSE, kept |-> {}, escapes |-> <<>>]
      ELSE [valid |-> TRUE, kept |-> Kept(p),
            escapes |-> [i \in Kept(p) |-> {Sanitised(strict, t).escapes : t \in p[i].value.texts}]]
=============================================================================
