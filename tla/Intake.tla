-------------------------------- MODULE Intake --------------------------------
(***************************************************************************)
(* Mail on its way in by the plugins and providers, with the parts around  *)
(* them: the SMTP plugin, the tables of shield addresses, the registry of  *)
(* providers, the filters of a Gmail account, and the senders. A behaviour *)
(* exercises one part; mail needs the plugin and the tables.               *)
(***************************************************************************)
EXTENDS PluginManager, ShieldAddresses, ProviderRegistry, GmailFilters, Senders

CONSTANTS
  Mails,          \* mails: sequences of recipients, each an address and its spelling
  Parts           \* what behaviours exercise

VARIABLES
  answer,         \* the latest mail, its handler, what it was told, and who of it is known
  part

intakeVars == <<pluginVars, shieldVars, registryVars, filterVars, senderVars, answer>>
vars == <<intakeVars, part>>

Outsider == "outsider"      \* an address of another domain
Recipients == [a : Demo \cup Created \cup {Outsider}, upper : BOOLEAN]

ASSUME MailAssumption ==
  Outsider \notin Demo \cup Created /\ Mails \subseteq Seq(Recipients) \ {<<>>}

NoAnswer == [channel |-> "none", mail |-> <<>>, told |-> "none", known |-> {}]

\* Addresses are lowered before the look-up, so that spelling does not matter there.
\* Seeded fault: an address is looked up as it is spelled.
AsSpelled(recipient) == IF recipient.upper THEN "SPELLED" ELSE recipient.a
Normalised(recipient) == recipient.a
Known(table, recipient) == LookupUser(table, Normalised(recipient))

\* _find_shield_address and _extract_shield_address: the first recipient whose
\* domain is spelled in lower case.
FindShieldAddress(mail) ==
  LET ours == {i \in DOMAIN mail : mail[i].a # Outsider /\ ~mail[i].upper}
  IN IF ours = {} THEN <<>> ELSE <<mail[CHOOSE i \in ours : \A j \in ours : i <= j]>>

(***************************************************************************)
(* EmailProtectionProcessor.process_email always ends in an exception: the *)
(* summary it logs, or the analysis it makes up for one that failed, uses  *)
(* a field that EmailAnalysis does not have. What a handler answers to     *)
(* known mail is therefore its answer to an exception: "later" is 451,     *)
(* "bad" a 400; "accepted" is 250 or 200, "refused" 550 or 404.            *)
(***************************************************************************)
Judge(table, recipient, refusal, failure) ==
  IF Known(table, recipient) THEN failure ELSE refusal

\* SMTPHandler.handle_DATA of the plugin looks at the first recipient only.
PluginAnswer(table, mail) == Judge(table, mail[1], "refused", "later")

\* SMTPMessageHandler.handle_message: 250 for mail it will not read.
ServerAnswer(table, mail) ==
  LET shield == FindShieldAddress(mail)
  IN IF shield = <<>> THEN "accepted" ELSE Judge(table, shield[1], "refused", "later")

\* PostmarkWebhookHandler.handle_inbound: the To field is one string, which names
\* an address only when there is one recipient, and has the domain of the last.
\* Every call has a manager of its own. Mail without headers cannot be converted;
\* an invalid request and an exception are answered alike.
PostmarkAnswer(mail, complete, headers) ==
  CASE ~complete \/ ~headers \/ mail[Len(mail)].a = Outsider -> "bad"
    [] complete /\ headers /\ mail[Len(mail)].a # Outsider ->
         IF Len(mail) > 1 THEN "refused" ELSE Judge(InitializeDemoData, mail[1], "refused", "bad")

\* GmailWebhookHandler: the headers of a request are keyed in lower case, and the
\* token is looked for under another spelling.
ValidateWebhook(headers) == "Authorization" \in headers
HeadersOf(bearer) == IF bearer THEN {"authorization"} ELSE {}
GmailAnswer(table, mail, bearer) ==
  IF ~ValidateWebhook(HeadersOf(bearer)) THEN "unauthorized"
  ELSE LET shield == FindShieldAddress(mail)
       IN IF shield = <<>> THEN "accepted" ELSE Judge(table, shield[1], "accepted", "bad")

Answered(channel, mail, told, table) ==
  answer' = [channel |-> channel, mail |-> mail, told |-> told,
             known |-> {i \in DOMAIN mail : LookupUser(table, mail[i].a)}]

\* The plugin's handler is reached while its server listens.
MailBySmtp(mail) ==
  /\ \E s \in DOMAIN servers : Listening(s)
  /\ Answered("plugin", mail, PluginAnswer(tables["smtp"], mail), tables["smtp"])
  /\ tables' = Used("smtp", mail[1].a)
  /\ UNCHANGED changes

\* The server of providers/smtp runs on its own, with a table of its own.
MailByServer(mail) ==
  /\ Answered("server", mail, ServerAnswer(InitializeDemoData, mail), InitializeDemoData)
  /\ UNCHANGED shieldVars

MailByPostmark(mail, complete, headers) ==
  /\ Answered("postmark", mail, PostmarkAnswer(mail, complete, headers), InitializeDemoData)
  /\ UNCHANGED shieldVars

MailByGmail(mail, bearer) ==
  /\ Answered("gmail", mail, GmailAnswer(tables["gmail"], mail, bearer), tables["gmail"])
  /\ UNCHANGED shieldVars

MailArrives ==
  \E mail \in Mails, given \in BOOLEAN, headers \in BOOLEAN :
    \/ MailBySmtp(mail)
    \/ MailByServer(mail)
    \/ MailByPostmark(mail, given, headers)
    \/ MailByGmail(mail, given)
-----------------------------------------------------------------------------
Init ==
  /\ part \in Parts
  /\ PluginInit /\ ShieldsInit /\ RegistryInit /\ FiltersInit /\ SendersInit
  /\ part # "senders" => config.kind = "smtp" /\ {"token", "password", "tls"} \subseteq config.fields
  /\ answer = NoAnswer

\* A server that begins to listen has a handler, and with it a table, of its own.
HandlerMade ==
  tables' = IF \E s \in DOMAIN servers' : servers'[s].controller = "up" /\ ~Listening(s)
            THEN [tables EXCEPT !["smtp"] = InitializeDemoData] ELSE tables

PluginStep ==
  /\ \/ part = "plugins" /\ PluginNext
     \/ /\ part = "mail"
        /\ \/ \E port \in Ports : LoadPlugin(port)
           \/ StartPlugin \/ \E t \in DOMAIN tasks : RunForever(t)
  /\ HandlerMade
  /\ UNCHANGED <<changes, registryVars, filterVars, senderVars, answer>>
MailStep ==
  /\ part = "mail" /\ MailArrives
  /\ UNCHANGED <<pluginVars, registryVars, filterVars, senderVars>>
ShieldStep ==
  /\ part = "mail" /\ ShieldsNext
  /\ UNCHANGED <<pluginVars, registryVars, filterVars, senderVars, answer>>
RegistryStep ==
  /\ part = "registry" /\ RegistryNext
  /\ UNCHANGED <<pluginVars, shieldVars, filterVars, senderVars, answer>>
FiltersStep ==
  /\ part = "filters" /\ FiltersNext
  /\ UNCHANGED <<pluginVars, shieldVars, registryVars, senderVars, answer>>
SendersStep ==
  /\ part = "senders" /\ SendersNext
  /\ UNCHANGED <<pluginVars, shieldVars, registryVars, filterVars, answer>>

Next ==
  /\ UNCHANGED part
  /\ PluginStep \/ MailStep \/ ShieldStep \/ RegistryStep \/ FiltersStep \/ SendersStep
Spec == Init /\ [][Next]_vars

(***************************************************************************)
(* Properties.                                                             *)
(***************************************************************************)

\* Mail to one active shield address is refused by no handler that comes to look it up,
\* however the address is spelled (each of the four looks in a table of its own; Gmail's
\* turns pushes away as unauthorised before that).
KnownNotRefused == answer.known # {} /\ Len(answer.mail) = 1 => answer.told # "refused"

\* Mail that is accepted is read by nobody, and is for nobody: none of its recipients
\* is an active shield address, but for those whose domain is spelled with capitals,
\* whose mail is lost with a 250 (smtp/server.py:47-49, smtp/provider.py:282-287).
AcceptedIsNotOurs ==
  answer.told = "accepted" => \A i \in answer.known : answer.mail[i].upper

\* No handler turns away what is ours, be it by refusing it or by accepting it unread.
AnswersFit == KnownNotRefused /\ AcceptedIsNotOurs
=============================================================================
