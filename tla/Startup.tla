------------------------------- MODULE Startup -------------------------------
(***************************************************************************)
(* Starting the program: Settings reads and checks the environment,        *)
(* get_settings keeps the first that loads, create_app checks it again,    *)
(* and the webhook controller, made while the application is put together, *)
(* chooses how mail is delivered from settings it reads for itself.        *)
(***************************************************************************)
EXTENDS SenderFactory, Integers

CONSTANT MaxEdits       \* bound: edits of the environment or its .env file
ASSUME StartupAssumption == MaxEdits \in Nat

VARIABLES
  env,            \* the environment and the .env file, as Settings would read them
  edits,
  settings,       \* what get_settings keeps: <<>> or the one it read first
  app,            \* "none", "checked", "serving" or "refused"
  delivery        \* what mail of the privacy pipeline is sent with

startupVars == <<env, edits, settings, app, delivery>>

Switches == {"debug", "testing", "encryption", "username", "password", "token"}
Environments ==
  [on : SUBSET Switches, method : Kinds, secret : {"common", "strong"},
   database : {"default password", "own"}]

\* The field validators of Settings. A secret key that is short, the known default
\* or of few characters is refused in every mode ("common").
Loads(e) == e.secret = "strong"

IsProduction(s) == {"debug", "testing"} \cap s.on = {}

\* validate_configuration. The user name no kind of delivery works without is not
\* among what it asks for, nor is the method one that exists.
ValidateConfiguration(s) ==
  /\ IsProduction(s) => /\ "encryption" \in s.on
                        /\ s.method = "postmark" => "token" \in s.on
                        /\ s.method = "smtp" => "password" \in s.on
  /\ s.database # "default password"

\* _create_delivery_config_from_settings. The SMTP settings leave out the key that
\* tells whether to use TLS.
FieldsOf(s) == {"domain"} \cup ({"username", "password", "token"} \cap s.on)
DeliveryConfig(s) ==
  IF s.method = "postmark" /\ "token" \in s.on
  THEN [kind |-> "postmark", fields |-> FieldsOf(s) \ {"password"}]
  ELSE [kind |-> "smtp", fields |-> (FieldsOf(s) \ {"token"}) \cup {"host", "port"}]

\* The orchestrator's constructor: when no sender can be made of the settings, a
\* Postmark sender with a token made up for tests.
DeliveryOf(e) ==
  LET config == DeliveryConfig(e)
  IN IF Loads(e) /\ CreateSender(config.kind, config.fields) THEN config.kind ELSE "test token"
-----------------------------------------------------------------------------
StartupInit ==
  /\ env \in Environments /\ edits = 0
  /\ settings = <<>> /\ app = "none" /\ delivery = "none"

\* The operator changes one setting.
Edit ==
  /\ edits < MaxEdits /\ edits' = edits + 1
  /\ \E e \in Environments :
       /\ env' = e /\ e # env
       /\ \/ \E x \in Switches : e = [env EXCEPT !.on = e.on] /\ e.on \in {env.on \cup {x}, env.on \ {x}}
          \/ e = [env EXCEPT !.method = e.method]
          \/ e = [env EXCEPT !.secret = e.secret]
          \/ e = [env EXCEPT !.database = e.database]
  /\ UNCHANGED <<settings, app, delivery>>

\* get_settings, which whoever needs a setting calls.
\* Seeded fault: nothing is kept.
GetSettingsAnew ==
  /\ app # "refused" /\ Loads(env)
  /\ settings' = <<env>> /\ UNCHANGED <<env, edits, app, delivery>>
GetSettings ==
  /\ app # "refused" /\ settings = <<>> /\ Loads(env)
  /\ settings' = <<env>> /\ UNCHANGED <<env, edits, app, delivery>>

\* create_app up to validate_configuration; a process that is refused ends.
CreateApp ==
  /\ app = "none"
  /\ settings' = IF settings = <<>> /\ Loads(env) THEN <<env>> ELSE settings
  /\ app' = IF settings' # <<>> /\ ValidateConfiguration(settings'[1]) THEN "checked" ELSE "refused"
  /\ UNCHANGED <<env, edits, delivery>>

\* The controllers are made, each once: the orchestrator calls Settings() itself.
MakeControllers ==
  /\ app = "checked" /\ app' = "serving"
  /\ delivery' = DeliveryOf(env)
  /\ UNCHANGED <<env, edits, settings>>

\* The process is started again.
Restart ==
  /\ app \in {"serving", "refused"}
  /\ app' = "none" /\ settings' = <<>> /\ delivery' = "none"
  /\ UNCHANGED <<env, edits>>

StartupNext == Edit \/ GetSettings \/ CreateApp \/ MakeControllers \/ Restart

(***************************************************************************)
(* Properties.                                                             *)
(***************************************************************************)

\* While the application serves, what every caller of get_settings is given is a
\* configuration create_app checked, whatever became of the environment since:
\* the secret tokens are signed with, the database and debug mode are of one
\* checked piece (get_settings keeps what it read first).
ServedAsChecked ==
  app \in {"checked", "serving"} => settings # <<>> /\ ValidateConfiguration(settings[1])

\* The sender made up for tests and development is not what a production
\* application delivers with that was checked for a method there is, when its
\* settings did not change (the comment above the fallback of
\* PrivacyWebhookOrchestrator).
FallbackOnlyInDevelopment ==
  app = "serving" /\ delivery = "test token" /\ edits = 0 /\ settings[1].method # "other"
    => ~IsProduction(settings[1])
=============================================================================
