--------------------------- MODULE ProductionConfig ---------------------------
(***************************************************************************)
(* ProductionConfig of features/email_protection: a configuration made     *)
(* from a profile, a deployment mode, the environment, a file or another   *)
(* configuration, and exported to a file or as an environment. A file's    *)
(* sections are written with a dot, "api.port". What is absent is "unset". *)
(***************************************************************************)
EXTENDS Integers

CONSTANTS
  Secrets,        \* webhook secrets somebody has chosen
  Given,          \* files and dictionaries somebody has written
  GivenVars,      \* environments somebody has written
  MaxLoads        \* bound: configurations made
ASSUME ConfigAssumption == /\ MaxLoads \in Nat
                           /\ Secrets \cap {"unset", "", "redacted"} = {}

VARIABLES
  cfg,            \* the configuration at hand; [profile |-> "unset"] before the first
  file,           \* what a configuration file holds
  vars,           \* the environment's variables
  loads

configVars == <<cfg, file, vars, loads>>

Profiles == {"development", "staging", "production"}
Modes == {"standalone", "container", "cloud"}
NoConfig == [profile |-> "unset"]

\* What a dictionary or environment holds under a key, or else a default.
Or(data, key, default) == IF key \in DOMAIN data THEN data[key] ELSE default

\* __init__: the defaults of the profile, then those of the deployment mode.
ApplyProfileDefaults(profile) ==
  [debug |-> profile = "development",
   https |-> profile # "development", signatures |-> profile # "development",
   level |-> CASE profile = "development" -> "DEBUG" [] profile = "staging" -> "INFO"
               [] OTHER -> "WARNING",
   emails |-> CASE profile = "development" -> 10 [] profile = "staging" -> 50 [] OTHER -> 100]

New(profile, mode) ==
  LET defaults == ApplyProfileDefaults(profile)
  IN [profile |-> profile, mode |-> mode, url |-> "unset", secret |-> "unset", llm |-> "privacy",
      debug |-> defaults.debug, signatures |-> defaults.signatures, level |-> defaults.level,
      emails |-> defaults.emails, https |-> defaults.https \/ mode = "cloud",
      host |-> IF mode = "standalone" THEN "loopback" ELSE "any", port |-> 8000,
      metrics |-> mode # "standalone"]

\* from_environment: an unknown profile is development, an empty variable of the
\* later ones is none; the mode is always standalone.
FromEnvironment(v) ==
  LET name == Or(v, "ENVIRONMENT", "development")
      base == New(IF name \in Profiles THEN name ELSE "development", "standalone")
  IN [base EXCEPT !.url = Or(v, "DATABASE_URL", "unset"),
                  !.secret = Or(v, "WEBHOOK_SECRET", "unset"),
                  !.llm = Or(v, "LLM_ANALYZER_MODE", "privacy"),
                  !.host = Or(v, "API_HOST", @), !.port = Or(v, "API_PORT", @),
                  !.emails = Or(v, "MAX_CONCURRENT_EMAILS", @),
                  !.level = Or(v, "LOG_LEVEL", @)]

\* from_file; an unknown profile is an error here.
Readable(data) == Or(data, "environment", "development") \in Profiles
FromFile(data) ==
  LET base == New(Or(data, "environment", "development"), "standalone")
  IN [base EXCEPT !.url = Or(data, "database_url", "unset"),
                  !.secret = Or(data, "webhook_secret", "unset"),
                  !.llm = Or(data, "llm_analyzer.mode", "privacy"),
                  !.host = Or(data, "api.host", @), !.port = Or(data, "api.port", @),
                  !.https = Or(data, "security.require_https", @),
                  !.level = Or(data, "logging.level", @)]

\* merge_with_dict starts from the defaults: of what was set by hand or read, it
\* takes along the first few fields only.
MergeWithDict(c, data) ==
  [New(c.profile, c.mode) EXCEPT
     !.url = Or(data, "database_url", c.url),
     !.secret = Or(data, "webhook_secret", c.secret),
     !.llm = Or(data, "llm_analyzer_mode", c.llm),
     !.debug = c.debug, !.metrics = c.metrics,
     !.host = Or(data, "api.host", @), !.port = Or(data, "api.port", @),
     !.https = Or(data, "security.require_https", @),
     !.emails = Or(data, "resources.max_concurrent_emails", @)]

Redacted(secret) == IF secret \in {"unset", ""} THEN "unset" ELSE "redacted"

\* to_dict.
ToDict(c) ==
  [k \in {"profile", "deployment_mode", "database_url", "webhook_secret", "llm_analyzer_mode",
          "debug_enabled", "api.host", "api.port", "security.require_https",
          "security.webhook_signature_validation", "logging.level",
          "resources.max_concurrent_emails"} |->
     CASE k = "profile" -> c.profile [] k = "deployment_mode" -> c.mode
       [] k = "database_url" -> c.url [] k = "webhook_secret" -> Redacted(c.secret)
       [] k = "llm_analyzer_mode" -> c.llm [] k = "debug_enabled" -> c.debug
       [] k = "api.host" -> c.host [] k = "api.port" -> c.port
       [] k = "security.require_https" -> c.https
       [] k = "security.webhook_signature_validation" -> c.signatures
       [] k = "logging.level" -> c.level [] OTHER -> c.emails]

\* export_for_deployment as an environment: what is unset becomes the empty string.
OrEmpty(value) == IF value = "unset" THEN "" ELSE value
\* Seeded fault: the values are taken from to_dict, as the other formats are.
ToEnvironmentOfDict(c) ==
  [ENVIRONMENT |-> c.profile, DATABASE_URL |-> OrEmpty(c.url), WEBHOOK_SECRET |-> OrEmpty(Redacted(c.secret)),
   API_HOST |-> c.host, API_PORT |-> c.port, LLM_ANALYZER_MODE |-> c.llm, LOG_LEVEL |-> c.level]
ToEnvironment(c) ==
  [ENVIRONMENT |-> c.profile, DATABASE_URL |-> OrEmpty(c.url), WEBHOOK_SECRET |-> OrEmpty(c.secret),
   API_HOST |-> c.host, API_PORT |-> c.port, LLM_ANALYZER_MODE |-> c.llm, LOG_LEVEL |-> c.level]

\* ConfigurationValidator.validate_config: "short" is a secret of too few
\* characters, as the redacted one is.
RequiredKeys == {"database_url", "webhook_secret", "api_host", "api_port", "llm_analyzer_mode",
                 "max_concurrent_emails"}
Unacceptable(key, value) ==
  CASE key = "webhook_secret" -> value \in {"unset", "", "short", "redacted"}
    [] key = "api_port" -> value \notin 1..65535 \/ value \in (1..1023) \ {80, 443}
    [] key = "llm_analyzer_mode" -> value \notin {"privacy", "anthropic", "openai"}
    [] key = "max_concurrent_emails" -> value \notin 1..10000
    [] key = "database_url" -> value = "unset"
    [] OTHER -> FALSE
ValidateConfig(data) ==
  \A key \in RequiredKeys : key \in DOMAIN data /\ ~Unacceptable(key, data[key])
-----------------------------------------------------------------------------
ConfigInit == cfg = NoConfig /\ file \in Given /\ vars \in GivenVars /\ loads = 0

Made(c) == loads < MaxLoads /\ loads' = loads + 1 /\ cfg' = c /\ UNCHANGED <<file, vars>>

Make(profile, mode) == (profile = "development" \/ mode = "standalone") /\ Made(New(profile, mode))
MakeFromEnvironment == Made(FromEnvironment(vars))
MakeFromFile == Readable(file) /\ Made(FromFile(file))
Merge(data) == cfg # NoConfig /\ Made(MergeWithDict(cfg, data))

\* export_for_deployment, and the result put where the next program reads it.
ExportFile == cfg # NoConfig /\ file' = ToDict(cfg) /\ UNCHANGED <<cfg, vars, loads>>
ExportEnvironment == cfg # NoConfig /\ vars' = ToEnvironment(cfg) /\ UNCHANGED <<cfg, file, loads>>

ConfigNext ==
  \/ \E profile \in Profiles, mode \in Modes : Make(profile, mode)
  \/ MakeFromEnvironment \/ MakeFromFile
  \/ \E data \in Given : Merge(data)
  \/ ExportFile \/ ExportEnvironment

(***************************************************************************)
(* Properties.                                                             *)
(***************************************************************************)

\* However a configuration came about, through whatever chain of files,
\* environments and merges, it checks the signatures of webhooks unless its
\* profile is development, and is in debug mode only then
\* (_apply_profile_defaults; no other method writes either).
GuardsFollowProfile ==
  cfg # NoConfig => /\ cfg.signatures <=> cfg.profile # "development"
                    /\ cfg.debug <=> cfg.profile = "development"

\* A configuration exported as an environment and read back is the same in
\* profile, analysis, address, logging, secret and database. Whatever else it
\* holds is as it was or as the profile has it: so far the latter, and development
\* in the cloud comes back without the HTTPS it required
\* (export_for_deployment and from_environment name one set of variables).
EnvironmentBringsBack ==
  cfg # NoConfig =>
    LET back == FromEnvironment(ToEnvironment(cfg))
        default == New(cfg.profile, "standalone")
    IN /\ \A field \in {"profile", "llm", "host", "port", "level", "signatures", "debug"} :
            back[field] = cfg[field]
       /\ back.secret = OrEmpty(cfg.secret) /\ back.url = OrEmpty(cfg.url)
       /\ \A field \in {"https", "mode", "emails", "metrics"} :
            back[field] \in {cfg[field], default[field]}

\* Outside development, a configuration that requires HTTPS still does after it went
\* through an environment, through a file (where it loses its profile) or through
\* a merge with anything that does not say otherwise. In development it may not.
HttpsStays ==
  cfg # NoConfig /\ cfg.https /\ cfg.profile # "development" =>
    /\ FromEnvironment(ToEnvironment(cfg)).https
    /\ FromFile(ToDict(cfg)).https
    /\ \A data \in Given :
         MergeWithDict(cfg, data).https = Or(data, "security.require_https", TRUE)

\* What an exported file shows in place of the secret is not taken for a secret by
\* the validator, whatever the rest of the configuration is completed with.
PlaceholderIsRefused ==
  cfg # NoConfig =>
    \A data \in Given :
      ~ValidateConfig([key \in DOMAIN data \cup {"webhook_secret"} |->
                         IF key = "webhook_secret" THEN ToDict(cfg)[key] ELSE data[key]])

\* What guards a configuration outlasts the ways it is passed on, but for the losses
\* stated above and those of a file: its profile and with it the checking of
\* signatures (production_config.py:206-411, 505-543).
ConfigurationsComeBack ==
  GuardsFollowProfile /\ EnvironmentBringsBack /\ HttpsStays /\ PlaceholderIsRefused
=============================================================================
