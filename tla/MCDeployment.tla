----------------------------- MODULE MCDeployment -----------------------------
(***************************************************************************)
(* Deployment for TLC.                                                     *)
(***************************************************************************)
EXTENDS Deployment, TLC

MCGiven ==
  {[environment |-> "production", webhook_secret |-> "long", database_url |-> "own"],
   ("environment" :> "staging") @@ ("security.require_https" :> FALSE) @@ ("api.port" :> 443)
     @@ ("webhook_secret" :> "short") @@ ("logging.level" :> "ERROR"),
   ("environment" :> "testing") @@ ("llm_analyzer_mode" :> "openai")
     @@ ("resources.max_concurrent_emails" :> 20000)
     @@ ("security.webhook_signature_validation" :> FALSE),
   ("llm_analyzer.mode" :> "anthropic") @@ ("api.host" :> "other")}

MCGivenVars ==
  {[ENVIRONMENT |-> "production", WEBHOOK_SECRET |-> "long", DATABASE_URL |-> "own"],
   [ENVIRONMENT |-> "unknown", API_PORT |-> 8080, MAX_CONCURRENT_EMAILS |-> 5],
   [WEBHOOK_SECRET |-> "short", LOG_LEVEL |-> "ERROR", LLM_ANALYZER_MODE |-> "openai"]}
=============================================================================
