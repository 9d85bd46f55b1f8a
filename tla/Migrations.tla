------------------------------ MODULE Migrations ------------------------------
(***************************************************************************)
(* The two folders of migrations. The older one made the database of       *)
(* earlier releases; the application's configuration now names another,    *)
(* whose one migration makes every table at once. A table is its columns,  *)
(* and of a column is kept whether it may be NULL and must be unique.      *)
(***************************************************************************)
EXTENDS Naturals, Sequences

VARIABLES
  folder,         \* the folder the release at hand applies: "older" or "models"
  applied,        \* migrations the database has recorded, in order
  tables,         \* the database's tables
  nullPassword    \* some user has no password

migrationVars == <<folder, applied, tables, nullPassword>>

Table(required, optional, unique) ==
  [c \in required \cup optional |-> [null |-> c \in optional, unique |-> c \in unique]]

\* A database or table with the entries of another, which replace its own.
With(db, new) ==
  [t \in DOMAIN db \cup DOMAIN new |-> IF t \in DOMAIN new THEN new[t] ELSE db[t]]

\* 2025_08_09
EmailLog1 == Table(
  {"id", "organization", "from_address", "to_addresses", "status", "horsemen_detected",
   "blocked_content", "received_at", "created_at", "delivery_status"},
  {"user", "subject", "message_id", "ai_analysis", "toxicity_score", "original_content",
   "filtered_content", "processing_time_ms", "ai_model_used", "plugin_used", "processed_at",
   "forwarded_to"}, {})
Organization1 == Table(
  {"id", "name", "slug", "subscription_plan", "subscription_status", "monthly_email_limit",
   "emails_processed_month", "user_limit", "is_active", "is_verified", "created_at",
   "updated_at", "settings"},
  {"description", "website", "logo_url", "stripe_customer_id"}, {"slug"})
Subscription1 == Table(
  {"id", "organization", "stripe_subscription_id", "stripe_customer_id", "stripe_product_id",
   "stripe_price_id", "status", "amount", "currency", "interval", "current_period_start",
   "current_period_end", "is_active", "cancel_at_period_end", "created_at", "updated_at"},
  {"trial_start", "trial_end", "canceled_at", "latest_invoice", "payment_method"},
  {"stripe_subscription_id"})
User1 == Table(
  {"id", "email", "hashed_password", "is_active", "is_verified", "subscription_status",
   "emails_processed_month", "api_quota_remaining", "created_at", "updated_at", "preferences"},
  {"username", "verification_token", "first_name", "last_name", "avatar_url", "organization",
   "stripe_customer_id", "last_login"}, {"email", "username"})

\* 2025_08_14
ShieldAddress2 == Table({"id", "shield_address", "user", "is_active", "created_at", "updated_at"}, {},
                        {"shield_address"})

\* 2025_08_17: users may come by another service, and then have no password.
Oauth == {"oauth_id", "oauth_provider"}
WithOauth(user) == With([user EXCEPT !["hashed_password"].null = TRUE], Table({}, Oauth, {}))

\* 2026_01_21
MessageAnalysis4 == Table(
  {"id", "user", "client_message_id", "channel", "sender_identifier", "direction",
   "horsemen_detected", "has_horsemen", "has_criticism", "has_contempt", "has_defensiveness",
   "has_stonewalling", "engine_version", "analyzed_at", "created_at"},
  {"message_timestamp", "toxicity_score", "threat_level", "reasoning", "message_body",
   "body_expires_at", "processing_time_ms", "model_used"}, {})
SenderSummary4 == Table(
  {"id", "user", "sender_identifier", "channel", "total_messages", "messages_with_horsemen",
   "clean_messages", "criticism_count", "contempt_count", "defensiveness_count",
   "stonewalling_count", "horsemen_counts", "created_at", "updated_at"},
  {"sender_label", "first_message_at", "last_message_at", "last_horseman_at"}, {})
AnalysisJob4 == Table(
  {"id", "user", "status", "total_messages", "processed_messages", "failed_messages",
   "message_ids", "privacy_settings", "failed_message_ids", "created_at", "updated_at"},
  {"error_message", "arq_job_id", "started_at", "completed_at"}, {})
Without(table, columns) == [c \in DOMAIN table \ columns |-> table[c]]
WithoutOauth(user) == [Without(user, Oauth) EXCEPT !["hashed_password"].null = FALSE]
WithoutContent(log) ==
  With(Without(log, {"ai_analysis", "blocked_content", "filtered_content", "original_content", "subject"}),
       Table({"blocked"}, {}, {}))

\* 2026_01_29: the tables of the models.
Subscription == Table(
  {"id", "organization", "stripe_subscription_id", "stripe_customer_id", "stripe_product_id",
   "stripe_price_id", "status", "amount", "currency", "interval", "current_period_start",
   "current_period_end", "is_active", "cancel_at_period_end", "created_at", "updated_at"},
  {"trial_start", "trial_end", "canceled_at", "latest_invoice", "payment_method"},
  {"stripe_subscription_id"})
Organization == Table(
  {"id", "name", "slug", "subscription_plan", "subscription_status", "monthly_email_limit",
   "emails_processed_month", "user_limit", "is_active", "is_verified", "created_at",
   "updated_at", "settings"},
  {"description", "website", "logo_url", "stripe_customer_id"}, {"slug"})
MessageAnalysis == Table(
  {"id", "user", "client_message_id", "channel", "sender_identifier", "direction",
   "horsemen_detected", "has_horsemen", "has_criticism", "has_contempt", "has_defensiveness",
   "has_stonewalling", "engine_version", "analyzed_at", "created_at"},
  {"message_timestamp", "toxicity_score", "threat_level", "reasoning", "message_body",
   "body_expires_at", "processing_time_ms", "model_used"}, {})
SenderSummary == Table(
  {"id", "user", "sender_identifier", "channel", "total_messages", "messages_with_horsemen",
   "clean_messages", "criticism_count", "contempt_count", "defensiveness_count",
   "stonewalling_count", "horsemen_counts", "created_at", "updated_at"},
  {"sender_label", "first_message_at", "last_message_at", "last_horseman_at"}, {})
User == Table(
  {"id", "email", "hashed_password", "is_active", "is_verified", "subscription_status",
   "emails_processed_month", "api_quota_remaining", "created_at", "updated_at", "preferences"},
  {"username", "verification_token", "first_name", "last_name", "avatar_url", "organization",
   "stripe_customer_id", "last_login"}, {"email", "username"})
AnalysisJob == Table(
  {"id", "user", "status", "total_messages", "processed_messages", "failed_messages",
   "message_ids", "privacy_settings", "failed_message_ids", "created_at", "updated_at"},
  {"error_message", "arq_job_id", "started_at", "completed_at"}, {})
EmailLog == Table(
  {"id", "organization", "from_address", "to_addresses", "status", "horsemen_detected",
   "blocked", "received_at", "created_at", "delivery_status"},
  {"user", "message_id", "toxicity_score", "processing_time_ms", "ai_model_used", "plugin_used",
   "processed_at", "forwarded_to"}, {})
ShieldAddress == Table({"id", "shield_address", "user", "is_active", "created_at", "updated_at"}, {},
                       {"shield_address"})
Models ==
  [Subscription |-> Subscription, Organization |-> Organization, MessageAnalysis |-> MessageAnalysis,
   SenderSummary |-> SenderSummary, User |-> User, AnalysisJob |-> AnalysisJob,
   EmailLog |-> EmailLog, ShieldAddress |-> ShieldAddress]

\* What a migration makes of the tables.
After(m, db) ==
  CASE m = "2025_08_09" -> With(db, [EmailLog |-> EmailLog1, Organization |-> Organization1,
                                     Subscription |-> Subscription1, User |-> User1])
    [] m = "2025_08_14" -> With(db, [ShieldAddress |-> ShieldAddress2])
    [] m = "2025_08_17" -> With(db, [User |-> WithOauth(db["User"])])
    [] m = "2026_01_21" -> With(db, [MessageAnalysis |-> MessageAnalysis4,
                                     SenderSummary |-> SenderSummary4, AnalysisJob |-> AnalysisJob4,
                                     User |-> WithoutOauth(db["User"]),
                                     EmailLog |-> WithoutContent(db["EmailLog"])])
    [] m = "2026_01_29" -> With(db, Models)

\* The tables a migration creates.
Creates(m) ==
  CASE m = "2025_08_09" -> {"EmailLog", "Organization", "Subscription", "User"}
    [] m = "2025_08_14" -> {"ShieldAddress"}
    [] m = "2026_01_21" -> {"MessageAnalysis", "SenderSummary", "AnalysisJob"}
    [] m = "2026_01_29" -> DOMAIN Models
    [] m = "2025_08_17" -> {}

Migrations(f) ==
  IF f = "older" THEN <<"2025_08_09", "2025_08_14", "2025_08_17", "2026_01_21">> ELSE <<"2026_01_29">>

Names == {"2025_08_09", "2025_08_14", "2025_08_17", "2026_01_21", "2026_01_29"}

Recorded(m) == \E i \in DOMAIN applied : applied[i] = m

\* The first of the folder's migrations that the database has not recorded.
Pending(m) ==
  \E i \in DOMAIN Migrations(folder) :
    /\ m = Migrations(folder)[i] /\ ~Recorded(m)
    /\ \A j \in 1 .. i - 1 : Recorded(Migrations(folder)[j])
-----------------------------------------------------------------------------
MigrationsInit ==
  /\ folder \in {"older", "models"} /\ applied = <<>>
  /\ tables = [t \in {} |-> {}] /\ nullPassword = FALSE

\* Whether the database takes a migration, which is one transaction: a table is
\* created once, and a column with a NULL in it does not become required.
Takes(m) ==
  /\ Creates(m) \cap DOMAIN tables = {}
  /\ m = "2026_01_21" => ~nullPassword

\* piccolo migrations forwards, one migration of its loop. The first that fails
\* ends it with nothing changed; the scripts go on without it.
\* Seeded fault: tables that exist are left as they are.
ForwardsIfNotExists ==
  \E m \in Names :
    /\ Pending(m) /\ (m = "2026_01_21" => ~nullPassword)
    /\ applied' = Append(applied, m)
    /\ tables' = IF m = "2026_01_29" THEN With(Models, tables) ELSE After(m, tables)
    /\ UNCHANGED <<folder, nullPassword>>
Forwards ==
  \E m \in Names :
    /\ Pending(m) /\ Takes(m)
    /\ applied' = Append(applied, m)
    /\ tables' = After(m, tables)
    /\ UNCHANGED <<folder, nullPassword>>

\* The release that moved the folder is installed.
Upgrade ==
  /\ folder = "older" /\ folder' = "models"
  /\ UNCHANGED <<applied, tables, nullPassword>>

\* A user comes by another service, as an earlier release let them.
SignUpWithoutPassword ==
  /\ folder = "older" /\ "User" \in DOMAIN tables
  /\ tables["User"]["hashed_password"].null
  /\ nullPassword' = TRUE
  /\ UNCHANGED <<folder, applied, tables>>

\* Somebody gives every user a password, or removes those without.
PasswordsSet ==
  /\ nullPassword /\ nullPassword' = FALSE
  /\ UNCHANGED <<folder, applied, tables>>

MigrationsNext == Forwards \/ Upgrade \/ SignUpWithoutPassword \/ PasswordsSet

(***************************************************************************)
(* Properties.                                                             *)
(***************************************************************************)

\* The two histories end in one schema: a database that took every migration of
\* either folder has the tables of the models, column by column
\* (the older folder's four migrations against the other's one).
EitherHistoryGivesTheModels ==
  /\ Recorded("2026_01_21") => tables = Models
  /\ Recorded("2026_01_29") => tables = Models

\* A database that an earlier release made stays out of reach of the folder now in
\* use, however it was brought on: its migration is not recorded there and never
\* will be, nor will any that comes after it (add_table of a table it has).
OlderStaysBehind ==
  Recorded("2025_08_09") => ~Recorded("2026_01_29") /\ ~Takes("2026_01_29")

\* A database comes to the tables of the models by either history and by no mixture
\* of the two.
HistoriesMeet == EitherHistoryGivesTheModels /\ OlderStaysBehind
=============================================================================
