--------------------------- MODULE DeploymentProofs ---------------------------
(***************************************************************************)
(* Theorems about Deployment, for every environment, file and edit, and    *)
(* for a database of either history of migrations.                         *)
(***************************************************************************)
EXTENDS Deployment, TLAPS

-----------------------------------------------------------------------------
(* The settings the application serves with.                               *)

LEMMA ServedInit == Init => ServedAsChecked
  BY DEF Init, StartupInit, ServedAsChecked

LEMMA ServedStep == ServedAsChecked /\ [Next]_deploymentVars => ServedAsChecked'
  <1>. SUFFICES ASSUME ServedAsChecked, [Next]_deploymentVars  PROVE ServedAsChecked'
    OBVIOUS
  <1>. USE DEF ServedAsChecked
  <1>1. CASE StartupStep
    <2>1. CASE Edit
      BY <2>1 DEF Edit
    <2>2. CASE GetSettings
      BY <2>2 DEF GetSettings
    <2>3. CASE CreateApp
      BY <2>3 DEF CreateApp
    <2>4. CASE MakeControllers
      BY <2>4 DEF MakeControllers
    <2>5. CASE Restart
      BY <2>5 DEF Restart
    <2>. QED  BY <1>1, <2>1, <2>2, <2>3, <2>4, <2>5 DEF StartupStep, StartupNext
  <1>2. CASE UNCHANGED startupVars
    BY <1>2 DEF startupVars
  <1>. QED  BY <1>1, <1>2 DEF Next, ConfigStep, SchemaStep, deploymentVars

\* Whatever is edited while the application starts and serves, what get_settings
\* hands out is one configuration that create_app checked.
THEOREM ServedChecked == Spec => []ServedAsChecked
  BY ServedInit, ServedStep, PTL DEF Spec

-----------------------------------------------------------------------------
(* Configuration objects and the ways they are passed on.                  *)

Fields == {"profile", "mode", "url", "secret", "llm", "debug", "signatures", "level",
           "emails", "https", "host", "port", "metrics"}

\* A configuration has every field, its profile is one of the three, and the two
\* guards are those of the profile.
IsConfig(c) ==
  /\ c = [k \in Fields |-> c[k]]
  /\ c.profile \in Profiles
  /\ c.signatures = (c.profile # "development")
  /\ c.debug = (c.profile = "development")

CfgInv == cfg # NoConfig => IsConfig(cfg)

LEMMA NewIsConfig ==
  ASSUME NEW p \in Profiles, NEW m
  PROVE  IsConfig(New(p, m)) /\ New(p, m).profile = p
  BY DEF New, IsConfig, Fields, ApplyProfileDefaults

LEMMA EnvironmentIsConfig == ASSUME NEW v PROVE IsConfig(FromEnvironment(v))
  <1>. DEFINE name == Or(v, "ENVIRONMENT", "development")
              p == IF name \in Profiles THEN name ELSE "development"
              base == New(p, "standalone")
  <1>1. p \in Profiles
    BY DEF Profiles
  <1>2. IsConfig(base) /\ base.profile = p
    BY <1>1, NewIsConfig
  <1>. HIDE DEF p, base
  <1>3. ASSUME NEW a, NEW b, NEW c, NEW d, NEW e, NEW f, NEW g
        PROVE  IsConfig([base EXCEPT !.url = a, !.secret = b, !.llm = c, !.host = d, !.port = e,
                                     !.emails = f, !.level = g])
    BY <1>2 DEF IsConfig, Fields
  <1>. QED  BY <1>3, ZenonT(30) DEF FromEnvironment, base, p, name

LEMMA FileIsConfig == ASSUME NEW data, Readable(data) PROVE IsConfig(FromFile(data))
  <1>. DEFINE base == New(Or(data, "environment", "development"), "standalone")
  <1>1. IsConfig(base)
    BY NewIsConfig DEF Readable
  <1>. HIDE DEF base
  <1>2. ASSUME NEW a, NEW b, NEW c, NEW d, NEW e, NEW f, NEW g
        PROVE  IsConfig([base EXCEPT !.url = a, !.secret = b, !.llm = c, !.host = d, !.port = e,
                                     !.https = f, !.level = g])
    BY <1>1 DEF IsConfig, Fields
  <1>. QED  BY <1>2 DEF FromFile, base

LEMMA MergedIsConfig ==
  ASSUME NEW c, IsConfig(c), NEW data
  PROVE  IsConfig(MergeWithDict(c, data))
  <1>. DEFINE base == New(c.profile, c.mode)
  <1>1. IsConfig(base) /\ base.profile = c.profile /\ c.profile \in Profiles
    BY NewIsConfig DEF IsConfig
  <1>. HIDE DEF base
  <1>2. ASSUME NEW a, NEW b, NEW d, NEW e, NEW f, NEW g, NEW h, NEW i
        PROVE  IsConfig([base EXCEPT !.url = a, !.secret = b, !.llm = d, !.debug = c.debug,
                                     !.metrics = e, !.host = f, !.port = g, !.https = h, !.emails = i])
    BY <1>1 DEF IsConfig, Fields
  <1>. QED  BY <1>2, ZenonT(30) DEF MergeWithDict, base

LEMMA CfgInvInit == Init => CfgInv
  BY DEF Init, ConfigInit, CfgInv

LEMMA CfgInvStep == CfgInv /\ [Next]_deploymentVars => CfgInv'
  <1>. SUFFICES ASSUME CfgInv, [Next]_deploymentVars  PROVE CfgInv'
    OBVIOUS
  <1>. USE DEF CfgInv
  <1>1. CASE cfg' = cfg
    BY <1>1
  <1>2. ASSUME NEW p \in Profiles, NEW m, Make(p, m)  PROVE CfgInv'
    BY <1>2, NewIsConfig DEF Make, Made
  <1>3. CASE MakeFromEnvironment
    BY <1>3, EnvironmentIsConfig DEF MakeFromEnvironment, Made
  <1>4. CASE MakeFromFile
    BY <1>4, FileIsConfig DEF MakeFromFile, Made
  <1>5. ASSUME NEW data, Merge(data)  PROVE CfgInv'
    BY <1>5, MergedIsConfig DEF Merge, Made
  <1>6. CASE ConfigStep
    BY <1>1, <1>2, <1>3, <1>4, <1>5, <1>6 DEF ConfigStep, ConfigNext, ExportFile, ExportEnvironment
  <1>. QED  BY <1>1, <1>6 DEF Next, StartupStep, SchemaStep, configVars, deploymentVars

\* What an environment brings back.
LEMMA BackFromEnvironment ==
  ASSUME NEW c, IsConfig(c)
  PROVE  LET back == FromEnvironment(ToEnvironment(c))
             default == New(c.profile, "standalone")
         IN /\ \A field \in {"profile", "llm", "host", "port", "level", "signatures", "debug"} :
                 back[field] = c[field]
            /\ back.secret = OrEmpty(c.secret) /\ back.url = OrEmpty(c.url)
            /\ \A field \in {"https", "mode", "emails", "metrics"} : back[field] = default[field]
  <1>. DEFINE v == ToEnvironment(c)
              back == FromEnvironment(v)
  <1>1. /\ DOMAIN v = {"ENVIRONMENT", "DATABASE_URL", "WEBHOOK_SECRET", "API_HOST", "API_PORT",
                       "LLM_ANALYZER_MODE", "LOG_LEVEL"}
        /\ v["ENVIRONMENT"] = c.profile /\ v["DATABASE_URL"] = OrEmpty(c.url)
        /\ v["WEBHOOK_SECRET"] = OrEmpty(c.secret) /\ v["API_HOST"] = c.host
        /\ v["API_PORT"] = c.port /\ v["LLM_ANALYZER_MODE"] = c.llm /\ v["LOG_LEVEL"] = c.level
    BY DEF ToEnvironment
  <1>. HIDE DEF v
  <1>. DEFINE base == New(c.profile, "standalone")
  <1>2. IsConfig(base) /\ base.profile = c.profile /\ c.profile \in Profiles
    BY NewIsConfig DEF IsConfig
  <1>3. back = [base EXCEPT !.url = OrEmpty(c.url), !.secret = OrEmpty(c.secret), !.llm = c.llm,
                            !.host = c.host, !.port = c.port, !.emails = base.emails, !.level = c.level]
    <2>1. Or(v, "ENVIRONMENT", "development") = c.profile
      BY <1>1 DEF Or
    <2>2. \A d : /\ Or(v, "DATABASE_URL", d) = OrEmpty(c.url) /\ Or(v, "WEBHOOK_SECRET", d) = OrEmpty(c.secret)
                 /\ Or(v, "LLM_ANALYZER_MODE", d) = c.llm /\ Or(v, "API_HOST", d) = c.host
                 /\ Or(v, "API_PORT", d) = c.port /\ Or(v, "LOG_LEVEL", d) = c.level
                 /\ Or(v, "MAX_CONCURRENT_EMAILS", d) = d
      BY <1>1 DEF Or
    <2>. HIDE DEF base
    <2>. QED  BY <1>2, <2>1, <2>2 DEF FromEnvironment, base
  <1>. HIDE DEF base, back
  <1>4. /\ back.llm = c.llm /\ back.host = c.host /\ back.port = c.port /\ back.level = c.level
        /\ back.secret = OrEmpty(c.secret) /\ back.url = OrEmpty(c.url)
        /\ back.profile = base.profile /\ back.signatures = base.signatures /\ back.debug = base.debug
    BY <1>2, <1>3 DEF IsConfig, Fields
  <1>5. /\ back["https"] = base["https"] /\ back["mode"] = base["mode"]
        /\ back["emails"] = base["emails"] /\ back["metrics"] = base["metrics"]
    BY <1>2, <1>3 DEF IsConfig, Fields
  <1>6. base.signatures = c.signatures /\ base.debug = c.debug
    BY <1>2 DEF IsConfig
  <1>7. \A field \in {"profile", "llm", "host", "port", "level", "signatures", "debug"} :
          back[field] = c[field]
    BY <1>2, <1>4, <1>6
  <1>8. \A field \in {"https", "mode", "emails", "metrics"} : back[field] = base[field]
    BY <1>5
  <1>. QED  BY <1>4, <1>7, <1>8 DEF back, v, base

\* Outside development every new configuration requires HTTPS.
LEMMA NewRequiresHttps ==
  ASSUME NEW p \in Profiles, p # "development", NEW m
  PROVE  New(p, m).https = TRUE
  BY DEF New, ApplyProfileDefaults

\* What an exported file says of HTTPS is what is read back.
LEMMA FileKeepsHttps ==
  ASSUME NEW c  PROVE FromFile(ToDict(c)).https = c.https
  <1>. DEFINE data == ToDict(c)
              base == New("development", "standalone")
  <1>1. /\ "environment" \notin DOMAIN data
        /\ "security.require_https" \in DOMAIN data /\ data["security.require_https"] = c.https
    BY DEF ToDict
  <1>. HIDE DEF data
  <1>2. IsConfig(base)
    BY NewIsConfig DEF Profiles
  <1>. HIDE DEF base
  <1>3. ASSUME NEW a, NEW b, NEW d, NEW e, NEW f, NEW g, NEW h
        PROVE  [base EXCEPT !.url = a, !.secret = b, !.llm = d, !.host = e, !.port = f,
                            !.https = g, !.level = h].https = g
    BY <1>2 DEF IsConfig, Fields
  <1>4. Or(data, "environment", "development") = "development"
    BY <1>1 DEF Or
  <1>5. FromFile(data) =
          [base EXCEPT !.url = Or(data, "database_url", "unset"),
                       !.secret = Or(data, "webhook_secret", "unset"),
                       !.llm = Or(data, "llm_analyzer.mode", "privacy"),
                       !.host = Or(data, "api.host", base.host), !.port = Or(data, "api.port", base.port),
                       !.https = Or(data, "security.require_https", base.https),
                       !.level = Or(data, "logging.level", base.level)]
    BY <1>2, <1>4 DEF FromFile, base, IsConfig, Fields
  <1>6. \A d : Or(data, "security.require_https", d) = c.https
    BY <1>1 DEF Or
  <1>. QED  BY <1>3, <1>5, <1>6 DEF data

\* A merge takes what its dictionary says of HTTPS or the profile's default.
LEMMA MergeKeepsHttps ==
  ASSUME NEW c, IsConfig(c), NEW data
  PROVE  MergeWithDict(c, data).https =
           Or(data, "security.require_https", New(c.profile, c.mode).https)
  <1>. DEFINE base == New(c.profile, c.mode)
  <1>1. IsConfig(base)
    BY NewIsConfig DEF IsConfig
  <1>. HIDE DEF base
  <1>2. ASSUME NEW a, NEW b, NEW d, NEW e, NEW f, NEW g, NEW h, NEW i
        PROVE  [base EXCEPT !.url = a, !.secret = b, !.llm = d, !.debug = c.debug, !.metrics = e,
                            !.host = f, !.port = g, !.https = h, !.emails = i].https = h
    BY <1>1 DEF IsConfig, Fields
  <1>3. MergeWithDict(c, data) =
          [base EXCEPT !.url = Or(data, "database_url", c.url),
                       !.secret = Or(data, "webhook_secret", c.secret),
                       !.llm = Or(data, "llm_analyzer_mode", c.llm),
                       !.debug = c.debug, !.metrics = c.metrics,
                       !.host = Or(data, "api.host", base.host), !.port = Or(data, "api.port", base.port),
                       !.https = Or(data, "security.require_https", base.https),
                       !.emails = Or(data, "resources.max_concurrent_emails", base.emails)]
    BY <1>1 DEF MergeWithDict, base, IsConfig, Fields
  <1>4. MergeWithDict(c, data).https = Or(data, "security.require_https", base.https)
    BY <1>2, <1>3
  <1>. QED  BY <1>4 DEF base

\* Every chain of profiles, environments, files and merges ends in a configuration
\* whose guards are those of its profile; outside development the requirement of
\* HTTPS outlasts every way to pass it on, and the placeholder an export shows is no
\* secret to the validator. In development HTTPS may be lost, and a file loses
\* the profile.
THEOREM ConfigurationsBack == Spec => []ConfigurationsComeBack
  <1>1. CfgInv => ConfigurationsComeBack
    <2>. SUFFICES ASSUME CfgInv, cfg # NoConfig  PROVE ConfigurationsComeBack
      BY DEF ConfigurationsComeBack, GuardsFollowProfile, EnvironmentBringsBack,
             HttpsStays, PlaceholderIsRefused
    <2>1. IsConfig(cfg)
      BY DEF CfgInv
    <2>2. GuardsFollowProfile
      BY <2>1 DEF GuardsFollowProfile, IsConfig
    <2>3. EnvironmentBringsBack
      BY <2>1, BackFromEnvironment DEF EnvironmentBringsBack
    <2>4. HttpsStays
      <3>. SUFFICES ASSUME cfg.https, cfg.profile # "development"
                    PROVE  /\ FromEnvironment(ToEnvironment(cfg)).https
                           /\ FromFile(ToDict(cfg)).https
                           /\ \A data \in Given :
                                MergeWithDict(cfg, data).https = Or(data, "security.require_https", TRUE)
        BY DEF HttpsStays
      <3>1. \A m : New(cfg.profile, m).https = TRUE
        BY <2>1, NewRequiresHttps DEF IsConfig
      <3>2. FromEnvironment(ToEnvironment(cfg))["https"] = New(cfg.profile, "standalone")["https"]
        BY <2>1, BackFromEnvironment
      <3>3. FromFile(ToDict(cfg)).https = cfg.https
        BY FileKeepsHttps
      <3>4. \A data \in Given :
              MergeWithDict(cfg, data).https = Or(data, "security.require_https", TRUE)
        BY <2>1, <3>1, MergeKeepsHttps
      <3>. QED  BY <3>1, <3>2, <3>3, <3>4
    <2>5. PlaceholderIsRefused
      <3>1. Unacceptable("webhook_secret", ToDict(cfg)["webhook_secret"])
        BY DEF Unacceptable, ToDict, Redacted
      <3>. QED  BY <3>1 DEF PlaceholderIsRefused, ValidateConfig, RequiredKeys
    <2>. QED  BY <2>2, <2>3, <2>4, <2>5 DEF ConfigurationsComeBack
  <1>. QED  BY <1>1, CfgInvInit, CfgInvStep, PTL DEF Spec

-----------------------------------------------------------------------------
(* The database's schema.                                                  *)

LEMMA TableOf ==
  ASSUME NEW required, NEW optional, NEW unique
  PROVE  /\ DOMAIN Table(required, optional, unique) = required \cup optional
         /\ \A c \in required \cup optional :
              Table(required, optional, unique)[c] = [null |-> c \in optional, unique |-> c \in unique]
  BY DEF Table

LEMMA ColumnOf ==
  ASSUME NEW required, NEW optional, NEW unique, NEW c \in required \cup optional
  PROVE  Table(required, optional, unique)[c] = [null |-> c \in optional, unique |-> c \in unique]
  BY DEF Table

LEMMA RequiredColumn ==
  ASSUME NEW required, NEW optional, NEW unique, NEW c \in required, c \notin optional, c \notin unique
  PROVE  Table(required, optional, unique)[c] = [null |-> FALSE, unique |-> FALSE]
  <1>1. (c \in optional) = FALSE /\ (c \in unique) = FALSE
    OBVIOUS
  <1>2. Table(required, optional, unique)[c] = [null |-> c \in optional, unique |-> c \in unique]
    BY ColumnOf, c \in required \cup optional, Zenon
  <1>. QED  BY <1>1, <1>2, Zenon

LEMMA SameColumn ==
  ASSUME NEW r1, NEW o1, NEW r2, NEW o2, NEW u, NEW c, c \in r1 \cup o1, c \in r2 \cup o2,
         c \in o1 <=> c \in o2
  PROVE  Table(r1, o1, u)[c] = Table(r2, o2, u)[c]
  <1>1. (c \in o1) = (c \in o2)
    OBVIOUS
  <1>2. Table(r1, o1, u)[c] = [null |-> c \in o1, unique |-> c \in u]
    BY DEF Table
  <1>3. Table(r2, o2, u)[c] = [null |-> c \in o2, unique |-> c \in u]
    BY DEF Table
  <1>. QED  BY <1>1, <1>2, <1>3, Zenon

\* With, entry by entry.
LEMMA WithDomain ==
  ASSUME NEW db, NEW new
  PROVE  DOMAIN With(db, new) = DOMAIN db \cup DOMAIN new
  BY DEF With

LEMMA WithNew ==
  ASSUME NEW db, NEW new, NEW t \in DOMAIN new
  PROVE  With(db, new)[t] = new[t]
  BY DEF With

LEMMA WithOld ==
  ASSUME NEW db, NEW new, NEW t \in DOMAIN db, t \notin DOMAIN new
  PROVE  With(db, new)[t] = db[t]
  BY DEF With

LEMMA WithIsFunction ==
  ASSUME NEW db, NEW new
  PROVE  With(db, new) = [t \in DOMAIN With(db, new) |-> With(db, new)[t]]
  BY DEF With

\* A database with the entries of another.
Merged(w, db, new) ==
  /\ DOMAIN w = DOMAIN db \cup DOMAIN new
  /\ w = [t \in DOMAIN w |-> w[t]]
  /\ \A t \in DOMAIN new : w[t] = new[t]
  /\ \A t \in DOMAIN db \ DOMAIN new : w[t] = db[t]

LEMMA WithMerges == ASSUME NEW db, NEW new PROVE Merged(With(db, new), db, new)
  <1>. DEFINE w == With(db, new)
  <1>1. w = [t \in DOMAIN w |-> w[t]]
    BY WithIsFunction, Zenon
  <1>2. DOMAIN w = DOMAIN db \cup DOMAIN new
    BY WithDomain, Zenon
  <1>3. \A t \in DOMAIN new : w[t] = new[t]
    BY WithNew, Zenon
  <1>4. \A t \in DOMAIN db \ DOMAIN new : w[t] = db[t]
    BY WithOld, Zenon
  <1>. HIDE DEF w
  <1>5. Merged(w, db, new)
    BY <1>1, <1>2, <1>3, <1>4 DEF Merged
  <1>. QED  BY <1>5 DEF w

LEMMA TableIsFunction ==
  ASSUME NEW required, NEW optional, NEW unique
  PROVE  Table(required, optional, unique)
           = [c \in DOMAIN Table(required, optional, unique) |-> Table(required, optional, unique)[c]]
  BY DEF Table

\* Functions of one domain and the same values are one.
LEMMA SameFunction ==
  ASSUME NEW f, NEW g, f = [x \in DOMAIN f |-> f[x]], g = [x \in DOMAIN g |-> g[x]],
         DOMAIN f = DOMAIN g, \A x \in DOMAIN f : f[x] = g[x]
  PROVE  f = g
  OBVIOUS

IsTable(u) ==
  /\ u = [c \in DOMAIN u |-> u[c]]
  /\ \A c \in DOMAIN u : u[c] = [null |-> u[c].null, unique |-> u[c].unique]

\* What 2026_01_21 makes of a table of users that 2025_08_17 made.
LEMMA OauthUndone ==
  ASSUME NEW u, IsTable(u), Oauth \cap DOMAIN u = {},
         "hashed_password" \in DOMAIN u, u["hashed_password"].null = FALSE
  PROVE  WithoutOauth(WithOauth(u)) = u
  <1>. DEFINE p == "hashed_password"
              v == [u EXCEPT ![p].null = TRUE]
              w == WithOauth(u)
              x == Without(w, Oauth)
              y == [x EXCEPT ![p].null = FALSE]
              t == Table({}, Oauth, {})
  <1>1. /\ DOMAIN v = DOMAIN u /\ \A c \in DOMAIN u \ {p} : v[c] = u[c]
        /\ v[p] = [u[p] EXCEPT !.null = TRUE]
    BY DEF IsTable
  <1>2. DOMAIN t = Oauth
    BY DEF Table
  <1>3. w = With(v, t)
    BY DEF WithOauth
  <1>. HIDE DEF t, v, w
  <1>4. DOMAIN w = DOMAIN u \cup Oauth /\ \A c \in DOMAIN u : w[c] = v[c]
    <2>1. DOMAIN w = DOMAIN v \cup DOMAIN t /\ \A c \in DOMAIN v \ DOMAIN t : w[c] = v[c]
      BY <1>3 DEF With
    <2>. QED  BY <1>1, <1>2, <2>1
  <1>5. DOMAIN x = DOMAIN u /\ \A c \in DOMAIN u : x[c] = v[c]
    BY <1>4 DEF Without
  <1>6. WithoutOauth(w) = y
    BY DEF WithoutOauth
  <1>. HIDE DEF x
  <1>7. /\ DOMAIN y = DOMAIN u /\ y = [c \in DOMAIN y |-> y[c]]
        /\ \A c \in DOMAIN u \ {p} : y[c] = u[c]
        /\ y[p] = [x[p] EXCEPT !.null = FALSE]
    BY <1>1, <1>5
  <1>8. u[p] = [null |-> FALSE, unique |-> u[p].unique]
    BY DEF IsTable
  <1>9. y[p] = u[p]
    BY <1>1, <1>5, <1>7, <1>8
  <1>. HIDE DEF y
  <1>10. \A c \in DOMAIN u : y[c] = u[c]
    BY <1>7, <1>9
  <1>. QED  BY <1>6, <1>7, <1>10, SameFunction DEF IsTable, w

LEMMA UsersComeBack == WithoutOauth(WithOauth(User1)) = User
  <1>1. User1 = User
    BY DEF User1, User
  <1>2. IsTable(User1)
    BY DEF IsTable, User1, Table
  <1>3. /\ Oauth \cap DOMAIN User1 = {} /\ "hashed_password" \in DOMAIN User1
        /\ User1["hashed_password"].null = FALSE
    <2>1. Oauth \cap DOMAIN User1 = {}
      BY DEF User1, Table, Oauth
    <2>2. "hashed_password" \in DOMAIN User1
      BY DEF User1, Table
    <2>3. User1["hashed_password"] = [null |-> FALSE, unique |-> FALSE]
      BY RequiredColumn DEF User1
    <2>. QED  BY <2>1, <2>2, <2>3
  <1>. QED  BY <1>1, <1>2, <1>3, OauthUndone

\* The log without the content of messages.
LEMMA LogsWithoutContent == WithoutContent(EmailLog1) = EmailLog
  <1>. DEFINE content == {"ai_analysis", "blocked_content", "filtered_content", "original_content", "subject"}
              log == Without(EmailLog1, content)
              blocked == Table({"blocked"}, {}, {})
              new == With(log, blocked)
  <1>1. WithoutContent(EmailLog1) = new
    BY DEF WithoutContent
  <1>2. DOMAIN log = DOMAIN EmailLog1 \ content /\ \A c \in DOMAIN log : log[c] = EmailLog1[c]
    BY DEF Without
  <1>3. DOMAIN blocked = {"blocked"} /\ blocked["blocked"] = [null |-> FALSE, unique |-> FALSE]
    <2>1. DOMAIN blocked = {"blocked"}
      BY DEF Table
    <2>. QED  BY <2>1, RequiredColumn
  <1>. HIDE DEF log, blocked
  <1>4. /\ DOMAIN new = DOMAIN log \cup {"blocked"}
        /\ new = [c \in DOMAIN new |-> new[c]]
        /\ \A c \in DOMAIN log \ {"blocked"} : new[c] = EmailLog1[c]
        /\ new["blocked"] = [null |-> FALSE, unique |-> FALSE]
    <2>1. Merged(new, log, blocked)
      BY WithMerges, Zenon
    <2>. HIDE DEF new
    <2>. QED  BY <1>2, <1>3, <2>1 DEF Merged
  <1>. HIDE DEF new
  <1>5. DOMAIN new = DOMAIN EmailLog
    BY <1>2, <1>4 DEF EmailLog1, EmailLog, Table
  <1>6. "blocked" \in DOMAIN EmailLog /\ EmailLog["blocked"] = [null |-> FALSE, unique |-> FALSE]
    <2>1. "blocked" \in DOMAIN EmailLog
      BY DEF EmailLog, Table
    <2>. QED  BY <2>1, RequiredColumn DEF EmailLog
  <1>7. \A c \in DOMAIN EmailLog \ {"blocked"} : c \in DOMAIN log /\ EmailLog1[c] = EmailLog[c]
    <2>. DEFINE r1 == {"id", "organization", "from_address", "to_addresses", "status", "horsemen_detected",
                     "blocked_content", "received_at", "created_at", "delivery_status"}
                o1 == {"user", "subject", "message_id", "ai_analysis", "toxicity_score",
                       "original_content", "filtered_content", "processing_time_ms",
                       "ai_model_used", "plugin_used", "processed_at", "forwarded_to"}
                r2 == {"id", "organization", "from_address", "to_addresses", "status", "horsemen_detected",
                     "blocked", "received_at", "created_at", "delivery_status"}
                o2 == {"user", "message_id", "toxicity_score", "processing_time_ms", "ai_model_used",
                       "plugin_used", "processed_at", "forwarded_to"}
    <2>1. EmailLog1 = Table(r1, o1, {}) /\ EmailLog = Table(r2, o2, {})
      BY DEF EmailLog1, EmailLog
    <2>2. DOMAIN EmailLog1 = r1 \cup o1 /\ DOMAIN EmailLog = r2 \cup o2
      BY <2>1 DEF Table
    <2>3. \A c \in (r2 \cup o2) \ {"blocked"} : c \in r1 \cup o1 /\ c \notin content
      OBVIOUS
    <2>8. \A c \in (r2 \cup o2) \ {"blocked"} : c \in o1 <=> c \in o2
      OBVIOUS
    <2>. HIDE DEF r1, o1, r2, o2, content
    <2>. SUFFICES ASSUME NEW c \in DOMAIN EmailLog \ {"blocked"}
                  PROVE  c \in DOMAIN log /\ EmailLog1[c] = EmailLog[c]
      OBVIOUS
    <2>4. c \in (r2 \cup o2) \ {"blocked"}
      BY <2>2
    <2>5. c \in r1 \cup o1 /\ c \in r2 \cup o2 /\ c \notin content
      BY <2>3, <2>4
    <2>6. c \in o1 <=> c \in o2
      BY <2>4, <2>8
    <2>7. EmailLog1[c] = EmailLog[c]
      <3>1. ASSUME NEW u  PROVE Table(r1, o1, u)[c] = Table(r2, o2, u)[c]
        BY <2>5, <2>6, SameColumn
      <3>. QED  BY <2>1, <3>1
    <2>. QED  BY <1>2, <2>2, <2>5, <2>7
  <1>8. \A c \in DOMAIN EmailLog : new[c] = EmailLog[c]
    BY <1>4, <1>6, <1>7
  <1>9. EmailLog = [c \in DOMAIN EmailLog |-> EmailLog[c]]
    BY TableIsFunction DEF EmailLog
  <1>. QED  BY <1>1, <1>4, <1>5, <1>8, <1>9, SameFunction

NoTables == [t \in {} |-> {}]
Older1 == After("2025_08_09", NoTables)
Older2 == After("2025_08_14", Older1)
Older3 == After("2025_08_17", Older2)
Older4 == After("2026_01_21", Older3)

LEMMA AfterOf ==
  ASSUME NEW db
  PROVE  /\ After("2025_08_09", db) = With(db, [EmailLog |-> EmailLog1, Organization |-> Organization1,
                                                Subscription |-> Subscription1, User |-> User1])
         /\ After("2025_08_14", db) = With(db, [ShieldAddress |-> ShieldAddress2])
         /\ After("2025_08_17", db) = With(db, [User |-> WithOauth(db["User"])])
         /\ After("2026_01_21", db) =
              With(db, [MessageAnalysis |-> MessageAnalysis4, SenderSummary |-> SenderSummary4,
                        AnalysisJob |-> AnalysisJob4, User |-> WithoutOauth(db["User"]),
                        EmailLog |-> WithoutContent(db["EmailLog"])])
         /\ After("2026_01_29", db) = With(db, Models)
  BY DEF After

\* The four migrations of the older folder make the tables of the models.
LEMMA OlderMakesModels ==
  /\ "User" \in DOMAIN Older1 /\ "User" \in DOMAIN Older2 /\ "User" \in DOMAIN Older3
  /\ Older4 = Models
  <1>1. /\ DOMAIN Older1 = {"EmailLog", "Organization", "Subscription", "User"}
        /\ Older1["EmailLog"] = EmailLog1 /\ Older1["Organization"] = Organization1
        /\ Older1["Subscription"] = Subscription1 /\ Older1["User"] = User1
    <2>. DEFINE made == [EmailLog |-> EmailLog1, Organization |-> Organization1,
                       Subscription |-> Subscription1, User |-> User1]
    <2>1. Older1 = With(NoTables, made)
      BY AfterOf, Zenon DEF Older1
    <2>2. /\ DOMAIN NoTables = {} /\ DOMAIN made = {"EmailLog", "Organization", "Subscription", "User"}
          /\ made["EmailLog"] = EmailLog1 /\ made["Organization"] = Organization1
          /\ made["Subscription"] = Subscription1 /\ made["User"] = User1
      BY DEF NoTables
    <2>. HIDE DEF made
    <2>3. Merged(Older1, NoTables, made)
      BY <2>1, WithMerges, Zenon
    <2>. QED  BY <2>2, <2>3 DEF Merged
  <1>2. /\ DOMAIN Older2 = DOMAIN Older1 \cup {"ShieldAddress"} /\ Older2["ShieldAddress"] = ShieldAddress2
        /\ \A t \in DOMAIN Older1 : Older2[t] = Older1[t]
    <2>. DEFINE made == [ShieldAddress |-> ShieldAddress2]
    <2>1. Older2 = With(Older1, made)
      BY AfterOf, Zenon DEF Older2
    <2>2. DOMAIN made = {"ShieldAddress"} /\ made["ShieldAddress"] = ShieldAddress2
      OBVIOUS
    <2>. HIDE DEF made
    <2>3. Merged(Older2, Older1, made)
      BY <2>1, WithMerges, Zenon
    <2>. QED  BY <1>1, <2>2, <2>3 DEF Merged
  <1>3. /\ DOMAIN Older3 = DOMAIN Older2 /\ Older3["User"] = WithOauth(User1)
        /\ \A t \in DOMAIN Older2 \ {"User"} : Older3[t] = Older2[t]
    <2>. DEFINE made == [User |-> WithOauth(Older2["User"])]
    <2>1. Older3 = With(Older2, made)
      BY AfterOf, Zenon DEF Older3
    <2>2. DOMAIN made = {"User"} /\ made["User"] = WithOauth(User1)
      BY <1>1, <1>2
    <2>. HIDE DEF made
    <2>3. Merged(Older3, Older2, made)
      BY <2>1, WithMerges, Zenon
    <2>. QED  BY <1>1, <1>2, <2>2, <2>3 DEF Merged
  <1>. DEFINE new == [MessageAnalysis |-> MessageAnalysis4, SenderSummary |-> SenderSummary4,
                      AnalysisJob |-> AnalysisJob4, User |-> WithoutOauth(Older3["User"]),
                      EmailLog |-> WithoutContent(Older3["EmailLog"])]
  <1>4. Older4 = With(Older3, new)
    BY AfterOf DEF Older4
  <1>5. /\ DOMAIN new = {"MessageAnalysis", "SenderSummary", "AnalysisJob", "User", "EmailLog"}
        /\ new["MessageAnalysis"] = MessageAnalysis4 /\ new["SenderSummary"] = SenderSummary4
        /\ new["AnalysisJob"] = AnalysisJob4
        /\ new["User"] = User /\ new["EmailLog"] = EmailLog
    BY <1>1, <1>2, <1>3, UsersComeBack, LogsWithoutContent
  <1>. HIDE DEF new
  <1>6. Merged(Older4, Older3, new)
    BY <1>4, WithMerges, Zenon
  <1>7. /\ MessageAnalysis4 = MessageAnalysis /\ SenderSummary4 = SenderSummary
        /\ AnalysisJob4 = AnalysisJob /\ ShieldAddress2 = ShieldAddress
        /\ Organization1 = Organization /\ Subscription1 = Subscription
    BY DEF MessageAnalysis4, MessageAnalysis, SenderSummary4, SenderSummary, AnalysisJob4, AnalysisJob,
           ShieldAddress2, ShieldAddress, Organization1, Organization, Subscription1, Subscription
  <1>8. /\ DOMAIN Older4 = {"EmailLog", "Organization", "Subscription", "User", "ShieldAddress",
                            "MessageAnalysis", "SenderSummary", "AnalysisJob"}
        /\ Older4["EmailLog"] = EmailLog /\ Older4["User"] = User
        /\ Older4["Organization"] = Organization /\ Older4["Subscription"] = Subscription
        /\ Older4["ShieldAddress"] = ShieldAddress /\ Older4["MessageAnalysis"] = MessageAnalysis
        /\ Older4["SenderSummary"] = SenderSummary /\ Older4["AnalysisJob"] = AnalysisJob
    BY <1>1, <1>2, <1>3, <1>5, <1>6, <1>7 DEF Merged
  <1>9. Models = [t \in DOMAIN Models |-> Models[t]] /\ DOMAIN Models = DOMAIN Older4
    BY <1>8 DEF Models
  <1>10. \A t \in DOMAIN Older4 : Older4[t] = Models[t]
    BY <1>8 DEF Models
  <1>11. Older4 = Models
    BY <1>6, <1>9, <1>10, SameFunction DEF Merged
  <1>. QED  BY <1>1, <1>2, <1>3, <1>11

\* What a database has recorded and its tables: as far as it came along the older
\* folder's migrations, or the other's one.
MigrationsInv ==
  /\ folder \in {"older", "models"}
  /\ \/ applied = <<>> /\ tables = NoTables
     \/ applied = <<"2025_08_09">> /\ tables = Older1
     \/ applied = <<"2025_08_09", "2025_08_14">> /\ tables = Older2
     \/ applied = <<"2025_08_09", "2025_08_14", "2025_08_17">> /\ tables = Older3
     \/ applied = <<"2025_08_09", "2025_08_14", "2025_08_17", "2026_01_21">> /\ tables = Models
     \/ applied = <<"2026_01_29">> /\ tables = Models /\ folder = "models"

LEMMA MigrationsInvInit == MigrationsInit => MigrationsInv
  BY DEF MigrationsInit, MigrationsInv, NoTables

\* What is pending, of each folder.
LEMMA PendingModels == ASSUME folder = "models", NEW m, Pending(m) PROVE m = "2026_01_29"
  <1>1. Migrations(folder) = <<"2026_01_29">>
    BY DEF Migrations
  <1>. QED  BY <1>1 DEF Pending

LEMMA PendingOlder ==
  ASSUME folder = "older", NEW m, Pending(m)
  PROVE  /\ ~ Recorded(m)
         /\ \/ m = "2025_08_09"
            \/ m = "2025_08_14" /\ Recorded("2025_08_09")
            \/ m = "2025_08_17" /\ Recorded("2025_08_09") /\ Recorded("2025_08_14")
            \/ m = "2026_01_21" /\ Recorded("2025_08_09") /\ Recorded("2025_08_14") /\ Recorded("2025_08_17")
  <1>. DEFINE older == <<"2025_08_09", "2025_08_14", "2025_08_17", "2026_01_21">>
  <1>1. Migrations(folder) = older
    BY DEF Migrations
  <1>2. /\ older[1] = "2025_08_09" /\ older[2] = "2025_08_14" /\ older[3] = "2025_08_17"
        /\ older[4] = "2026_01_21" /\ DOMAIN older = 1 .. 4
    OBVIOUS
  <1>. HIDE DEF older
  <1>3. PICK i \in 1 .. 4 : /\ m = older[i] /\ ~ Recorded(m)
                            /\ \A j \in 1 .. i - 1 : Recorded(older[j])
    BY <1>1, <1>2 DEF Pending
  <1>4. i = 1 \/ i = 2 \/ i = 3 \/ i = 4
    OBVIOUS
  <1>5. CASE i = 1
    BY <1>2, <1>3, <1>5
  <1>6. CASE i = 2
    <2>1. 1 \in 1 .. i - 1
      BY <1>6
    <2>. QED  BY <1>2, <1>3, <1>6, <2>1
  <1>7. CASE i = 3
    <2>1. 1 \in 1 .. i - 1 /\ 2 \in 1 .. i - 1
      BY <1>7
    <2>. QED  BY <1>2, <1>3, <1>7, <2>1
  <1>8. CASE i = 4
    <2>1. 1 \in 1 .. i - 1 /\ 2 \in 1 .. i - 1 /\ 3 \in 1 .. i - 1
      BY <1>8
    <2>. QED  BY <1>2, <1>3, <1>8, <2>1
  <1>. QED  BY <1>4, <1>5, <1>6, <1>7, <1>8

LEMMA CreatesModels == Creates("2026_01_29") = DOMAIN Models /\ "User" \in DOMAIN Models
  BY Zenon DEF Creates, Models

LEMMA WithNoTables == With(NoTables, Models) = Models
  <1>1. /\ DOMAIN With(NoTables, Models) = DOMAIN Models
        /\ \A t \in DOMAIN Models : With(NoTables, Models)[t] = Models[t]
    BY DEF With, NoTables
  <1>2. With(NoTables, Models) = [t \in DOMAIN With(NoTables, Models) |-> With(NoTables, Models)[t]]
    BY WithIsFunction
  <1>3. Models = [t \in DOMAIN Models |-> Models[t]]
    BY DEF Models
  <1>. QED  BY <1>1, <1>2, <1>3, SameFunction

LEMMA Appended ==
  ASSUME NEW a, NEW b, NEW c, NEW d
  PROVE  /\ Append(<<a>>, b) = <<a, b>>
         /\ Append(<<a, b>>, c) = <<a, b, c>>
         /\ Append(<<a, b, c>>, d) = <<a, b, c, d>>
  <1>. DEFINE T == {a, b, c, d}
              s1 == Append(<<a>>, b)
              s2 == Append(<<a, b>>, c)
              s3 == Append(<<a, b, c>>, d)
  <1>0. a \in T /\ b \in T /\ c \in T /\ d \in T
    OBVIOUS
  <1>. HIDE DEF T
  <1>1. /\ s1 \in Seq(T) /\ Len(s1) = 2 /\ s1[1] = a /\ s1[2] = b
        /\ <<a, b>> \in Seq(T) /\ Len(<<a, b>>) = 2 /\ <<a, b>>[1] = a /\ <<a, b>>[2] = b
    <2>1. <<a>> \in Seq(T)
      BY <1>0
    <2>. QED  BY <1>0, <2>1
  <1>2. /\ s2 \in Seq(T) /\ Len(s2) = 3 /\ s2[1] = a /\ s2[2] = b /\ s2[3] = c
        /\ <<a, b, c>> \in Seq(T) /\ Len(<<a, b, c>>) = 3
        /\ <<a, b, c>>[1] = a /\ <<a, b, c>>[2] = b /\ <<a, b, c>>[3] = c
    BY <1>0, <1>1
  <1>3. /\ s3 \in Seq(T) /\ Len(s3) = 4 /\ s3[1] = a /\ s3[2] = b /\ s3[3] = c /\ s3[4] = d
        /\ <<a, b, c, d>> \in Seq(T) /\ Len(<<a, b, c, d>>) = 4
        /\ <<a, b, c, d>>[1] = a /\ <<a, b, c, d>>[2] = b /\ <<a, b, c, d>>[3] = c
        /\ <<a, b, c, d>>[4] = d
    BY <1>0, <1>2
  <1>4. \A s, t \in Seq(T) :
          /\ Len(s) = 2 /\ Len(t) = 2 /\ s[1] = t[1] /\ s[2] = t[2] => s = t
          /\ Len(s) = 3 /\ Len(t) = 3 /\ s[1] = t[1] /\ s[2] = t[2] /\ s[3] = t[3] => s = t
          /\ Len(s) = 4 /\ Len(t) = 4 /\ s[1] = t[1] /\ s[2] = t[2] /\ s[3] = t[3] /\ s[4] = t[4]
               => s = t
    OBVIOUS
  <1>. HIDE DEF s1, s2, s3
  <1>5. s1 = <<a, b>>
    BY <1>1, <1>4, Zenon
  <1>6. s2 = <<a, b, c>>
    BY <1>2, <1>4, Zenon
  <1>7. s3 = <<a, b, c, d>>
    BY <1>3, <1>4, Zenon
  <1>. QED  BY <1>5, <1>6, <1>7 DEF s1, s2, s3

LEMMA ForwardsAlong == MigrationsInv /\ Forwards => MigrationsInv'
  <1>. SUFFICES ASSUME MigrationsInv, NEW m, Pending(m), Takes(m), applied' = Append(applied, m),
                       tables' = After(m, tables), folder' = folder
                PROVE  MigrationsInv'
    BY DEF Forwards
  <1>1. CASE folder = "models"
    <2>1. m = "2026_01_29" /\ "User" \notin DOMAIN tables
      BY <1>1, PendingModels, CreatesModels DEF Takes
    <2>2. applied = <<>> /\ tables = NoTables
      BY <2>1, OlderMakesModels, CreatesModels DEF MigrationsInv
    <2>3. tables' = Models
      BY <2>1, <2>2, AfterOf, WithNoTables
    <2>4. applied' = <<"2026_01_29">>
      BY <2>1, <2>2
    <2>. QED  BY <1>1, <2>3, <2>4 DEF MigrationsInv
  <1>2. CASE folder = "older"
    <2>. USE DEF Recorded
    <2>1. CASE applied = <<>> /\ tables = NoTables
      <3>1. m = "2025_08_09"
        BY <1>2, <2>1, PendingOlder
      <3>2. applied' = <<"2025_08_09">> /\ tables' = Older1
        BY <2>1, <3>1 DEF Older1
      <3>. QED  BY <1>2, <3>2 DEF MigrationsInv
    <2>2. CASE applied = <<"2025_08_09">> /\ tables = Older1
      <3>1. m = "2025_08_14"
        BY <1>2, <2>2, PendingOlder
      <3>2. applied' = <<"2025_08_09", "2025_08_14">>
        BY <2>2, <3>1, Appended, ZenonT(30)
      <3>3. tables' = Older2
        BY <2>2, <3>1, Zenon DEF Older2
      <3>. QED  BY <1>2, <3>2, <3>3 DEF MigrationsInv
    <2>3. CASE applied = <<"2025_08_09", "2025_08_14">> /\ tables = Older2
      <3>1. m = "2025_08_17"
        BY <1>2, <2>3, PendingOlder
      <3>2. applied' = <<"2025_08_09", "2025_08_14", "2025_08_17">>
        BY <2>3, <3>1, Appended, ZenonT(30)
      <3>3. tables' = Older3
        BY <2>3, <3>1, Zenon DEF Older3
      <3>. QED  BY <1>2, <3>2, <3>3 DEF MigrationsInv
    <2>4. CASE applied = <<"2025_08_09", "2025_08_14", "2025_08_17">> /\ tables = Older3
      <3>1. m = "2026_01_21"
        BY <1>2, <2>4, PendingOlder
      <3>2. applied' = <<"2025_08_09", "2025_08_14", "2025_08_17", "2026_01_21">>
        BY <2>4, <3>1, Appended, ZenonT(30)
      <3>3. tables' = Older4
        BY <2>4, <3>1, Zenon DEF Older4
      <3>. QED  BY <1>2, <3>2, <3>3, OlderMakesModels DEF MigrationsInv
    <2>5. CASE /\ applied = <<"2025_08_09", "2025_08_14", "2025_08_17", "2026_01_21">>
               /\ tables = Models
      BY <1>2, <2>5, PendingOlder
    <2>. QED  BY <1>2, <2>1, <2>2, <2>3, <2>4, <2>5 DEF MigrationsInv
  <1>. QED  BY <1>1, <1>2 DEF MigrationsInv

LEMMA MigrationsInvNext == MigrationsInv /\ [MigrationsNext]_migrationVars => MigrationsInv'
  <1>. SUFFICES ASSUME MigrationsInv, [MigrationsNext]_migrationVars  PROVE MigrationsInv'
    OBVIOUS
  <1>1. CASE Forwards
    BY <1>1, ForwardsAlong
  <1>2. CASE UNCHANGED <<applied, tables>> /\ folder' \in {folder, "models"}
    BY <1>2 DEF MigrationsInv
  <1>. QED  BY <1>1, <1>2 DEF MigrationsNext, Upgrade, SignUpWithoutPassword, PasswordsSet, migrationVars

LEMMA MigrationsMeet == MigrationsInv => HistoriesMeet
  <1>. SUFFICES ASSUME MigrationsInv  PROVE HistoriesMeet
    OBVIOUS
  <1>1. EitherHistoryGivesTheModels
    BY DEF MigrationsInv, EitherHistoryGivesTheModels, Recorded
  <1>2. Recorded("2025_08_09") => "User" \in DOMAIN tables /\ ~ Recorded("2026_01_29")
    BY OlderMakesModels, CreatesModels DEF MigrationsInv, Recorded
  <1>3. OlderStaysBehind
    BY <1>2, CreatesModels DEF OlderStaysBehind, Takes
  <1>. QED  BY <1>1, <1>3 DEF HistoriesMeet

\* A database comes to the tables of the models by all migrations of either folder, and
\* one that an earlier release made never takes the folder's now in use, whenever its
\* migrations run, fail on rows without a password and run again.
THEOREM HistoriesAlwaysMeet == Spec => []HistoriesMeet
  <1>1. Init => MigrationsInv
    BY MigrationsInvInit DEF Init
  <1>2. MigrationsInv /\ [Next]_deploymentVars => MigrationsInv'
    <2>1. [Next]_deploymentVars => [MigrationsNext]_migrationVars
      BY DEF Next, StartupStep, ConfigStep, SchemaStep, deploymentVars
    <2>. QED  BY <2>1, MigrationsInvNext
  <1>. QED  BY <1>1, <1>2, MigrationsMeet, PTL DEF Spec
===============================================================================
