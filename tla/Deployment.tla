------------------------------ MODULE Deployment ------------------------------
(***************************************************************************)
(* What surrounds a running program: its start, the configuration objects  *)
(* of a deployment, and its database's schema. They share no state, and a  *)
(* behaviour exercises one of them.                                        *)
(***************************************************************************)
EXTENDS Startup, ProductionConfig, Migrations

CONSTANT Parts        \* what behaviours exercise

VARIABLE part

deploymentVars == <<startupVars, configVars, migrationVars, part>>

Idle(environment) == environment.on = {} /\ environment.method = "other"
                     /\ environment.secret = "common" /\ environment.database = "own"

Init ==
  /\ part \in Parts
  /\ StartupInit /\ ConfigInit /\ MigrationsInit
  /\ part # "startup" => Idle(env)
  /\ part # "config" => file = CHOOSE data \in Given : TRUE
  /\ part # "config" => vars = CHOOSE v \in GivenVars : TRUE
  /\ part # "schema" => folder = "models"

StartupStep ==
  /\ part = "startup" /\ StartupNext /\ UNCHANGED <<configVars, migrationVars, part>>
ConfigStep ==
  /\ part = "config" /\ ConfigNext /\ UNCHANGED <<startupVars, migrationVars, part>>
SchemaStep ==
  /\ part = "schema" /\ MigrationsNext /\ UNCHANGED <<startupVars, configVars, part>>

Next == StartupStep \/ ConfigStep \/ SchemaStep

Spec == Init /\ [][Next]_deploymentVars

=============================================================================
