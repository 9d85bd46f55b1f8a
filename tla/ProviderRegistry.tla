--------------------------- MODULE ProviderRegistry ---------------------------
(***************************************************************************)
(* providers/registry.py: the process has one registry at a time. A        *)
(* registry is made for a license key and keeps the provider it made last  *)
(* of each name.                                                           *)
(***************************************************************************)
EXTENDS Integers, Sequences

CONSTANTS
  Keys,           \* license keys, one per kind of prefix
  Settings,       \* provider configurations
  MaxInstances    \* bound: providers made in one behaviour

VARIABLES
  registry,       \* its key, what it loaded, and how many providers were made before it
  instances       \* providers made: name, license they were made under, what became of initialize

registryVars == <<registry, instances>>

Absent == "none"
Providers == {"gmail", "smtp", "postmark"}
Required(name) == IF name = "postmark" THEN "commercial" ELSE "open_source"

\* _determine_license_type: the prefix of the key; any other key is worth nothing.
LicenseType(key) ==
  CASE key = "ENT" -> "enterprise" [] key = "COM" -> "commercial" [] OTHER -> "open_source"

IsProviderLicensed(required, license) ==
  \/ required = "open_source"
  \/ license = "enterprise"
  \/ license = "commercial" /\ required \in {"commercial", "open_source"}

GetAvailableProviders ==
  {name \in Providers : IsProviderLicensed(Required(name), LicenseType(registry.key))}

Fresh(key) == [key |-> key, loaded |-> [name \in {} |-> 0], since |-> Len(instances)]
RegistryInit == instances = <<>> /\ registry = Fresh(Absent)

\* get_provider_registry with a key makes a new registry, even for the same key.
GetProviderRegistry(key) ==
  registry' = Fresh(key) /\ UNCHANGED instances

\* The newest provider made is the one loaded under its name.
LoadedWith(name) ==
  [other \in DOMAIN registry.loaded \cup {name} |->
     IF other = name THEN Len(instances) + 1 ELSE registry.loaded[other]]

\* get_provider without a configuration: the loaded instance, or a new one that
\* nothing initialised.
GetProvider(name) ==
  /\ name \in GetAvailableProviders /\ name \notin DOMAIN registry.loaded
  /\ Len(instances) < MaxInstances
  /\ instances' = Append(instances, [name |-> name, key |-> registry.key, state |-> "bare"])
  /\ registry' = [registry EXCEPT !.loaded = LoadedWith(name)]

(***************************************************************************)
(* get_provider with a configuration makes another instance. initialize is *)
(* a coroutine and is run with run_until_complete, which raises when the   *)
(* caller runs in the event loop, as every handler of the application does;*)
(* it raises too for a configuration that lacks something.                 *)
(***************************************************************************)
\* Seeded fault: the instance is kept before it is initialised.
GetConfiguredEarly(name, setting, inLoop) ==
  /\ name \in GetAvailableProviders /\ Len(instances) < MaxInstances
  /\ instances' = Append(instances, [name |-> name, key |-> registry.key,
                       state |-> IF ~inLoop /\ setting = "complete" THEN "initialised" ELSE "failed"])
  /\ registry' = [registry EXCEPT !.loaded = LoadedWith(name)]
GetConfigured(name, setting, inLoop) ==
  /\ name \in GetAvailableProviders /\ Len(instances) < MaxInstances
  /\ LET good == ~inLoop /\ setting = "complete"
         made == [name |-> name, key |-> registry.key,
                  state |-> IF good THEN "initialised" ELSE "failed"]
     IN /\ instances' = Append(instances, made)
        /\ registry' = IF good
                       THEN [registry EXCEPT !.loaded = LoadedWith(name)] ELSE registry

RegistryNext ==
  \/ \E key \in Keys : GetProviderRegistry(key)
  \/ \E name \in Providers : GetProvider(name)
  \/ \E name \in Providers, s \in Settings, inLoop \in BOOLEAN : GetConfigured(name, s, inLoop)

(***************************************************************************)
(* Properties.                                                             *)
(***************************************************************************)

\* Whatever the keys were before, a provider the registry hands out is licensed
\* under the key it has now: nothing loaded under a better license outlives it
\* (get_provider_registry and get_provider's cache).
LoadedIsLicensed ==
  \A name \in DOMAIN registry.loaded :
    IsProviderLicensed(Required(name), LicenseType(registry.key))

\* The provider handed out without a configuration is neither one whose
\* initialisation failed nor one that a configuration has replaced since, and one
\* that nothing initialised is handed out only while this registry has initialised
\* none of its name. The documented return value, an initialised provider, is more
\* than that (get_provider, registry.py:103-150).
LatestIsKept ==
  \A name \in DOMAIN registry.loaded :
    LET i == registry.loaded[name]
        others == {j \in DOMAIN instances : instances[j].name = name /\ j # i}
    IN /\ instances[i].name = name /\ instances[i].state # "failed"
       /\ \A j \in others : j > i => instances[j].state = "failed"
       /\ instances[i].state = "bare" =>
            \A j \in others : j > registry.since => instances[j].state = "failed"

\* What the registry hands out fits the key it has now and the latest configuration
\* that could be applied (registry.py:93-150).
RegistryUpToDate == LoadedIsLicensed /\ LatestIsKept
=============================================================================
