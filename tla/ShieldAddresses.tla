--------------------------- MODULE ShieldAddresses ---------------------------
(***************************************************************************)
(* features/shield_addresses: a ShieldAddressManager is an in-memory table *)
(* of its own, filled with demonstration addresses when it is made, and    *)
(* gone with its owner. Several are alive at a time.                       *)
(***************************************************************************)
EXTENDS Integers, Functions

CONSTANTS
  Demo,           \* addresses every manager begins with
  Created,        \* addresses that may be created
  MaxChanges      \* bound: creations and deactivations
ASSUME ShieldAssumption == Demo \cap Created = {} /\ MaxChanges \in Nat

VARIABLES
  tables,         \* long-lived manager -> address -> entry
  changes         \* creations and deactivations so far

shieldVars == <<tables, changes>>

\* The SMTP server's handler and the Gmail controller keep a manager.
Managers == {"smtp", "gmail"}
Entry == [active |-> TRUE, used |-> FALSE]
InitializeDemoData == [a \in Demo |-> Entry]

ShieldsInit == tables = [m \in Managers |-> InitializeDemoData] /\ changes = 0

LookupUser(table, a) == a \in DOMAIN table /\ table[a].active

\* lookup_user_by_shield_address notes the use of what it finds.
Used(m, a) == [tables EXCEPT ![m] = [b \in DOMAIN @ |->
                 IF b = a /\ @[b].active THEN [@[b] EXCEPT !.used = TRUE] ELSE @[b]]]

CreateShieldAddress(m, a) ==
  /\ changes < MaxChanges /\ \A n \in Managers : a \notin DOMAIN tables[n]
  /\ tables' = [tables EXCEPT ![m] = [b \in DOMAIN @ \cup {a} |-> IF b = a THEN Entry ELSE @[b]]]
  /\ changes' = changes + 1

DeactivateShieldAddress(m, a) ==
  /\ changes < MaxChanges /\ LookupUser(tables[m], a)
  /\ tables' = [tables EXCEPT ![m] = [b \in DOMAIN @ |->
                  IF b = a THEN [@[b] EXCEPT !.active = FALSE] ELSE @[b]]]
  /\ changes' = changes + 1

ShieldsNext ==
  \E m \in Managers, a \in Demo \cup Created :
    CreateShieldAddress(m, a) \/ DeactivateShieldAddress(m, a)
=============================================================================
