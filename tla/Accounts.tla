------------------------------ MODULE Accounts ------------------------------
(***************************************************************************)
(* Users and their shield addresses: services/auth_service.py and          *)
(* routes/auth.py, features/user_accounts, services/user_service.py and    *)
(* the models User and ShieldAddress. A handler is a sequence of database  *)
(* statements with other handlers' statements in between; a save writes    *)
(* the whole row as the handler read it. The database keeps email          *)
(* addresses, user names and shield addresses unique.                      *)
(***************************************************************************)
EXTENDS Tokens

CONSTANTS
  Emails,
  Names,          \* user names made of an address and a random number
  Customers,      \* Stripe customers
  Addresses,      \* shield addresses with an id of their own
  Procs,          \* handlers that may be under way at once
  None

ASSUME AccountAssumption ==
  /\ Names \cap UserIds = {} /\ None \notin UserIds \cup Emails \cup Customers
  /\ IsFiniteSet(Procs) /\ NoToken \notin TokensOf(UserIds \cup {None})

VARIABLES
  users,          \* user id -> row; a row without an email is not there
  shields,        \* rows of shield_addresses
  procs,          \* handlers
  registered      \* history: <<user, handler>> whose registration was answered with success

accountVars == <<users, shields, procs, registered>>

NoRow == [email |-> None, name |-> None, status |-> "free", customer |-> None,
          active |-> TRUE, logins |-> 0]

There(u) == users[u].email # None

\* A handler: what it does, its next statement, and what it has read.
Idle == [kind |-> "idle", step |-> "none", user |-> None, row |-> NoRow, address |-> None,
         event |-> None, sub |-> None]

AccountInit ==
  /\ shields = {}
  /\ procs = [p \in Procs |-> Idle]
  /\ registered = {}

Busy(p, kind, step) == procs[p].kind = kind /\ procs[p].step = step
Free(p) == procs' = [procs EXCEPT ![p] = Idle]
Goto(p, step) == procs' = [procs EXCEPT ![p].step = step]

\* Any statement may fail; the handler then answers with an error, and what it
\* wrote before stays.
StatementFails(p) ==
  /\ procs[p].kind # "idle"
  /\ Free(p)
  /\ UNCHANGED <<users, shields, registered, tokenVars>>
-----------------------------------------------------------------------------
\* Registration, in its three versions: the route's, user_accounts' and
\* user_service's.

Versions == {"route", "accounts", "service"}

\* The first statement: is the address taken?
BeginRegister(p, version, e) ==
  /\ procs[p] = Idle
  /\ \A u \in UserIds : users[u].email # e
  /\ \E u \in UserIds :
       /\ ~There(u)
       /\ \E n \in IF version = "route" THEN Names ELSE {u} :
            procs' = [procs EXCEPT ![p] = [Idle EXCEPT
                        !.kind = version, !.step = "insert", !.user = u,
                        !.row = [NoRow EXCEPT !.email = e, !.name = n]]]
  /\ UNCHANGED <<users, shields, registered, tokenVars>>

NoConstraint(row) == TRUE   \* seeded fault: the table has no unique columns

Unique(row) == \A u \in UserIds : There(u) => users[u].email # row.email /\ users[u].name # row.name

InsertUser(p) ==
  /\ procs[p].step = "insert"
  /\ IF Unique(procs[p].row) /\ ~There(procs[p].user)
     THEN /\ users' = [users EXCEPT ![procs[p].user] = procs[p].row]
          /\ Goto(p, CASE procs[p].kind = "route" -> "customer"
                       [] procs[p].kind = "accounts" -> "find_user"
                       [] procs[p].kind = "service" -> "shield")
     ELSE Free(p) /\ UNCHANGED users
  /\ UNCHANGED <<shields, registered, tokenVars>>

\* The route makes a Stripe customer, and saves the row it has held all along.
CreateCustomer(p) ==
  /\ Busy(p, "route", "customer")
  /\ \E c \in Customers :
       /\ \A u \in UserIds : users[u].customer # c
       /\ \A q \in Procs : procs[q].row.customer # c
       /\ procs' = [procs EXCEPT ![p].row.customer = c, ![p].step = "save"]
  /\ UNCHANGED <<users, shields, registered, tokenVars>>

SaveCustomer(p) ==
  /\ Busy(p, "route", "save")
  /\ users' = [users EXCEPT ![procs[p].user] = procs[p].row]
  /\ registered' = registered \cup {<<procs[p].user, "route">>}
  /\ Free(p)
  /\ UNCHANGED <<shields, tokenVars>>

\* user_accounts looks the new user up before it makes an address for it.
FindNewUser(p) ==
  /\ Busy(p, "accounts", "find_user")
  /\ IF There(procs[p].user) THEN Goto(p, "shield") ELSE Free(p)
  /\ UNCHANGED <<users, shields, registered, tokenVars>>

\* create_for_user: a new id is looked for until one is free.
NewShield(u, a) == [address |-> a, user |-> u, active |-> TRUE]
Unused(a) == \A s \in shields : s.address # a

\* Seeded fault: success is answered before the address is saved.
AnswersFirst(p) ==
  /\ procs[p].step = "shield"
  /\ registered' = registered \cup {<<procs[p].user, procs[p].kind>>}
  /\ Free(p)
  /\ UNCHANGED <<users, shields, tokenVars>>

SaveShield(p) ==
  /\ procs[p].step = "shield"
  /\ \E a \in Addresses :
       /\ Unused(a)
       /\ shields' = shields \cup {NewShield(procs[p].user, a)}
  /\ registered' = IF procs[p].kind = "additional" THEN registered
                   ELSE registered \cup {<<procs[p].user, procs[p].kind>>}
  /\ IF procs[p].kind = "accounts" THEN IssuePair(procs[p].user) ELSE UNCHANGED tokenVars
  /\ Free(p)
  /\ UNCHANGED users

\* create_additional_shield, and create_shield_address, of any user that is active.
BeginAdditional(p, u) ==
  /\ procs[p] = Idle
  /\ There(u) /\ users[u].active
  /\ procs' = [procs EXCEPT ![p] = [Idle EXCEPT !.kind = "additional", !.step = "shield", !.user = u]]
  /\ UNCHANGED <<users, shields, registered, tokenVars>>
-----------------------------------------------------------------------------
\* Logging in. The route saves nothing and does not ask whether the account is
\* active; authenticate_user does both.

LoginUser(u) ==
  /\ There(u)
  /\ IssuePair(u)
  /\ UNCHANGED accountVars

BeginAuthenticate(p, u) ==
  /\ procs[p] = Idle
  /\ There(u) /\ users[u].active
  /\ procs' = [procs EXCEPT ![p] = [Idle EXCEPT
                 !.kind = "authenticate", !.step = "save", !.user = u,
                 !.row = [users[u] EXCEPT !.logins = 1]]]
  /\ UNCHANGED <<users, shields, registered, tokenVars>>

SaveLogin(p) ==
  /\ Busy(p, "authenticate", "save")
  /\ users' = [users EXCEPT ![procs[p].user] = procs[p].row]
  /\ IssuePair(procs[p].user)
  /\ Free(p)
  /\ UNCHANGED <<shields, registered>>

\* Nothing in src/ deactivates a user: it is done in the database.
Deactivate(u) ==
  /\ There(u) /\ users[u].active
  /\ users' = [users EXCEPT ![u].active = FALSE]
  /\ UNCHANGED <<shields, procs, registered, tokenVars>>

\* ShieldAddress.deactivate. deactivate_user_shields never comes to call it: what
\* it selects are dictionaries, the first of which has no such method, and the
\* error is answered with a count of 0.
DeactivateShield(s) ==
  /\ s.active
  /\ shields' = (shields \ {s}) \cup {[s EXCEPT !.active = FALSE]}
  /\ UNCHANGED <<users, procs, registered, tokenVars>>

AccountStep ==
  \/ \E p \in Procs : \/ \E v \in Versions, e \in Emails : BeginRegister(p, v, e)
                      \/ InsertUser(p) \/ CreateCustomer(p) \/ SaveCustomer(p)
                      \/ FindNewUser(p) \/ SaveShield(p) \/ SaveLogin(p)
                      \/ \E u \in UserIds : BeginAdditional(p, u) \/ BeginAuthenticate(p, u)
  \/ \E u \in UserIds : Deactivate(u)
  \/ \E s \in shields : DeactivateShield(s)
-----------------------------------------------------------------------------
\* Where mail for an address goes: get_user_by_shield_address, whose three
\* lookups are by user name, by active address and by active address again, and
\* EmailRoutingService around it.

IsUserName(x) == \E u \in UserIds : There(u) /\ users[u].active /\ users[u].name = x

GetUserByShieldAddress(x) ==
  IF IsUserName(x) THEN {u \in UserIds : There(u) /\ users[u].active /\ users[u].name = x}
  ELSE {u \in UserIds : /\ There(u) /\ users[u].active
                        /\ \E s \in shields : s.address = x /\ s.active /\ s.user = u}

RouteEmail(domainFits, x) ==
  CASE ~domainFits -> "INVALID_DOMAIN"
    [] domainFits /\ GetUserByShieldAddress(x) = {} -> "USER_NOT_FOUND"
    [] domainFits /\ GetUserByShieldAddress(x) # {} -> "routed"
-----------------------------------------------------------------------------
\* What has to hold.

\* Two registrations that both found the address free leave one account; no two
\* rows share an email address or a user name, no two shields an address, and
\* mail for any address has at most one receiver (user_service.py:42-91).
OneOwnerEach ==
  /\ \A u, v \in UserIds : (There(u) /\ There(v) /\ u # v) =>
       users[u].email # users[v].email /\ users[u].name # users[v].name
  /\ \A s, t \in shields : s.address = t.address => s = t
  /\ \A x \in Names \cup UserIds \cup Addresses : Cardinality(GetUserByShieldAddress(x)) <= 1

\* A registration that was answered with success has left its user, and mail can
\* reach it: by its user name, and by an address of its own in the versions that
\* make one, which is there even if it was deactivated since. Every shield
\* belongs to a user that is there (user_accounts/service.py:30-119).
SuccessIsComplete ==
  /\ \A r \in registered :
       /\ There(r[1])
       /\ r[2] # "route" => \E s \in shields : s.user = r[1]
       /\ users[r[1]].active => RouteEmail(TRUE, users[r[1]].name) = "routed"
  /\ \A s \in shields : There(s.user)
=============================================================================
