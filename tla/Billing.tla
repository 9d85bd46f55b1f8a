------------------------------ MODULE Billing ------------------------------
(***************************************************************************)
(* routes/stripe_webhooks.py beside the account handlers. Stripe repeats   *)
(* an event until a call is answered with success, and promises no order.  *)
(* A handler saves the subscription's row and then the user's, each whole  *)
(* and as it read it, so the two may come to disagree. The module is the   *)
(* system of accounts, tokens and billing.                                 *)
(***************************************************************************)
EXTENDS Accounts, Sequences

CONSTANTS
  SubIds,         \* Stripe subscriptions
  Statuses,       \* statuses an update reports
  Campaigns       \* a behaviour's rows at the start, kinds of handlers and bounds

VARIABLES
  subs,           \* Stripe subscription -> row; one without a customer is not there
  sent,           \* events Stripe has sent, oldest first
  repaired,       \* history: the newest event of its subscription, if it was just handled alone
  campaign,
  begun           \* handlers that have begun

billingVars == <<subs, sent, repaired>>
vars == <<tokenVars, accountVars, billingVars, campaign, begun>>

AllStatuses == {"free", "trialing", "active", "past_due", "canceled"} \cup Statuses
Rows == [email : Emails \cup {None}, name : Names \cup UserIds \cup {None}, status : AllStatuses,
         customer : Customers \cup {None}, active : BOOLEAN, logins : 0 .. 1]
SubRows == [customer : Customers \cup {None}, status : AllStatuses \cup {None},
            active : BOOLEAN, canceled : BOOLEAN]

\* The tables a behaviour begins with keep the database's constraints.
ASSUME CampaignAssumption ==
  \A c \in Campaigns :
    /\ c.users \in [DOMAIN c.users -> Rows] /\ c.subs \in [DOMAIN c.subs -> SubRows]
    /\ c.events \in Nat /\ c.most \in Nat
    /\ \A u \in DOMAIN c.users : c.users[u].email # None
    /\ \A u, v \in DOMAIN c.users : u # v =>
         /\ c.users[u].email # c.users[v].email /\ c.users[u].name # c.users[v].name
         /\ c.users[u].customer # None => c.users[u].customer # c.users[v].customer

NoSub == [customer |-> None, status |-> None, active |-> TRUE, canceled |-> FALSE]
Known(s) == subs[s].customer # None

\* The user found by a customer id.
OfCustomer(c) == {u \in UserIds : There(u) /\ users[u].customer = c}

Quiet == \A p \in Procs : procs[p] = Idle

\* The database may hold a user with a subscription when the process starts.
Init ==
  /\ TokenInit
  /\ AccountInit
  /\ campaign \in Campaigns /\ begun = 0
  /\ users = [u \in UserIds |-> IF u \in DOMAIN campaign.users THEN campaign.users[u] ELSE NoRow]
  /\ subs = [s \in SubIds |-> IF s \in DOMAIN campaign.subs THEN campaign.subs[s] ELSE NoSub]
  /\ sent = <<>>
  /\ repaired = None
-----------------------------------------------------------------------------
\* Stripe.

Event(type, s, c, st) == [type |-> type, sub |-> s, customer |-> c, status |-> st]

Send(s, c) ==
  /\ Len(sent) < campaign.events
  /\ \E e \in {Event("created", s, c, "trialing"), Event("deleted", s, c, "canceled"),
               Event("payment_failed", s, c, "past_due"), Event("payment_succeeded", s, c, "active")}
              \cup {Event("updated", s, c, st) : st \in Statuses} :
       sent' = Append(sent, e)
  /\ repaired' = None
  /\ UNCHANGED <<tokenVars, accountVars, subs>>

Newest(i) == \A j \in DOMAIN sent : j > i => sent[j].sub # sent[i].sub

\* A handler that began when no other was under way notes how many had begun.
Begin(p, i, step, u, row, sub) ==
  procs' = [procs EXCEPT ![p] = [Idle EXCEPT
              !.kind = "stripe", !.step = step, !.user = u, !.row = row,
              !.event = [index |-> i, alone |-> IF Quiet THEN begun + 1 ELSE 0], !.sub = sub]]

EventOf(p) == sent[procs[p].event.index]

\* Nothing newer was sent of the subscription, and no handler ran beside this one.
Handled(p) ==
  repaired' = IF procs[p].event.alone = begun /\ Newest(procs[p].event.index)
              THEN EventOf(p) ELSE None

\* Customers are told of once per handler: the first found, if any.
Lookup(c) == IF OfCustomer(c) = {} THEN {None} ELSE OfCustomer(c)

\* _handle_subscription_created: the handler of a customer that is known asks the
\* user for an attribute it does not have, and fails before it writes anything.
\* _handle_payment_succeeded only writes to the log.
HandleWithoutEffect(i) ==
  /\ sent[i].type \in {"created", "payment_succeeded"}
  /\ repaired' = None
  /\ UNCHANGED <<tokenVars, accountVars, subs, sent>>

\* _handle_payment_failed: the user is read, then saved.
BeginPaymentFailed(p, i) ==
  /\ procs[p] = Idle /\ sent[i].type = "payment_failed"
  /\ \E u \in Lookup(sent[i].customer) :
       IF u = None THEN UNCHANGED procs
       ELSE Begin(p, i, "save_user", u, [users[u] EXCEPT !.status = "past_due"], None)
  /\ repaired' = None
  /\ UNCHANGED <<tokenVars, users, shields, registered, subs, sent>>

\* _handle_subscription_updated and _deleted: a row that is not there is nothing
\* to do; otherwise it is read, saved, and then the user is read.
Changed(row, e) ==
  IF e.type = "updated" THEN [row EXCEPT !.status = e.status]
  ELSE [row EXCEPT !.status = "canceled", !.active = FALSE, !.canceled = TRUE]

\* Seeded fault: an event that changes nothing in the subscription's row is
\* taken for one that was handled.
BeginIfChanged(p, i) ==
  /\ procs[p] = Idle /\ sent[i].type \in {"updated", "deleted"}
  /\ IF Known(sent[i].sub)
     THEN IF Changed(subs[sent[i].sub], sent[i]) = subs[sent[i].sub]
          THEN repaired' = sent[i] /\ UNCHANGED procs
          ELSE /\ Begin(p, i, "save_sub", None, NoRow, Changed(subs[sent[i].sub], sent[i]))
               /\ repaired' = None
     ELSE UNCHANGED <<procs, repaired>>
  /\ UNCHANGED <<tokenVars, users, shields, registered, subs, sent>>

BeginChange(p, i) ==
  /\ procs[p] = Idle /\ sent[i].type \in {"updated", "deleted"}
  /\ IF Known(sent[i].sub)
     THEN Begin(p, i, "save_sub", None, NoRow, Changed(subs[sent[i].sub], sent[i]))
     ELSE UNCHANGED procs
  /\ repaired' = None
  /\ UNCHANGED <<tokenVars, users, shields, registered, subs, sent>>

SaveSub(p) ==
  /\ Busy(p, "stripe", "save_sub")
  /\ subs' = [subs EXCEPT ![EventOf(p).sub] = procs[p].sub]
  /\ Goto(p, "find_user")
  /\ repaired' = None
  /\ UNCHANGED <<tokenVars, users, shields, registered, sent>>

FindUser(p) ==
  /\ Busy(p, "stripe", "find_user")
  /\ \E u \in Lookup(EventOf(p).customer) :
       IF u = None THEN Free(p)
       ELSE procs' = [procs EXCEPT ![p].step = "save_user", ![p].user = u,
                                   ![p].row = [users[u] EXCEPT !.status = EventOf(p).status]]
  /\ IF Lookup(EventOf(p).customer) = {None} THEN Handled(p) ELSE repaired' = None
  /\ UNCHANGED <<tokenVars, users, shields, registered, subs, sent>>

SaveUser(p) ==
  /\ Busy(p, "stripe", "save_user")
  /\ users' = [users EXCEPT ![procs[p].user] = procs[p].row]
  /\ Handled(p)
  /\ Free(p)
  /\ UNCHANGED <<tokenVars, shields, registered, subs, sent>>
-----------------------------------------------------------------------------
\* The system.

\* What was logged out is forgotten, and handlers stop between two statements.
Crash ==
  /\ procs' = [p \in Procs |-> Idle]
  /\ LoseBlacklist
  /\ repaired' = None
  /\ UNCHANGED <<users, shields, registered, subs, sent>>

BillingStep ==
  \/ \E s \in SubIds, c \in Customers : Send(s, c)
  \/ \E i \in DOMAIN sent : HandleWithoutEffect(i)
  \/ \E p \in Procs, i \in DOMAIN sent : BeginPaymentFailed(p, i) \/ BeginChange(p, i)
  \/ \E p \in Procs : SaveSub(p) \/ FindUser(p) \/ SaveUser(p)

\* A behaviour's campaign bounds how many handlers of which kinds begin.
Next ==
  /\ \/ AccountStep /\ repaired' = None /\ UNCHANGED <<subs, sent>>
     \/ \E p \in Procs : StatementFails(p) /\ repaired' = None /\ UNCHANGED <<subs, sent>>
     \/ /\ campaign.tokens
        /\ TokenStep \/ \E u \in UserIds : LoginUser(u)
        /\ repaired' = None /\ UNCHANGED <<accountVars, subs, sent>>
     \/ BillingStep
     \/ Crash
  /\ begun' = begun + Cardinality({p \in Procs : procs[p] = Idle /\ procs'[p] # Idle})
  /\ begun' <= campaign.most
  /\ \A p \in Procs : procs'[p].kind \in campaign.kinds \cup {"idle"}
  /\ UNCHANGED campaign

Spec == Init /\ [][Next]_vars
-----------------------------------------------------------------------------
\* Repeating an event repairs: whatever was lost, reordered, written over or cut
\* off before, once the newest event of a subscription is handled without another
\* handler beside it, subscription and user say what the event says, and an ended
\* subscription is marked so (stripe_webhooks.py:90-155).
RedeliveryRepairs ==
  repaired # None =>
    /\ \A u \in OfCustomer(repaired.customer) : users[u].status = repaired.status
    /\ repaired.type # "payment_failed" => subs[repaired.sub].status = repaired.status
    /\ repaired.type = "deleted" =>
         ~subs[repaired.sub].active /\ subs[repaired.sub].canceled
=============================================================================
