----------------------------- MODULE MCAccounts -----------------------------
(***************************************************************************)
(* Accounts, tokens and billing for TLC.                                   *)
(***************************************************************************)
EXTENDS Billing

Nothing == [x \in {} |-> NoRow]

Quick == [users |-> Nothing, subs |-> Nothing, events |-> 0, tokens |-> FALSE, most |-> 0, kinds |-> {}]

Customer == [NoRow EXCEPT !.email = "e1", !.name = "u1", !.customer = "c1"]

\* Registrations of every version beside each other and beside log-ins; sessions
\* of a user; and subscription events of two customers beside a log-in.
MCCampaigns ==
  {[Quick EXCEPT !.most = 3, !.kinds = Versions \cup {"additional"}],
   [Quick EXCEPT !.users = [u \in {"u1"} |-> Customer], !.tokens = TRUE],
   [Quick EXCEPT !.users = [u \in {"u1"} |-> Customer],
                 !.subs = [s \in {"s1"} |-> [NoSub EXCEPT !.customer = "c1", !.status = "trialing"]],
                 !.events = 2, !.most = 4, !.kinds = {"stripe", "authenticate"}]}
=============================================================================
