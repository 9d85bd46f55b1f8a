---------------------------- MODULE AccountsProofs ----------------------------
(***************************************************************************)
(* Theorems about Billing, the system of accounts, tokens and subscription *)
(* events, for any number of users, tokens, handlers and events.           *)
(***************************************************************************)
EXTENDS Billing, FiniteSetTheorems, TLAPS

-----------------------------------------------------------------------------
(* The types of what handlers read and write.                              *)

Owners == UserIds \cup {None}
Handlers ==
  [kind : {"idle", "route", "accounts", "service", "additional", "authenticate", "stripe"},
   step : {"none", "insert", "customer", "save", "find_user", "shield", "save_sub", "save_user"},
   user : Owners, row : Rows, address : {None},
   event : [index : Nat, alone : Nat] \cup {None}, sub : SubRows \cup {None}]
Events == [type : {"created", "deleted", "payment_failed", "payment_succeeded", "updated"},
           sub : SubIds, customer : Customers, status : AllStatuses]
Shields == [address : Addresses, user : UserIds, active : BOOLEAN]

AccountsType ==
  /\ users \in [UserIds -> Rows]
  /\ procs \in [Procs -> Handlers]
  /\ subs \in [SubIds -> SubRows]
  /\ sent \in Seq(Events)
  /\ begun \in Nat

LEMMA NoRowType == NoRow \in Rows /\ NoRow.email = None /\ NoRow.customer = None
  BY DEF NoRow, Rows, AllStatuses

LEMMA IdleType == Idle \in Handlers /\ Idle.kind = "idle" /\ Idle.step = "none" /\ Idle.user = None
                  /\ Idle.row = NoRow
  BY NoRowType DEF Idle, Handlers, Owners

LEMMA AccountsTypeInit == Init => AccountsType
  <1>. SUFFICES ASSUME Init  PROVE AccountsType
    OBVIOUS
  <1>1. users \in [UserIds -> Rows]
    BY NoRowType, CampaignAssumption DEF Init
  <1>2. NoSub \in SubRows
    BY DEF NoSub, SubRows
  <1>3. subs \in [SubIds -> SubRows]
    BY <1>2, CampaignAssumption DEF Init
  <1>4. procs \in [Procs -> Handlers]
    BY IdleType DEF Init, AccountInit
  <1>. QED  BY <1>1, <1>3, <1>4 DEF Init, AccountsType

\* One handler changes.
LEMMA HandlerChanges ==
  ASSUME procs \in [Procs -> Handlers], NEW p \in Procs, NEW h \in Handlers,
         procs' = [procs EXCEPT ![p] = h]
  PROVE  /\ procs' \in [Procs -> Handlers] /\ procs'[p] = h
         /\ \A q \in Procs : q # p => procs'[q] = procs[q]
  OBVIOUS

Stepped(h, step) == [h EXCEPT !.step = step]

LEMMA SteppedType ==
  ASSUME NEW h \in Handlers,
         NEW step \in {"none", "insert", "customer", "save", "find_user", "shield", "save_sub",
                       "save_user"}
  PROVE  /\ Stepped(h, step) \in Handlers /\ Stepped(h, step).step = step
         /\ Stepped(h, step).kind = h.kind /\ Stepped(h, step).user = h.user
         /\ Stepped(h, step).row = h.row /\ Stepped(h, step).event = h.event
         /\ Stepped(h, step).sub = h.sub
  BY DEF Stepped, Handlers

LEMMA Going ==
  ASSUME NEW p \in Procs, NEW step, procs \in [Procs -> Handlers], Goto(p, step)
  PROVE  procs' = [procs EXCEPT ![p] = Stepped(procs[p], step)]
  BY DEF Goto, Stepped

-----------------------------------------------------------------------------
(* What handlers know, whatever else happens.                              *)

\* A row is unique until it is inserted; a row that is saved has the address and
\* the name its user has now; a shield is made for a user that is there.
HandlerFits(h, us) ==
  /\ h.step = "insert" => /\ h.kind \in Versions /\ h.user \in UserIds
                          /\ h.row.email # None /\ h.row.customer = None
  /\ h.step \in {"customer", "save", "save_user"} =>
       /\ h.user \in UserIds /\ us[h.user].email # None
       /\ h.row.email = us[h.user].email /\ h.row.name = us[h.user].name
  /\ h.kind = "accounts" => h.user \in UserIds
  /\ h.step = "shield" => h.user \in UserIds /\ us[h.user].email # None

Distinct(us) ==
  \A u, v \in UserIds : us[u].email # None /\ us[v].email # None /\ u # v =>
    us[u].email # us[v].email /\ us[u].name # us[v].name

\* Users stay, with their address and their name.
Keeps(us, later) ==
  \A u \in UserIds : us[u].email # None =>
    later[u].email = us[u].email /\ later[u].name = us[u].name

LEMMA FitsLater ==
  ASSUME NEW us, NEW later, Keeps(us, later), NEW h, HandlerFits(h, us)
  PROVE  HandlerFits(h, later)
  BY DEF Keeps, HandlerFits

LEMMA IdleFits == \A us : HandlerFits(Idle, us)
  BY IdleType DEF HandlerFits

\* What the event says of the subscription.
Says(sub, e) ==
  sub.status = e.status /\ (e.type = "deleted" => ~sub.active /\ sub.canceled)

\* The handler of an event is to save what the event says.
EventFits(h, ev) ==
  h.kind = "stripe" =>
    /\ h.event \in [index : Nat, alone : Nat] /\ h.event.index \in DOMAIN ev
    /\ h.step \in {"save_sub", "find_user", "save_user"}
    /\ h.step # "save_user" => ev[h.event.index].type \in {"updated", "deleted"}
    /\ h.step = "save_sub" => h.sub \in SubRows /\ Says(h.sub, ev[h.event.index])
    /\ h.step = "save_user" => /\ h.row.status = ev[h.event.index].status
                               /\ h.row.customer = ev[h.event.index].customer

SentFits(ev) ==
  \A i \in DOMAIN ev : /\ ev[i].type = "deleted" => ev[i].status = "canceled"
                       /\ ev[i].type = "payment_failed" => ev[i].status = "past_due"

UsersInv ==
  /\ AccountsType
  /\ Distinct(users)
  /\ SentFits(sent)
  /\ \A p \in Procs : HandlerFits(procs[p], users) /\ EventFits(procs[p], sent)

\* What a registration begins with.
LEMMA RegisterBegins ==
  ASSUME AccountsType, NEW p \in Procs, NEW v \in Versions, NEW e \in Emails, BeginRegister(p, v, e)
  PROVE  \E h \in Handlers :
           /\ procs' = [procs EXCEPT ![p] = h] /\ h.kind \in Versions /\ h.step = "insert"
           /\ h.user \in UserIds /\ h.row.email = e /\ h.row.customer = None
  <1>1. PICK u \in UserIds, n \in Names \cup UserIds :
          procs' = [procs EXCEPT ![p] = [Idle EXCEPT
                      !.kind = v, !.step = "insert", !.user = u,
                      !.row = [NoRow EXCEPT !.email = e, !.name = n]]]
    <2>1. PICK u \in UserIds : \E n \in IF v = "route" THEN Names ELSE {u} :
            procs' = [procs EXCEPT ![p] = [Idle EXCEPT
                        !.kind = v, !.step = "insert", !.user = u,
                        !.row = [NoRow EXCEPT !.email = e, !.name = n]]]
      BY DEF BeginRegister
    <2>2. PICK n \in IF v = "route" THEN Names ELSE {u} :
            procs' = [procs EXCEPT ![p] = [Idle EXCEPT
                        !.kind = v, !.step = "insert", !.user = u,
                        !.row = [NoRow EXCEPT !.email = e, !.name = n]]]
      BY <2>1
    <2>3. n \in Names \cup UserIds
      OBVIOUS
    <2>. QED  BY <2>2, <2>3
  <1>. DEFINE row == [NoRow EXCEPT !.email = e, !.name = n]
              h == [Idle EXCEPT !.kind = v, !.step = "insert", !.user = u, !.row = row]
  <1>2. row \in Rows /\ row.email = e /\ row.customer = None
    BY NoRowType DEF Rows
  <1>. HIDE DEF row
  <1>3. h \in Handlers /\ h.kind = v /\ h.step = "insert" /\ h.user = u /\ h.row = row
    BY <1>2, IdleType DEF Handlers, Versions, Owners
  <1>4. procs' = [procs EXCEPT ![p] = h]
    BY <1>1 DEF row
  <1>. HIDE DEF h
  <1>. QED  BY <1>2, <1>3, <1>4

\* What a handler begins with that reads a user's row.
LEMMA StatusRead ==
  ASSUME AccountsType, NEW u \in UserIds, NEW st \in AllStatuses
  PROVE  LET row == [users[u] EXCEPT !.status = st]
         IN  /\ row \in Rows /\ row.email = users[u].email /\ row.name = users[u].name
             /\ row.customer = users[u].customer /\ row.status = st
  <1>1. users[u] \in Rows
    BY DEF AccountsType
  <1>. QED  BY <1>1 DEF Rows

LEMMA LoginRead ==
  ASSUME AccountsType, NEW u \in UserIds
  PROVE  LET row == [users[u] EXCEPT !.logins = 1]
         IN  /\ row \in Rows /\ row.email = users[u].email /\ row.name = users[u].name
             /\ row.customer = users[u].customer
  <1>1. users[u] \in Rows
    BY DEF AccountsType
  <1>. QED  BY <1>1 DEF Rows

LEMMA ActiveRead ==
  ASSUME AccountsType, NEW u \in UserIds
  PROVE  LET row == [users[u] EXCEPT !.active = FALSE]
         IN  /\ row \in Rows /\ row.email = users[u].email /\ row.name = users[u].name
             /\ row.customer = users[u].customer
  <1>1. users[u] \in Rows
    BY DEF AccountsType
  <1>. QED  BY <1>1 DEF Rows

LEMMA AdditionalBegins ==
  ASSUME AccountsType, NEW p \in Procs, NEW u \in UserIds, BeginAdditional(p, u)
  PROVE  \E h \in Handlers :
           /\ procs' = [procs EXCEPT ![p] = h] /\ h.kind = "additional" /\ h.step = "shield"
           /\ h.user = u /\ h.row = NoRow
  <1>. DEFINE h == [Idle EXCEPT !.kind = "additional", !.step = "shield", !.user = u]
  <1>1. h \in Handlers /\ h.kind = "additional" /\ h.step = "shield" /\ h.user = u /\ h.row = NoRow
    BY IdleType DEF Handlers, Owners
  <1>2. procs' = [procs EXCEPT ![p] = h]
    BY DEF BeginAdditional
  <1>. HIDE DEF h
  <1>. QED  BY <1>1, <1>2

LEMMA AuthenticateBegins ==
  ASSUME AccountsType, NEW p \in Procs, NEW u \in UserIds, BeginAuthenticate(p, u)
  PROVE  \E h \in Handlers :
           /\ procs' = [procs EXCEPT ![p] = h] /\ h.kind = "authenticate" /\ h.step = "save"
           /\ h.user = u /\ h.row.email = users[u].email /\ h.row.name = users[u].name
           /\ h.row.customer = users[u].customer
  <1>. DEFINE row == [users[u] EXCEPT !.logins = 1]
              h == [Idle EXCEPT !.kind = "authenticate", !.step = "save", !.user = u, !.row = row]
  <1>1. /\ row \in Rows /\ row.email = users[u].email /\ row.name = users[u].name
        /\ row.customer = users[u].customer
    BY LoginRead
  <1>2. procs' = [procs EXCEPT ![p] = h]
    BY DEF BeginAuthenticate
  <1>. HIDE DEF row
  <1>3. h \in Handlers /\ h.kind = "authenticate" /\ h.step = "save" /\ h.user = u /\ h.row = row
    BY <1>1, IdleType DEF Handlers, Owners
  <1>. HIDE DEF h
  <1>. QED  BY <1>1, <1>2, <1>3

\* What a handler of an event begins with.
LEMMA EventBegins ==
  ASSUME AccountsType, NEW p \in Procs, NEW i \in DOMAIN sent,
         NEW step \in {"save_sub", "save_user"}, NEW u \in Owners, NEW row \in Rows,
         NEW sub \in SubRows \cup {None}, Begin(p, i, step, u, row, sub)
  PROVE  \E h \in Handlers :
           /\ procs' = [procs EXCEPT ![p] = h] /\ h.kind = "stripe" /\ h.step = step
           /\ h.user = u /\ h.row = row /\ h.sub = sub
           /\ h.event \in [index : Nat, alone : Nat] /\ h.event.index = i
           /\ h.event.alone = IF Quiet THEN begun + 1 ELSE 0
  <1>. DEFINE event == [index |-> i, alone |-> IF Quiet THEN begun + 1 ELSE 0]
              h == [Idle EXCEPT !.kind = "stripe", !.step = step, !.user = u, !.row = row,
                                !.event = event, !.sub = sub]
  <1>1. /\ event \in [index : Nat, alone : Nat] /\ event.index = i
        /\ event.alone = IF Quiet THEN begun + 1 ELSE 0
    BY DEF AccountsType
  <1>2. procs' = [procs EXCEPT ![p] = h]
    BY DEF Begin
  <1>. HIDE DEF event
  <1>3. /\ h \in Handlers /\ h.kind = "stripe" /\ h.step = step /\ h.user = u /\ h.row = row
        /\ h.event = event /\ h.sub = sub
    BY <1>1, IdleType DEF Handlers
  <1>. HIDE DEF h
  <1>. QED  BY <1>1, <1>2, <1>3

-----------------------------------------------------------------------------
(* Users stay, with an address and a name of their own.                    *)

LEMMA UsersInvInit == Init => UsersInv
  <1>. SUFFICES ASSUME Init  PROVE UsersInv
    OBVIOUS
  <1>1. Distinct(users)
    <2>1. \A u \in UserIds : users[u].email # None =>
            u \in DOMAIN campaign.users /\ users[u] = campaign.users[u]
      BY NoRowType DEF Init
    <2>. QED  BY <2>1, CampaignAssumption DEF Init, Distinct
  <1>2. \A p \in Procs : HandlerFits(procs[p], users) /\ EventFits(procs[p], sent)
    BY IdleType, IdleFits DEF Init, AccountInit, EventFits
  <1>3. SentFits(sent)
    BY DEF Init, SentFits
  <1>. QED  BY <1>1, <1>2, <1>3, AccountsTypeInit DEF UsersInv

\* How many handlers began is a number.
LEMMA BegunCounts ==
  ASSUME begun \in Nat, begun' = begun + Cardinality({p \in Procs : procs[p] = Idle /\ procs'[p] # Idle})
  PROVE  /\ begun' \in Nat /\ begun' >= begun
         /\ (\E p \in Procs : procs[p] = Idle /\ procs'[p] # Idle) => begun' > begun
  <1>. DEFINE new == {p \in Procs : procs[p] = Idle /\ procs'[p] # Idle}
  <1>1. IsFiniteSet(new)
    BY AccountAssumption, FS_Subset
  <1>2. Cardinality(new) \in Nat /\ (Cardinality(new) = 0 <=> new = {})
    BY <1>1, FS_CardinalityType, FS_EmptySet
  <1>. QED  BY <1>2

\* A handler moves on and no row of a user changes.
LEMMA HandlerMoves ==
  ASSUME UsersInv, NEW p \in Procs, NEW h \in Handlers, procs' = [procs EXCEPT ![p] = h],
         UNCHANGED <<users, sent>>, subs' \in [SubIds -> SubRows], begun' \in Nat,
         HandlerFits(h, users), EventFits(h, sent)
  PROVE  UsersInv' /\ Keeps(users, users')
  <1>1. /\ procs' \in [Procs -> Handlers] /\ procs'[p] = h
        /\ \A q \in Procs : q # p => procs'[q] = procs[q]
    BY HandlerChanges DEF UsersInv, AccountsType
  <1>2. AccountsType'
    BY <1>1 DEF UsersInv, AccountsType
  <1>3. \A q \in Procs : HandlerFits(procs'[q], users) /\ EventFits(procs'[q], sent)
    BY <1>1 DEF UsersInv
  <1>. QED  BY <1>2, <1>3 DEF UsersInv, Keeps

\* A row is saved, of a user that has this address and name or of a new one whose
\* address and name are nobody's, and a handler moves on.
LEMMA RowSaved ==
  ASSUME UsersInv, NEW u \in UserIds, NEW row \in Rows, users' = [users EXCEPT ![u] = row],
         UNCHANGED <<sent, subs>>, begun' \in Nat, row.email # None,
         IF users[u].email # None THEN row.email = users[u].email /\ row.name = users[u].name
         ELSE Unique(row),
         NEW p \in Procs, NEW h \in Handlers, procs' = [procs EXCEPT ![p] = h],
         HandlerFits(h, users'), EventFits(h, sent)
  PROVE  UsersInv' /\ Keeps(users, users')
  <1>1. /\ procs' \in [Procs -> Handlers] /\ procs'[p] = h
        /\ \A q \in Procs : q # p => procs'[q] = procs[q]
    BY HandlerChanges DEF UsersInv, AccountsType
  <1>2. users' \in [UserIds -> Rows] /\ users'[u] = row /\ \A v \in UserIds : v # u => users'[v] = users[v]
    BY DEF UsersInv, AccountsType
  <1>3. AccountsType'
    BY <1>1, <1>2 DEF UsersInv, AccountsType
  <1>4. Keeps(users, users')
    BY <1>2 DEF Keeps
  <1>5. Distinct(users')
    <2>. SUFFICES ASSUME NEW v \in UserIds, NEW w \in UserIds, v # w,
                         users'[v].email # None, users'[w].email # None
                  PROVE  users'[v].email # users'[w].email /\ users'[v].name # users'[w].name
      BY DEF Distinct
    <2>1. CASE v # u /\ w # u
      BY <1>2, <2>1 DEF UsersInv, Distinct
    <2>2. CASE users[u].email # None
      BY <1>2, <2>2 DEF UsersInv, Distinct
    <2>3. CASE users[u].email = None /\ (v = u \/ w = u)
      BY <1>2, <2>3 DEF Unique, There
    <2>. QED  BY <2>1, <2>2, <2>3
  <1>6. \A q \in Procs : HandlerFits(procs'[q], users') /\ EventFits(procs'[q], sent)
    BY <1>1, <1>4, FitsLater DEF UsersInv
  <1>. QED  BY <1>3, <1>4, <1>5, <1>6 DEF UsersInv

LEMMA NoneMoves ==
  ASSUME UsersInv, UNCHANGED <<users, procs, subs, sent>>, begun' \in Nat
  PROVE  UsersInv' /\ Keeps(users, users')
  BY DEF UsersInv, AccountsType, Keeps

\* A handler is done.
LEMMA HandlerDone ==
  ASSUME NEW us, NEW ev PROVE Idle \in Handlers /\ HandlerFits(Idle, us) /\ EventFits(Idle, ev)
  BY IdleType, IdleFits DEF EventFits

LEMMA AccountStepUsers ==
  ASSUME UsersInv, AccountStep, UNCHANGED <<subs, sent>>, begun' \in Nat
  PROVE  UsersInv' /\ Keeps(users, users')
  <1>0. AccountsType /\ subs' \in [SubIds -> SubRows] /\ procs \in [Procs -> Handlers]
        /\ users \in [UserIds -> Rows]
    BY DEF UsersInv, AccountsType
  <1>1. ASSUME NEW p \in Procs, NEW v \in Versions, NEW e \in Emails, BeginRegister(p, v, e)
        PROVE  UsersInv' /\ Keeps(users, users')
    <2>1. PICK h \in Handlers :
            /\ procs' = [procs EXCEPT ![p] = h] /\ h.kind \in Versions /\ h.step = "insert"
            /\ h.user \in UserIds /\ h.row.email = e /\ h.row.customer = None
      BY <1>0, <1>1, RegisterBegins
    <2>2. HandlerFits(h, users) /\ EventFits(h, sent)
      BY <2>1, AccountAssumption DEF HandlerFits, EventFits, Versions
    <2>. QED  BY <1>0, <1>1, <2>1, <2>2, HandlerMoves DEF BeginRegister
  <1>2. ASSUME NEW p \in Procs, InsertUser(p)  PROVE UsersInv' /\ Keeps(users, users')
    <2>. DEFINE was == procs[p]
    <2>1. /\ was \in Handlers /\ was.step = "insert" /\ was.kind \in Versions /\ was.user \in UserIds
          /\ was.row \in Rows /\ was.row.email # None
      BY <1>0, <1>2 DEF InsertUser, UsersInv, HandlerFits, Handlers
    <2>2. CASE Unique(was.row) /\ ~There(was.user)
      <3>1. PICK step \in {"customer", "find_user", "shield"} :
              /\ Goto(p, step)
              /\ step = "find_user" => was.kind = "accounts"
        BY <1>2, <2>1, <2>2 DEF InsertUser, Versions
      <3>. DEFINE h == Stepped(was, step)
      <3>2. procs' = [procs EXCEPT ![p] = h]
        BY <1>0, <3>1, Going
      <3>3. /\ h \in Handlers /\ h.step = step /\ h.kind = was.kind /\ h.user = was.user
            /\ h.row = was.row
        BY <2>1, SteppedType
      <3>. HIDE DEF h
      <3>4. users' = [users EXCEPT ![was.user] = was.row]
        BY <1>2, <2>2 DEF InsertUser
      <3>5. users'[was.user] = was.row
        BY <1>0, <2>1, <3>4
      <3>6. HandlerFits(h, users') /\ EventFits(h, sent)
        BY <2>1, <3>3, <3>5 DEF HandlerFits, EventFits, Versions
      <3>7. users[was.user].email = None
        BY <2>2 DEF There
      <3>. HIDE DEF was
      <3>. QED  BY <2>1, <2>2, <3>2, <3>3, <3>4, <3>6, <3>7, RowSaved
    <2>3. CASE ~(Unique(was.row) /\ ~There(was.user))
      BY <1>0, <1>2, <2>3, HandlerDone, HandlerMoves DEF InsertUser, Free
    <2>. QED  BY <2>2, <2>3
  <1>3. ASSUME NEW p \in Procs, CreateCustomer(p)  PROVE UsersInv' /\ Keeps(users, users')
    <2>1. PICK c \in Customers : procs' = [procs EXCEPT ![p].row.customer = c, ![p].step = "save"]
      BY <1>3 DEF CreateCustomer
    <2>. DEFINE was == procs[p]
                row == [was.row EXCEPT !.customer = c]
                h == [was EXCEPT !.row = row, !.step = "save"]
    <2>2. was \in Handlers /\ was.row \in Rows /\ was.kind = "route" /\ was.step = "customer"
      BY <1>0, <1>3 DEF CreateCustomer, Busy, Handlers
    <2>3. procs' = [procs EXCEPT ![p] = h]
      BY <1>0, <2>1, <2>2 DEF Handlers
    <2>4. HandlerFits(was, users)
      BY DEF UsersInv
    <2>. HIDE DEF was
    <2>5. row \in Rows /\ row.email = was.row.email /\ row.name = was.row.name
      BY <2>2 DEF Rows
    <2>. HIDE DEF row
    <2>6. /\ h \in Handlers /\ h.kind = "route" /\ h.step = "save" /\ h.user = was.user
          /\ h.row = row
      BY <2>2, <2>5 DEF Handlers
    <2>. HIDE DEF h
    <2>7. HandlerFits(h, users) /\ EventFits(h, sent)
      BY <2>2, <2>4, <2>5, <2>6 DEF HandlerFits, EventFits
    <2>. QED  BY <1>0, <1>3, <2>3, <2>6, <2>7, HandlerMoves DEF CreateCustomer
  <1>4. ASSUME NEW p \in Procs, SaveCustomer(p) \/ SaveLogin(p)  PROVE UsersInv' /\ Keeps(users, users')
    <2>. DEFINE was == procs[p]
    <2>1. /\ was \in Handlers /\ was.row \in Rows /\ was.step = "save" /\ HandlerFits(was, users)
      BY <1>0, <1>4 DEF SaveCustomer, SaveLogin, Busy, Handlers, UsersInv
    <2>2. /\ was.user \in UserIds /\ users[was.user].email # None
          /\ was.row.email = users[was.user].email /\ was.row.name = users[was.user].name
      BY <2>1 DEF HandlerFits
    <2>3. users' = [users EXCEPT ![was.user] = was.row] /\ procs' = [procs EXCEPT ![p] = Idle]
      BY <1>4 DEF SaveCustomer, SaveLogin, Free
    <2>. HIDE DEF was
    <2>. QED  BY <2>1, <2>2, <2>3, HandlerDone, RowSaved
  <1>5. ASSUME NEW p \in Procs, FindNewUser(p)  PROVE UsersInv' /\ Keeps(users, users')
    <2>. DEFINE was == procs[p]
                h == Stepped(was, "shield")
    <2>1. was \in Handlers /\ was.kind = "accounts" /\ was.user \in UserIds
      BY <1>0, <1>5 DEF FindNewUser, Busy, UsersInv, HandlerFits
    <2>2. h \in Handlers /\ h.step = "shield" /\ h.kind = was.kind /\ h.user = was.user /\ h.row = was.row
      BY <2>1, SteppedType
    <2>3. CASE There(was.user)
      <3>1. procs' = [procs EXCEPT ![p] = h]
        BY <1>0, <1>5, <2>3, Going DEF FindNewUser
      <3>2. users[was.user].email # None
        BY <2>3 DEF There
      <3>. HIDE DEF h, was
      <3>3. HandlerFits(h, users) /\ EventFits(h, sent)
        BY <2>1, <2>2, <3>2 DEF HandlerFits, EventFits
      <3>. QED  BY <1>0, <1>5, <2>2, <3>1, <3>3, HandlerMoves DEF FindNewUser
    <2>4. CASE ~There(was.user)
      BY <1>0, <1>5, <2>4, HandlerDone, HandlerMoves DEF FindNewUser, Free
    <2>. QED  BY <2>3, <2>4
  <1>6. ASSUME NEW p \in Procs, SaveShield(p)  PROVE UsersInv' /\ Keeps(users, users')
    BY <1>0, <1>6, HandlerDone, HandlerMoves DEF SaveShield, Free
  <1>7. ASSUME NEW p \in Procs, NEW u \in UserIds, BeginAdditional(p, u)
        PROVE  UsersInv' /\ Keeps(users, users')
    <2>1. PICK h \in Handlers : /\ procs' = [procs EXCEPT ![p] = h] /\ h.kind = "additional"
                               /\ h.step = "shield" /\ h.user = u
      BY <1>0, <1>7, AdditionalBegins
    <2>2. HandlerFits(h, users) /\ EventFits(h, sent)
      BY <1>7, <2>1 DEF HandlerFits, EventFits, BeginAdditional, There
    <2>. QED  BY <1>0, <1>7, <2>1, <2>2, HandlerMoves DEF BeginAdditional
  <1>8. ASSUME NEW p \in Procs, NEW u \in UserIds, BeginAuthenticate(p, u)
        PROVE  UsersInv' /\ Keeps(users, users')
    <2>1. PICK h \in Handlers :
            /\ procs' = [procs EXCEPT ![p] = h] /\ h.kind = "authenticate" /\ h.step = "save"
            /\ h.user = u /\ h.row.email = users[u].email /\ h.row.name = users[u].name
      BY <1>0, <1>8, AuthenticateBegins
    <2>2. HandlerFits(h, users) /\ EventFits(h, sent)
      BY <1>8, <2>1 DEF HandlerFits, EventFits, BeginAuthenticate, There
    <2>. QED  BY <1>0, <1>8, <2>1, <2>2, HandlerMoves DEF BeginAuthenticate
  <1>9. ASSUME NEW u \in UserIds, Deactivate(u)  PROVE UsersInv' /\ Keeps(users, users')
    <2>. DEFINE row == [users[u] EXCEPT !.active = FALSE]
    <2>1. row \in Rows /\ row.email = users[u].email /\ row.name = users[u].name
      BY <1>0, ActiveRead
    <2>2. users' = [users EXCEPT ![u] = row] /\ procs' = procs /\ users[u].email # None
      BY <1>9 DEF Deactivate, There
    <2>. HIDE DEF row
    <2>3. users' \in [UserIds -> Rows] /\ users'[u] = row /\ \A v \in UserIds : v # u => users'[v] = users[v]
      BY <1>0, <2>1, <2>2
    <2>4. Keeps(users, users')
      BY <2>1, <2>3 DEF Keeps
    <2>5. Distinct(users')
      BY <2>1, <2>2, <2>3 DEF UsersInv, Distinct
    <2>6. \A q \in Procs : HandlerFits(procs[q], users')
      BY <2>4, FitsLater DEF UsersInv
    <2>. QED  BY <2>2, <2>3, <2>4, <2>5, <2>6 DEF UsersInv, AccountsType
  <1>10. ASSUME NEW s \in shields, DeactivateShield(s)  PROVE UsersInv' /\ Keeps(users, users')
    BY <1>10, NoneMoves DEF DeactivateShield
  <1>. QED
    BY <1>1, <1>2, <1>3, <1>4, <1>5, <1>6, <1>7, <1>8, <1>9, <1>10 DEF AccountStep

\* A sequence that grows by one.
LEMMA Grown ==
  ASSUME NEW S, NEW q \in Seq(S), NEW x \in S
  PROVE  /\ Append(q, x) \in Seq(S)
         /\ \A i \in DOMAIN q : i \in DOMAIN Append(q, x) /\ Append(q, x)[i] = q[i]
         /\ \A i \in DOMAIN Append(q, x) : i \in DOMAIN q \/ Append(q, x)[i] = x
  OBVIOUS

\* Events that were sent stay as they are.
LEMMA EventFitsLater ==
  ASSUME NEW ev, NEW e, ev \in Seq(Events), e \in Events, NEW h, EventFits(h, ev)
  PROVE  EventFits(h, Append(ev, e))
  <1>1. \A i \in DOMAIN ev : i \in DOMAIN Append(ev, e) /\ Append(ev, e)[i] = ev[i]
    OBVIOUS
  <1>. QED  BY <1>1 DEF EventFits

LEMMA EventSent ==
  ASSUME NEW s \in SubIds, NEW c \in Customers, Send(s, c)
  PROVE  \E e \in Events :
           /\ sent' = Append(sent, e)
           /\ e.type = "deleted" => e.status = "canceled"
           /\ e.type = "payment_failed" => e.status = "past_due"
  <1>1. PICK e \in {Event("created", s, c, "trialing"), Event("deleted", s, c, "canceled"),
                   Event("payment_failed", s, c, "past_due"), Event("payment_succeeded", s, c, "active")}
                  \cup {Event("updated", s, c, st) : st \in Statuses} :
             sent' = Append(sent, e)
    BY DEF Send
  <1>2. CASE e \in {Event("updated", s, c, st) : st \in Statuses}
    BY <1>1, <1>2 DEF Event, Events, AllStatuses
  <1>3. CASE e = Event("created", s, c, "trialing")
    BY <1>1, <1>3 DEF Event, Events, AllStatuses
  <1>4. CASE e = Event("deleted", s, c, "canceled")
    BY <1>1, <1>4 DEF Event, Events, AllStatuses
  <1>5. CASE e = Event("payment_failed", s, c, "past_due")
    BY <1>1, <1>5 DEF Event, Events, AllStatuses
  <1>6. CASE e = Event("payment_succeeded", s, c, "active")
    BY <1>1, <1>6 DEF Event, Events, AllStatuses
  <1>. QED  BY <1>2, <1>3, <1>4, <1>5, <1>6

\* The subscription's row as an event of the kinds that change it leaves it.
LEMMA ChangedSays ==
  ASSUME NEW row \in SubRows, NEW e \in Events, e.type \in {"updated", "deleted"},
         e.type = "deleted" => e.status = "canceled"
  PROVE  Changed(row, e) \in SubRows /\ Says(Changed(row, e), e)
  <1>1. CASE e.type = "updated"
    BY <1>1 DEF Changed, Says, SubRows, Events
  <1>2. CASE e.type = "deleted"
    BY <1>2 DEF Changed, Says, SubRows, AllStatuses
  <1>. QED  BY <1>1, <1>2

\* What the handler of an event writes: it knows its event.
LEMMA EventOfType ==
  ASSUME UsersInv, NEW p \in Procs, procs[p].kind = "stripe"
  PROVE  /\ EventOf(p) \in Events /\ EventOf(p) = sent[procs[p].event.index]
         /\ procs[p].event.index \in DOMAIN sent
         /\ EventOf(p).type = "deleted" => EventOf(p).status = "canceled"
  <1>1. procs[p].event.index \in DOMAIN sent /\ sent \in Seq(Events)
    BY DEF UsersInv, EventFits, AccountsType
  <1>. QED  BY <1>1 DEF EventOf, UsersInv, SentFits

\* The handlers of events begin.
LEMMA ChangeBegins ==
  ASSUME UsersInv, NEW p \in Procs, NEW i \in DOMAIN sent, BeginChange(p, i)
  PROVE  \/ UNCHANGED procs
         \/ \E h \in Handlers :
              /\ procs' = [procs EXCEPT ![p] = h] /\ h.kind = "stripe" /\ h.step = "save_sub"
              /\ h.row = NoRow /\ HandlerFits(h, users) /\ EventFits(h, sent)
              /\ h.event.index = i /\ h.event.alone = IF Quiet THEN begun + 1 ELSE 0
  <1>. SUFFICES ASSUME Known(sent[i].sub)
                PROVE  \E h \in Handlers :
                         /\ procs' = [procs EXCEPT ![p] = h] /\ h.kind = "stripe" /\ h.step = "save_sub"
                         /\ h.row = NoRow /\ HandlerFits(h, users) /\ EventFits(h, sent)
                         /\ h.event.index = i /\ h.event.alone = IF Quiet THEN begun + 1 ELSE 0
    BY DEF BeginChange
  <1>. DEFINE sub == Changed(subs[sent[i].sub], sent[i])
  <1>1. sent[i] \in Events /\ sent[i].sub \in SubIds /\ sent[i].type \in {"updated", "deleted"}
        /\ (sent[i].type = "deleted" => sent[i].status = "canceled")
    <2>1. sent[i] \in Events
      BY DEF UsersInv, AccountsType
    <2>. QED  BY <2>1 DEF UsersInv, SentFits, BeginChange, Events
  <1>2. sub \in SubRows /\ Says(sub, sent[i])
    <2>1. subs[sent[i].sub] \in SubRows
      BY <1>1 DEF UsersInv, AccountsType
    <2>. QED  BY <1>1, <2>1, ChangedSays
  <1>3. Begin(p, i, "save_sub", None, NoRow, sub)
    BY DEF BeginChange
  <1>. HIDE DEF sub
  <1>4. None \in Owners
    BY DEF Owners
  <1>5. PICK h \in Handlers :
          /\ procs' = [procs EXCEPT ![p] = h] /\ h.kind = "stripe" /\ h.step = "save_sub"
          /\ h.user = None /\ h.row = NoRow /\ h.sub = sub
          /\ h.event \in [index : Nat, alone : Nat] /\ h.event.index = i
          /\ h.event.alone = IF Quiet THEN begun + 1 ELSE 0
    BY <1>2, <1>3, <1>4, NoRowType, EventBegins DEF UsersInv
  <1>6. HandlerFits(h, users) /\ EventFits(h, sent)
    BY <1>1, <1>2, <1>5 DEF HandlerFits, EventFits
  <1>. QED  BY <1>5, <1>6

LEMMA FailureBegins ==
  ASSUME UsersInv, NEW p \in Procs, NEW i \in DOMAIN sent, BeginPaymentFailed(p, i)
  PROVE  \/ UNCHANGED procs
         \/ \E h \in Handlers :
              /\ procs' = [procs EXCEPT ![p] = h] /\ h.kind = "stripe" /\ h.step = "save_user"
              /\ h.user \in OfCustomer(sent[i].customer) /\ h.row.customer = sent[i].customer
              /\ HandlerFits(h, users) /\ EventFits(h, sent)
              /\ sent[i].type = "payment_failed"
              /\ h.event.index = i /\ h.event.alone = IF Quiet THEN begun + 1 ELSE 0
  <1>1. PICK u \in Lookup(sent[i].customer) :
          IF u = None THEN UNCHANGED procs
          ELSE Begin(p, i, "save_user", u, [users[u] EXCEPT !.status = "past_due"], None)
    BY DEF BeginPaymentFailed
  <1>2. CASE u = None
    BY <1>1, <1>2
  <1>3. CASE u # None
    <2>1. u \in OfCustomer(sent[i].customer)
      BY <1>1, <1>3 DEF Lookup
    <2>2. u \in UserIds /\ users[u].email # None /\ users[u].customer = sent[i].customer
      BY <2>1 DEF OfCustomer, There
    <2>. DEFINE row == [users[u] EXCEPT !.status = "past_due"]
    <2>3. /\ row \in Rows /\ row.email = users[u].email /\ row.name = users[u].name
          /\ row.customer = users[u].customer /\ row.status = "past_due"
      BY <2>2, StatusRead, "past_due" \in AllStatuses DEF UsersInv, AllStatuses
    <2>4. Begin(p, i, "save_user", u, row, None)
      BY <1>1, <1>3
    <2>. HIDE DEF row
    <2>5. PICK h \in Handlers :
            /\ procs' = [procs EXCEPT ![p] = h] /\ h.kind = "stripe" /\ h.step = "save_user"
            /\ h.user = u /\ h.row = row
            /\ h.event \in [index : Nat, alone : Nat] /\ h.event.index = i
            /\ h.event.alone = IF Quiet THEN begun + 1 ELSE 0
      BY <2>2, <2>3, <2>4, EventBegins DEF UsersInv, Owners
    <2>6. sent[i].type = "payment_failed" /\ sent[i].status = "past_due"
      BY DEF BeginPaymentFailed, UsersInv, SentFits
    <2>7. HandlerFits(h, users) /\ EventFits(h, sent)
      BY <2>2, <2>3, <2>5, <2>6 DEF HandlerFits, EventFits
    <2>. QED  BY <2>1, <2>2, <2>3, <2>5, <2>6, <2>7
  <1>. QED  BY <1>2, <1>3

\* The user of an event is found, or there is none.
LEMMA UserFound ==
  ASSUME UsersInv, NEW p \in Procs, FindUser(p)
  PROVE  \/ procs' = [procs EXCEPT ![p] = Idle] /\ OfCustomer(EventOf(p).customer) = {}
         \/ \E h \in Handlers :
              /\ procs' = [procs EXCEPT ![p] = h] /\ h.kind = "stripe" /\ h.step = "save_user"
              /\ h.user \in OfCustomer(EventOf(p).customer) /\ h.row.customer = EventOf(p).customer
              /\ HandlerFits(h, users) /\ EventFits(h, sent) /\ h.event = procs[p].event
  <1>. DEFINE was == procs[p]
              e == EventOf(p)
  <1>0. was \in Handlers /\ was.kind = "stripe" /\ EventFits(was, sent) /\ e \in Events
        /\ e = sent[was.event.index]
    BY EventOfType DEF FindUser, Busy, UsersInv, AccountsType
  <1>1. PICK u \in Lookup(e.customer) :
          IF u = None THEN Free(p)
          ELSE procs' = [procs EXCEPT ![p].step = "save_user", ![p].user = u,
                                      ![p].row = [users[u] EXCEPT !.status = e.status]]
    BY DEF FindUser
  <1>2. CASE u = None
    <2>1. None \notin OfCustomer(e.customer)
      BY AccountAssumption DEF OfCustomer
    <2>. QED  BY <1>1, <1>2, <2>1 DEF Lookup, Free
  <1>3. CASE u # None
    <2>1. u \in OfCustomer(e.customer)
      BY <1>1, <1>3 DEF Lookup
    <2>2. u \in UserIds /\ users[u].email # None /\ users[u].customer = e.customer
      BY <2>1 DEF OfCustomer, There
    <2>. DEFINE row == [users[u] EXCEPT !.status = e.status]
                h == [was EXCEPT !.step = "save_user", !.user = u, !.row = row]
    <2>3. e.status \in AllStatuses
      BY <1>0 DEF Events
    <2>. HIDE DEF e
    <2>4. /\ row \in Rows /\ row.email = users[u].email /\ row.name = users[u].name
          /\ row.customer = users[u].customer /\ row.status = e.status
      BY <2>2, <2>3, StatusRead DEF UsersInv
    <2>5. procs' = [procs EXCEPT ![p] = h]
      BY <1>1, <1>3 DEF UsersInv, AccountsType
    <2>. HIDE DEF row, was
    <2>6. /\ h \in Handlers /\ h.kind = was.kind /\ h.step = "save_user" /\ h.user = u /\ h.row = row
          /\ h.event = was.event
      BY <1>0, <2>2, <2>4 DEF Handlers, Owners
    <2>. HIDE DEF h
    <2>7. HandlerFits(h, users) /\ EventFits(h, sent)
      BY <1>0, <2>2, <2>4, <2>6 DEF HandlerFits, EventFits
    <2>. QED  BY <1>0, <2>1, <2>2, <2>4, <2>5, <2>6, <2>7 DEF e, was
  <1>. QED  BY <1>2, <1>3

\* What saving the subscription leaves.
LEMMA SubSaved ==
  ASSUME UsersInv, NEW p \in Procs, SaveSub(p)
  PROVE  /\ subs' \in [SubIds -> SubRows] /\ EventOf(p).sub \in SubIds
         /\ subs'[EventOf(p).sub] = procs[p].sub /\ Says(procs[p].sub, EventOf(p))
         /\ \E h \in Handlers :
              /\ procs' = [procs EXCEPT ![p] = h] /\ h.kind = "stripe" /\ h.step = "find_user"
              /\ h.row = procs[p].row /\ h.user = procs[p].user
              /\ HandlerFits(h, users) /\ EventFits(h, sent) /\ h.event = procs[p].event
  <1>. DEFINE was == procs[p]
              e == EventOf(p)
              h == Stepped(was, "find_user")
  <1>1. /\ was \in Handlers /\ was.kind = "stripe" /\ was.step = "save_sub" /\ EventFits(was, sent)
        /\ e \in Events /\ e = sent[was.event.index]
    BY EventOfType DEF SaveSub, Busy, UsersInv, AccountsType
  <1>2. subs' = [subs EXCEPT ![e.sub] = was.sub] /\ procs' = [procs EXCEPT ![p] = h]
    BY Going DEF SaveSub, UsersInv, AccountsType
  <1>3. /\ h \in Handlers /\ h.step = "find_user" /\ h.kind = was.kind /\ h.user = was.user
        /\ h.row = was.row /\ h.event = was.event
    BY <1>1, SteppedType
  <1>. HIDE DEF was, e, h
  <1>4. e.sub \in SubIds /\ was.sub \in SubRows /\ Says(was.sub, e)
    BY <1>1 DEF Events, EventFits
  <1>5. subs' \in [SubIds -> SubRows] /\ subs'[e.sub] = was.sub
    BY <1>2, <1>4 DEF UsersInv, AccountsType
  <1>6. HandlerFits(h, users) /\ EventFits(h, sent)
    BY <1>1, <1>3 DEF HandlerFits, EventFits
  <1>. QED  BY <1>1, <1>2, <1>3, <1>4, <1>5, <1>6 DEF was, e

LEMMA BillingStepUsers ==
  ASSUME UsersInv, BillingStep, begun' \in Nat
  PROVE  UsersInv' /\ Keeps(users, users')
  <1>0. subs \in [SubIds -> SubRows] /\ procs \in [Procs -> Handlers] /\ sent \in Seq(Events)
        /\ users \in [UserIds -> Rows]
    BY DEF UsersInv, AccountsType
  <1>1. ASSUME NEW s \in SubIds, NEW c \in Customers, Send(s, c)  PROVE UsersInv' /\ Keeps(users, users')
    <2>1. UNCHANGED <<users, procs, subs>>
      BY <1>1 DEF Send, accountVars
    <2>2. PICK e \in Events :
            /\ sent' = Append(sent, e)
            /\ e.type = "deleted" => e.status = "canceled"
            /\ e.type = "payment_failed" => e.status = "past_due"
      BY <1>1, EventSent
    <2>. DEFINE later == Append(sent, e)
    <2>3. /\ later \in Seq(Events)
          /\ \A i \in DOMAIN sent : i \in DOMAIN later /\ later[i] = sent[i]
          /\ \A i \in DOMAIN later : i \in DOMAIN sent \/ later[i] = e
      BY <1>0, <2>2, Grown
    <2>4. \A q \in Procs : EventFits(procs[q], later)
      BY <1>0, <2>2, EventFitsLater DEF UsersInv
    <2>5. sent' = later
      BY <2>2
    <2>. HIDE DEF later
    <2>6. SentFits(later)
      BY <2>2, <2>3 DEF UsersInv, SentFits
    <2>7. AccountsType'
      BY <1>0, <2>1, <2>3, <2>5 DEF AccountsType
    <2>. QED  BY <2>1, <2>4, <2>5, <2>6, <2>7 DEF UsersInv, Keeps
  <1>2. ASSUME NEW i \in DOMAIN sent, HandleWithoutEffect(i)  PROVE UsersInv' /\ Keeps(users, users')
    BY <1>2, NoneMoves DEF HandleWithoutEffect, accountVars
  <1>3. ASSUME NEW p \in Procs, NEW i \in DOMAIN sent, BeginPaymentFailed(p, i)
        PROVE  UsersInv' /\ Keeps(users, users')
    BY <1>0, <1>3, FailureBegins, HandlerMoves, NoneMoves DEF BeginPaymentFailed
  <1>4. ASSUME NEW p \in Procs, NEW i \in DOMAIN sent, BeginChange(p, i)
        PROVE  UsersInv' /\ Keeps(users, users')
    BY <1>0, <1>4, ChangeBegins, HandlerMoves, NoneMoves DEF BeginChange
  <1>5. ASSUME NEW p \in Procs, SaveSub(p)  PROVE UsersInv' /\ Keeps(users, users')
    BY <1>0, <1>5, SubSaved, HandlerMoves DEF SaveSub
  <1>6. ASSUME NEW p \in Procs, FindUser(p)  PROVE UsersInv' /\ Keeps(users, users')
    BY <1>0, <1>6, UserFound, HandlerDone, HandlerMoves DEF FindUser
  <1>7. ASSUME NEW p \in Procs, SaveUser(p)  PROVE UsersInv' /\ Keeps(users, users')
    <2>. DEFINE was == procs[p]
    <2>1. /\ was \in Handlers /\ was.row \in Rows /\ was.step = "save_user" /\ HandlerFits(was, users)
      BY <1>0, <1>7 DEF SaveUser, Busy, Handlers, UsersInv
    <2>2. /\ was.user \in UserIds /\ users[was.user].email # None
          /\ was.row.email = users[was.user].email /\ was.row.name = users[was.user].name
      BY <2>1 DEF HandlerFits
    <2>3. users' = [users EXCEPT ![was.user] = was.row] /\ procs' = [procs EXCEPT ![p] = Idle]
          /\ UNCHANGED <<subs, sent>>
      BY <1>7 DEF SaveUser, Free
    <2>. HIDE DEF was
    <2>. QED  BY <2>1, <2>2, <2>3, HandlerDone, RowSaved
  <1>. QED
    BY <1>1, <1>2, <1>3, <1>4, <1>5, <1>6, <1>7 DEF BillingStep

LEMMA UsersInvNext == UsersInv /\ [Next]_vars => UsersInv' /\ Keeps(users, users')
  <1>. SUFFICES ASSUME UsersInv, [Next]_vars  PROVE UsersInv' /\ Keeps(users, users')
    OBVIOUS
  <1>1. CASE UNCHANGED vars
    BY <1>1, NoneMoves DEF vars, accountVars, billingVars, UsersInv, AccountsType
  <1>2. CASE Next
    <2>1. begun' \in Nat
      BY <1>2, BegunCounts DEF Next, UsersInv, AccountsType
    <2>2. CASE AccountStep /\ UNCHANGED <<subs, sent>>
      BY <2>1, <2>2, AccountStepUsers
    <2>3. ASSUME NEW p \in Procs, StatementFails(p), UNCHANGED <<subs, sent>>
          PROVE  UsersInv' /\ Keeps(users, users')
      <3>1. subs' \in [SubIds -> SubRows] /\ UNCHANGED <<users, sent>>
        BY <2>3 DEF StatementFails, UsersInv, AccountsType
      <3>. QED  BY <2>1, <2>3, <3>1, HandlerDone, HandlerMoves DEF StatementFails, Free
    <2>4. CASE UNCHANGED <<accountVars, subs, sent>>
      BY <2>1, <2>4, NoneMoves DEF accountVars
    <2>5. CASE BillingStep
      BY <2>1, <2>5, BillingStepUsers
    <2>6. CASE Crash
      <3>1. UNCHANGED <<users, subs, sent>> /\ procs' = [p \in Procs |-> Idle]
        BY <2>6 DEF Crash
      <3>2. procs' \in [Procs -> Handlers] /\ \A p \in Procs : procs'[p] = Idle
        BY <3>1, IdleType
      <3>. QED  BY <2>1, <3>1, <3>2, HandlerDone DEF UsersInv, AccountsType, Keeps
    <2>. QED  BY <1>2, <2>2, <2>3, <2>4, <2>5, <2>6 DEF Next
  <1>. QED  BY <1>1, <1>2
-----------------------------------------------------------------------------
(* One owner each, and registrations that are complete.                    *)

\* An address is one user's, who is there.
ShieldsFit ==
  /\ shields \subseteq Shields
  /\ \A s, t \in shields : s.address = t.address => s = t
  /\ \A s \in shields : There(s.user)

\* Who was told so is registered.
RegisteredFit ==
  \A r \in registered :
    /\ r[1] \in UserIds /\ There(r[1])
    /\ r[2] # "route" => \E s \in shields : s.user = r[1]

AccountsInv == UsersInv /\ ShieldsFit /\ RegisteredFit

LEMMA AccountsInvInit == Init => AccountsInv
  BY UsersInvInit DEF Init, AccountInit, AccountsInv, ShieldsFit, RegisteredFit

\* A step that adds nothing to the addresses or to who was told.
LEMMA AddressesStay ==
  ASSUME AccountsInv, Keeps(users, users'), UNCHANGED <<shields, registered>>
  PROVE  ShieldsFit' /\ RegisteredFit'
  <1>1. \A u \in UserIds : There(u) => There(u)'
    BY DEF There, Keeps, AccountsInv, UsersInv, AccountsType, Rows
  <1>2. \A s \in shields : s.user \in UserIds
    BY DEF AccountsInv, ShieldsFit, Shields
  <1>. QED  BY <1>1, <1>2 DEF AccountsInv, ShieldsFit, RegisteredFit

LEMMA CustomerSaved ==
  ASSUME AccountsInv, Keeps(users, users'), NEW p \in Procs, SaveCustomer(p)
  PROVE  ShieldsFit' /\ RegisteredFit'
  <1>1. \A u \in UserIds : There(u) => There(u)'
    BY DEF There, Keeps
  <1>2. \A s \in shields : s.user \in UserIds
    BY DEF AccountsInv, ShieldsFit, Shields
  <1>3. procs[p].user \in UserIds /\ There(procs[p].user)
    BY DEF SaveCustomer, Busy, AccountsInv, UsersInv, HandlerFits, There
  <1>. DEFINE u == procs[p].user
  <1>4. registered' = registered \cup {<<u, "route">>} /\ shields' = shields
    BY DEF SaveCustomer
  <1>. HIDE DEF u
  <1>. QED  BY <1>1, <1>2, <1>3, <1>4 DEF AccountsInv, ShieldsFit, RegisteredFit, u

LEMMA ShieldSaved ==
  ASSUME AccountsInv, Keeps(users, users'), NEW p \in Procs, SaveShield(p)
  PROVE  ShieldsFit' /\ RegisteredFit'
  <1>. DEFINE u == procs[p].user
              k == procs[p].kind
  <1>1. \A v \in UserIds : There(v) => There(v)'
    BY DEF There, Keeps
  <1>2. shields \subseteq Shields
    BY DEF AccountsInv, ShieldsFit
  <1>3. u \in UserIds /\ There(u)
    BY DEF SaveShield, AccountsInv, UsersInv, HandlerFits, There
  <1>4. PICK a \in Addresses : Unused(a) /\ shields' = shields \cup {NewShield(u, a)}
    BY DEF SaveShield
  <1>5. registered' \subseteq registered \cup {<<u, k>>}
    BY DEF SaveShield
  <1>. HIDE DEF u, k
  <1>. DEFINE n == NewShield(u, a)
  <1>6. n \in Shields /\ n.user = u /\ n.address = a
    BY <1>3 DEF NewShield, Shields
  <1>. HIDE DEF n
  <1>7. shields' = shields \cup {n} /\ \A s \in shields : s.address # a
    BY <1>4 DEF n, Unused
  <1>8. ShieldsFit'
    BY <1>1, <1>2, <1>3, <1>6, <1>7 DEF AccountsInv, ShieldsFit, Shields
  <1>9. RegisteredFit'
    <2>. SUFFICES ASSUME NEW r \in registered \cup {<<u, k>>}
                  PROVE  /\ r[1] \in UserIds /\ There(r[1])'
                         /\ r[2] # "route" => \E s \in shields' : s.user = r[1]
      BY <1>5 DEF RegisteredFit
    <2>1. CASE r \in registered
      BY <1>1, <1>7, <2>1 DEF AccountsInv, RegisteredFit
    <2>2. CASE r = <<u, k>>
      BY <1>1, <1>3, <1>6, <1>7, <2>2
    <2>. QED  BY <2>1, <2>2
  <1>. QED  BY <1>8, <1>9

Inactive(s) == [s EXCEPT !.active = FALSE]

LEMMA ShieldDeactivated ==
  ASSUME AccountsInv, Keeps(users, users'), NEW s \in shields, DeactivateShield(s)
  PROVE  ShieldsFit' /\ RegisteredFit'
  <1>. DEFINE n == Inactive(s)
  <1>1. \A v \in UserIds : There(v) => There(v)'
    BY DEF There, Keeps
  <1>2. s \in Shields /\ shields \subseteq Shields
    BY DEF AccountsInv, ShieldsFit
  <1>3. n \in Shields /\ n.user = s.user /\ n.address = s.address
    BY <1>2 DEF Inactive, Shields
  <1>4. shields' = (shields \ {s}) \cup {n} /\ registered' = registered
    BY DEF DeactivateShield, Inactive
  <1>. HIDE DEF n
  <1>5. ShieldsFit'
    BY <1>1, <1>2, <1>3, <1>4 DEF AccountsInv, ShieldsFit, Shields
  <1>6. RegisteredFit'
    <2>1. \A v : (\E t \in shields : t.user = v) => (\E t \in shields' : t.user = v)
      BY <1>3, <1>4
    <2>. QED  BY <1>1, <1>4, <2>1 DEF AccountsInv, RegisteredFit
  <1>. QED  BY <1>5, <1>6

LEMMA AccountsInvNext == AccountsInv /\ [Next]_vars => AccountsInv'
  <1>. SUFFICES ASSUME AccountsInv, [Next]_vars  PROVE AccountsInv'
    OBVIOUS
  <1>0. UsersInv' /\ Keeps(users, users')
    BY UsersInvNext DEF AccountsInv
  <1>1. \/ UNCHANGED <<shields, registered>>
        \/ \E p \in Procs : SaveCustomer(p) \/ SaveShield(p)
        \/ \E s \in shields : DeactivateShield(s)
    <2>1. CASE UNCHANGED vars
      BY <2>1 DEF vars, accountVars
    <2>2. CASE AccountStep
      BY <2>2 DEF AccountStep, BeginRegister, InsertUser, CreateCustomer, FindNewUser, SaveLogin,
                  BeginAdditional, BeginAuthenticate, Deactivate
    <2>3. CASE BillingStep
      BY <2>3 DEF BillingStep, Send, HandleWithoutEffect, BeginPaymentFailed, BeginChange, SaveSub,
                  FindUser, SaveUser, accountVars
    <2>4. CASE Crash \/ UNCHANGED accountVars \/ \E p \in Procs : StatementFails(p)
      BY <2>4 DEF Crash, accountVars, StatementFails
    <2>. QED  BY <2>1, <2>2, <2>3, <2>4 DEF Next
  <1>. QED
    BY <1>0, <1>1, AddressesStay, CustomerSaved, ShieldSaved, ShieldDeactivated DEF AccountsInv

\* A set no two members of which differ has at most one.
LEMMA AtMostOne ==
  ASSUME NEW S, \A x, y \in S : x = y
  PROVE  Cardinality(S) <= 1
  <1>1. CASE S = {}
    BY <1>1, FS_EmptySet
  <1>2. CASE S # {}
    <2>1. PICK x : S = {x}
      BY <1>2
    <2>. QED  BY <2>1, FS_Singleton
  <1>. QED  BY <1>1, <1>2

\* Whatever registrations, log-ins, events, failing statements and crashes come
\* between, no two rows share an email address or a user name, no two shields an
\* address, and mail for any address has at most one receiver.
THEOREM AddressesHaveOneOwner == Spec => []OneOwnerEach
  <1>1. AccountsInv => OneOwnerEach
    <2>. SUFFICES ASSUME AccountsInv  PROVE OneOwnerEach
      OBVIOUS
    <2>1. ASSUME NEW x  PROVE Cardinality(GetUserByShieldAddress(x)) <= 1
      <3>. DEFINE S == GetUserByShieldAddress(x)
      <3>1. \A u, v \in S : u = v
        <4>1. CASE IsUserName(x)
          BY <4>1 DEF GetUserByShieldAddress, AccountsInv, UsersInv, Distinct, There
        <4>2. CASE ~IsUserName(x)
          <5>1. \A u \in S : \E s \in shields : s.address = x /\ s.user = u
            BY <4>2 DEF GetUserByShieldAddress
          <5>. HIDE DEF S
          <5>. QED  BY <5>1 DEF AccountsInv, ShieldsFit
        <4>. QED  BY <4>1, <4>2
      <3>. HIDE DEF S
      <3>2. Cardinality(S) <= 1
        BY <3>1, AtMostOne
      <3>. QED  BY <3>2 DEF S
    <2>. QED  BY <2>1 DEF OneOwnerEach, AccountsInv, UsersInv, Distinct, ShieldsFit, There
  <1>. QED  BY <1>1, AccountsInvInit, AccountsInvNext, PTL DEF Spec

\* Nobody is told of a registration that is not there in whole.
THEOREM SuccessIsAlwaysComplete == Spec => []SuccessIsComplete
  <1>1. AccountsInv => SuccessIsComplete
    <2>. SUFFICES ASSUME AccountsInv  PROVE SuccessIsComplete
      OBVIOUS
    <2>1. ASSUME NEW u \in UserIds, There(u), users[u].active
          PROVE  RouteEmail(TRUE, users[u].name) = "routed"
      <3>1. IsUserName(users[u].name)
        BY <2>1 DEF IsUserName
      <3>2. u \in GetUserByShieldAddress(users[u].name)
        BY <2>1, <3>1 DEF GetUserByShieldAddress
      <3>. QED  BY <3>2 DEF RouteEmail
    <2>. QED  BY <2>1 DEF SuccessIsComplete, AccountsInv, ShieldsFit, RegisteredFit
  <1>. QED  BY <1>1, AccountsInvInit, AccountsInvNext, PTL DEF Spec
-----------------------------------------------------------------------------
(* Sessions end.                                                           *)

\* Tokens are numbered in the order they were signed, and an access token lives
\* no longer than its session's refresh token lets it.
IssuedFit(tokens, now) ==
  /\ tokens \subseteq TokensOf(Owners) /\ IsFiniteSet(tokens)
  /\ \A t \in tokens :
       /\ t.id <= Cardinality(tokens) /\ t.since <= now
       /\ t.type = "access" => t.exp <= now + AccessLife /\ t.exp <= t.since + RefreshLife + AccessLife
       /\ t.type = "refresh" => t.session = t.id /\ t.exp = t.since + RefreshLife

\* A session that was logged out of signs no more tokens.
EndedFit(tokens, out, black) ==
  \A e \in out :
    /\ e[1] \in black /\ e[1] \in Nat /\ e[1] <= Cardinality(tokens) /\ e[2] \in Nat
    /\ \A t \in tokens : t.type = "access" /\ t.session = e[1] => t.exp <= e[2] + AccessLife

TokenInv == moment \in Nat /\ IssuedFit(issued, moment) /\ EndedFit(issued, ended, blacklist)

LEMMA TokenInvInit == Init => TokenInv
  BY FS_EmptySet DEF Init, TokenInit, TokenInv, IssuedFit, EndedFit

\* A token with the next number.
LEMMA TokenSigned ==
  ASSUME moment \in Nat, NEW tokens, IssuedFit(tokens, moment), NEW x \in TokensOf(Owners),
         x.id = Cardinality(tokens) + 1
  PROVE  /\ Cardinality(tokens) \in Nat /\ Cardinality(tokens \cup {x}) = Cardinality(tokens) + 1
         /\ IsFiniteSet(tokens \cup {x}) /\ x \notin tokens
  <1>1. IsFiniteSet(tokens) /\ Cardinality(tokens) \in Nat
    BY FS_CardinalityType DEF IssuedFit
  <1>2. x \notin tokens
    BY <1>1 DEF IssuedFit
  <1>. QED  BY <1>1, <1>2, FS_AddElement

LEMMA AccessSigned ==
  ASSUME TokenInv, NEW u \in Owners, NEW session \in Nat, NEW since \in Nat,
         since <= moment, moment < since + RefreshLife \/ since = moment,
         \A e \in ended : e[1] # session
  PROVE  LET x == AccessToken(Cardinality(issued) + 1, u, session, since)
         IN  /\ IssuedFit(issued \cup {x}, moment) /\ EndedFit(issued \cup {x}, ended, blacklist)
             /\ Cardinality(issued \cup {x}) = Cardinality(issued) + 1 /\ Cardinality(issued) \in Nat
  <1>. DEFINE x == AccessToken(Cardinality(issued) + 1, u, session, since)
  <1>0. Cardinality(issued) \in Nat
    BY FS_CardinalityType DEF TokenInv, IssuedFit
  <1>1. /\ x \in TokensOf(Owners) /\ x.id = Cardinality(issued) + 1 /\ x.type = "access"
        /\ x.exp = moment + AccessLife /\ x.session = session /\ x.since = since
    BY <1>0, TokenAssumption DEF AccessToken, TokensOf, TokenTypes, TokenInv
  <1>. HIDE DEF x
  <1>2. /\ Cardinality(issued \cup {x}) = Cardinality(issued) + 1
        /\ IsFiniteSet(issued \cup {x})
    BY <1>1, TokenSigned DEF TokenInv
  <1>3. IssuedFit(issued \cup {x}, moment)
    <2>1. \A t \in issued : t.id \in Nat
      BY DEF TokenInv, IssuedFit, TokensOf
    <2>. QED  BY <1>0, <1>1, <1>2, <2>1, TokenAssumption DEF TokenInv, IssuedFit
  <1>4. EndedFit(issued \cup {x}, ended, blacklist)
    BY <1>0, <1>1, <1>2 DEF TokenInv, EndedFit
  <1>. QED  BY <1>0, <1>2, <1>3, <1>4 DEF x

LEMMA RefreshSigned ==
  ASSUME moment \in Nat, NEW tokens, IssuedFit(tokens, moment), EndedFit(tokens, ended, blacklist),
         NEW u \in Owners
  PROVE  LET x == RefreshToken(Cardinality(tokens) + 1, u)
         IN  IssuedFit(tokens \cup {x}, moment) /\ EndedFit(tokens \cup {x}, ended, blacklist)
  <1>. DEFINE x == RefreshToken(Cardinality(tokens) + 1, u)
  <1>0. Cardinality(tokens) \in Nat
    BY FS_CardinalityType DEF IssuedFit
  <1>1. /\ x \in TokensOf(Owners) /\ x.id = Cardinality(tokens) + 1 /\ x.type = "refresh"
        /\ x.exp = moment + RefreshLife /\ x.session = x.id /\ x.since = moment
    BY <1>0, TokenAssumption DEF RefreshToken, TokensOf, TokenTypes
  <1>. HIDE DEF x
  <1>2. Cardinality(tokens \cup {x}) = Cardinality(tokens) + 1 /\ IsFiniteSet(tokens \cup {x})
    BY <1>1, TokenSigned
  <1>3. IssuedFit(tokens \cup {x}, moment)
    <2>1. \A t \in tokens : t.id \in Nat
      BY DEF IssuedFit, TokensOf
    <2>. QED  BY <1>0, <1>1, <1>2, <2>1 DEF IssuedFit
  <1>4. EndedFit(tokens \cup {x}, ended, blacklist)
    BY <1>0, <1>1, <1>2 DEF EndedFit
  <1>. QED  BY <1>3, <1>4 DEF x

LEMMA PairIssued ==
  ASSUME TokenInv, NEW u \in UserIds, IssuePair(u)
  PROVE  TokenInv'
  <1>. DEFINE n == Cardinality(issued)
              a == AccessToken(n + 1, u, n + 2, moment)
              r == RefreshToken(n + 2, u)
              one == issued \cup {a}
  <1>0. n \in Nat /\ moment \in Nat /\ u \in Owners
    BY FS_CardinalityType DEF TokenInv, IssuedFit, Owners
  <1>1. /\ IssuedFit(one, moment) /\ EndedFit(one, ended, blacklist)
        /\ Cardinality(one) = n + 1
    <2>1. \A e \in ended : e[1] # n + 2
      BY <1>0 DEF TokenInv, EndedFit
    <2>. HIDE DEF n
    <2>2. n + 2 \in Nat
      BY <1>0
    <2>3. LET x == AccessToken(Cardinality(issued) + 1, u, n + 2, moment)
          IN  /\ IssuedFit(issued \cup {x}, moment) /\ EndedFit(issued \cup {x}, ended, blacklist)
              /\ Cardinality(issued \cup {x}) = Cardinality(issued) + 1 /\ Cardinality(issued) \in Nat
      BY <1>0, <2>1, <2>2, AccessSigned
    <2>. QED  BY <2>3 DEF n
  <1>2. issued' = one \cup {r} /\ UNCHANGED <<moment, blacklist, ended>>
    BY DEF IssuePair
  <1>3. r = RefreshToken(Cardinality(one) + 1, u)
    BY <1>0, <1>1
  <1>. HIDE DEF one, r, n
  <1>4. IssuedFit(one \cup {r}, moment) /\ EndedFit(one \cup {r}, ended, blacklist)
    BY <1>0, <1>1, <1>3, RefreshSigned
  <1>. QED  BY <1>0, <1>2, <1>4 DEF TokenInv

LEMMA AccessRefreshed ==
  ASSUME TokenInv, NEW t \in issued, RefreshAccessToken(t)
  PROVE  TokenInv'
  <1>1. /\ t \in TokensOf(Owners) /\ t.type = "refresh" /\ t.session = t.id /\ moment \in Nat
        /\ t.exp = t.since + RefreshLife /\ moment < t.exp /\ t.id \notin blacklist /\ t.since <= moment
    BY DEF TokenInv, IssuedFit, RefreshAccessToken, Verifies
  <1>2. t.user \in Owners /\ t.session \in Nat /\ t.since \in Nat
    BY <1>1 DEF TokensOf
  <1>3. \A e \in ended : e[1] # t.session
    BY <1>1 DEF TokenInv, EndedFit
  <1>4. moment < t.since + RefreshLife
    BY <1>1
  <1>. DEFINE x == AccessToken(Cardinality(issued) + 1, t.user, t.session, t.since)
  <1>5. IssuedFit(issued \cup {x}, moment) /\ EndedFit(issued \cup {x}, ended, blacklist)
    BY <1>1, <1>2, <1>3, <1>4, AccessSigned
  <1>6. issued' = issued \cup {x} /\ UNCHANGED <<moment, blacklist, ended>>
    BY DEF RefreshAccessToken
  <1>. HIDE DEF x
  <1>. QED  BY <1>1, <1>5, <1>6 DEF TokenInv

LEMMA LoggedOut ==
  ASSUME TokenInv, NEW h \in issued \cup {NoToken}, NEW a \in OfType("access"),
         NEW r \in OfType("refresh"), LogoutUser(h, a, r)
  PROVE  TokenInv'
  <1>1. /\ blacklist' = blacklist \cup {t.id : t \in {h, a, r} \ {NoToken}}
        /\ UNCHANGED <<moment, issued>>
        /\ ended' = IF r = NoToken THEN ended ELSE ended \cup {<<r.session, moment>>}
    BY DEF LogoutUser
  <1>2. Cardinality(issued) \in Nat
    BY FS_CardinalityType DEF TokenInv, IssuedFit
  <1>3. CASE r = NoToken
    BY <1>1, <1>3 DEF TokenInv, EndedFit
  <1>4. CASE r # NoToken
    <2>1. r \in issued /\ r.type = "refresh"
      BY <1>4 DEF OfType
    <2>2. r \in TokensOf(Owners) /\ r.session = r.id /\ r.id <= Cardinality(issued)
      BY <2>1 DEF TokenInv, IssuedFit
    <2>3. r.id \in Nat /\ moment \in Nat
      BY <2>2 DEF TokensOf, TokenInv
    <2>4. r.id \in blacklist'
      BY <1>1, <1>4
    <2>. DEFINE n == <<r.session, moment>>
    <2>5. /\ n[1] \in blacklist' /\ n[1] \in Nat /\ n[1] <= Cardinality(issued) /\ n[2] \in Nat
          /\ \A t \in issued : t.type = "access" /\ t.session = n[1] => t.exp <= n[2] + AccessLife
      BY <2>2, <2>3, <2>4 DEF TokenInv, IssuedFit
    <2>6. ended' = ended \cup {n} /\ blacklist \subseteq blacklist'
      BY <1>1, <1>4
    <2>. HIDE DEF n
    <2>7. EndedFit(issued, ended', blacklist')
      BY <2>5, <2>6 DEF TokenInv, EndedFit
    <2>. QED  BY <1>1, <2>7 DEF TokenInv
  <1>. QED  BY <1>3, <1>4

LEMMA TokenInvNext == AccountsInv /\ TokenInv /\ [Next]_vars => TokenInv'
  <1>. SUFFICES ASSUME AccountsInv, TokenInv, [Next]_vars  PROVE TokenInv'
    OBVIOUS
  <1>1. \/ UNCHANGED tokenVars \/ TokenStep \/ LoseBlacklist
        \/ \E u \in UserIds : IssuePair(u)
    <2>1. CASE UNCHANGED vars
      BY <2>1 DEF vars
    <2>2. CASE AccountStep
      <3>1. ASSUME NEW p \in Procs, SaveShield(p) \/ SaveLogin(p)
            PROVE  UNCHANGED tokenVars \/ \E u \in UserIds : IssuePair(u)
        BY <3>1 DEF SaveShield, SaveLogin, Busy, AccountsInv, UsersInv, HandlerFits
      <3>. QED
        BY <2>2, <3>1 DEF AccountStep, BeginRegister, InsertUser, CreateCustomer, SaveCustomer,
              FindNewUser, BeginAdditional, BeginAuthenticate, Deactivate, DeactivateShield
    <2>3. CASE BillingStep
      BY <2>3 DEF BillingStep, Send, HandleWithoutEffect, BeginPaymentFailed, BeginChange, SaveSub,
                  FindUser, SaveUser
    <2>4. CASE Crash \/ \E p \in Procs : StatementFails(p)
      BY <2>4 DEF Crash, StatementFails
    <2>5. CASE TokenStep \/ \E u \in UserIds : LoginUser(u)
      BY <2>5 DEF LoginUser
    <2>. QED  BY <2>1, <2>2, <2>3, <2>4, <2>5 DEF Next
  <1>2. CASE UNCHANGED tokenVars
    BY <1>2 DEF tokenVars, TokenInv
  <1>3. CASE LoseBlacklist
    BY <1>3 DEF LoseBlacklist, TokenInv, EndedFit
  <1>4. ASSUME NEW h, NEW c, AuthenticateRequest(h, c)  PROVE TokenInv'
    BY <1>4 DEF AuthenticateRequest, TokenInv
  <1>5. CASE Elapse
    <2>1. moment' = moment + 1 /\ UNCHANGED <<issued, blacklist, ended>>
      BY <1>5 DEF Elapse
    <2>2. \A t \in issued : t.exp \in Nat /\ t.since \in Nat
      BY DEF TokenInv, IssuedFit, TokensOf
    <2>. QED  BY <2>1, <2>2, TokenAssumption DEF TokenInv, IssuedFit
  <1>. QED
    BY <1>1, <1>2, <1>3, <1>4, <1>5, PairIssued, AccessRefreshed, LoggedOut DEF TokenStep

\* A session ends a refresh token's and an access token's life after the log-in at
\* the latest, and within an access token's life of a log-out with its refresh
\* token unless the process restarts.
THEOREM SessionsAlwaysEnd == Spec => SessionsEnd
  <1>1. ASSUME TokenInv, [Next]_vars, NEW t \in issued, Admits(t)
        PROVE  /\ moment < t.since + RefreshLife + AccessLife
               /\ \A e \in ended : e[1] = t.session => moment < e[2] + AccessLife
    <2>1. t \in TokensOf(Owners)
      BY <1>1 DEF TokenInv, IssuedFit
    <2>2. t # NoToken
      BY <2>1, AccountAssumption DEF Owners
    <2>3. PICK h, c : AuthenticateRequest(h, c)
      <3>1. admitted' # admitted
        BY <1>1 DEF Admits
      <3>2. TokenStep
        BY <1>1, <3>1 DEF vars, tokenVars, Next, AccountStep, BeginRegister, InsertUser, CreateCustomer,
              SaveCustomer, FindNewUser, SaveShield, SaveLogin, BeginAdditional, BeginAuthenticate,
              Deactivate, DeactivateShield, IssuePair, StatementFails, LoginUser, BillingStep, Send,
              HandleWithoutEffect, BeginPaymentFailed, BeginChange, SaveSub, FindUser, SaveUser,
              Crash, LoseBlacklist
      <3>. QED  BY <3>1, <3>2 DEF TokenStep, RefreshAccessToken, LogoutUser, Elapse
    <2>4. t.type = "access" /\ moment < t.exp
      BY <1>1, <2>2, <2>3 DEF AuthenticateRequest, Admits, Verifies
    <2>5. t.exp \in Nat /\ t.since \in Nat /\ moment \in Nat
      BY <1>1, <2>1 DEF TokensOf, TokenInv
    <2>6. t.exp <= t.since + RefreshLife + AccessLife
      BY <1>1, <2>4 DEF TokenInv, IssuedFit
    <2>7. ASSUME NEW e \in ended, e[1] = t.session  PROVE moment < e[2] + AccessLife
      <3>1. t.exp <= e[2] + AccessLife /\ e[2] \in Nat
        BY <1>1, <2>4, <2>7 DEF TokenInv, EndedFit
      <3>. QED  BY <2>4, <2>5, <3>1, TokenAssumption
    <2>. QED  BY <2>4, <2>5, <2>6, <2>7, TokenAssumption
  <1>2. TokenInv /\ [Next]_vars =>
          [\A t \in issued : Admits(t) =>
             /\ moment < t.since + RefreshLife + AccessLife
             /\ \A e \in ended : e[1] = t.session => moment < e[2] + AccessLife]_tokenVars
    BY <1>1
  <1>. QED
    BY <1>2, AccountsInvInit, AccountsInvNext, TokenInvInit, TokenInvNext, PTL DEF Spec, SessionsEnd
-----------------------------------------------------------------------------
(* Repeating an event repairs.                                             *)

\* What a handler that moves on holds of a customer: nothing, what it held, what
\* its user's row says, or a customer nobody has.
Reads(p, h) ==
  \/ h.row.customer = None
  \/ h.user = procs[p].user /\ h.row.customer = procs[p].row.customer
  \/ h.user \in UserIds /\ h.row.customer = users[h.user].customer
  \/ /\ \A u \in UserIds : users[u].customer # h.row.customer
     /\ \A q \in Procs : procs[q].row.customer # h.row.customer

\* The handler of an event goes on with its event, or begins with one.
Follows(p, h) ==
  h.kind = "stripe" =>
    \/ /\ procs[p].kind = "stripe" /\ h.event = procs[p].event
       /\ h.step = "save_user" => procs[p].step = "find_user"
       /\ h.step = "find_user" => SaveSub(p)
    \/ /\ procs[p] = Idle /\ h.event.alone = IF Quiet THEN begun + 1 ELSE 0
       /\ h.step = "save_sub" \/ sent[h.event.index].type = "payment_failed"
       /\ h.step # "find_user"

Moves(p, h) == procs' = [procs EXCEPT ![p] = h] /\ Follows(p, h)

\* The handler saves its row over its user's.
Saves(p, h) ==
  /\ procs[p].user \in UserIds
  /\ users' = [users EXCEPT ![procs[p].user] = procs[p].row]
  /\ h = Idle \/ (h.user = procs[p].user /\ h.row = procs[p].row)

MoveOf(p, h) == Moves(p, h) /\ ((users' = users /\ Reads(p, h)) \/ Saves(p, h))

LEMMA IdleFollows == \A p : Follows(p, Idle)
  BY IdleType DEF Follows

LEMMA Frees ==
  ASSUME NEW p \in Procs, Free(p), UNCHANGED users
  PROVE  \E h \in Handlers : MoveOf(p, h)
  BY IdleType, NoRowType DEF Free, MoveOf, Moves, Follows, Reads

\* A handler goes on that knows what it knew.
LEMMA Continues ==
  ASSUME UsersInv, NEW p \in Procs, NEW step \in {"customer", "find_user", "shield"}, Goto(p, step),
         procs[p].kind # "stripe"
  PROVE  \E h \in Handlers : /\ procs' = [procs EXCEPT ![p] = h] /\ h.kind # "stripe"
                            /\ h.user = procs[p].user /\ h.row = procs[p].row
  <1>1. procs' = [procs EXCEPT ![p] = Stepped(procs[p], step)]
    BY Going DEF UsersInv, AccountsType
  <1>2. procs[p] \in Handlers
    BY DEF UsersInv, AccountsType
  <1>3. /\ Stepped(procs[p], step) \in Handlers /\ Stepped(procs[p], step).kind = procs[p].kind
        /\ Stepped(procs[p], step).user = procs[p].user /\ Stepped(procs[p], step).row = procs[p].row
    BY <1>2, SteppedType
  <1>. QED  BY <1>1, <1>3

LEMMA AccountMoves ==
  ASSUME UsersInv, AccountStep
  PROVE  \/ UNCHANGED <<users, procs>>
         \/ \E p \in Procs, h \in Handlers : MoveOf(p, h)
         \/ procs' = procs /\ \E u \in UserIds : users' = [users EXCEPT ![u].active = FALSE]
  <1>0. AccountsType /\ procs \in [Procs -> Handlers]
    BY DEF UsersInv, AccountsType
  <1>. DEFINE Goal == \E p \in Procs, h \in Handlers : MoveOf(p, h)
  <1>1. ASSUME NEW p \in Procs, NEW v \in Versions, NEW e \in Emails, BeginRegister(p, v, e)  PROVE Goal
    <2>1. PICK h \in Handlers : /\ procs' = [procs EXCEPT ![p] = h] /\ h.kind \in Versions
                               /\ h.row.customer = None
      BY <1>0, <1>1, RegisterBegins
    <2>2. MoveOf(p, h)
      BY <1>1, <2>1 DEF BeginRegister, MoveOf, Moves, Follows, Reads, Versions
    <2>. QED  BY <2>2
  <1>2. ASSUME NEW p \in Procs, InsertUser(p)  PROVE Goal
    <2>1. procs[p].kind \in Versions /\ procs[p].user \in UserIds
      BY <1>2 DEF InsertUser, UsersInv, HandlerFits
    <2>2. CASE Unique(procs[p].row) /\ ~There(procs[p].user)
      <3>1. PICK step \in {"customer", "find_user", "shield"} : Goto(p, step)
        BY <1>2, <2>1, <2>2 DEF InsertUser, Versions
      <3>2. procs[p].kind # "stripe"
        BY <2>1 DEF Versions
      <3>3. PICK h \in Handlers : /\ procs' = [procs EXCEPT ![p] = h] /\ h.kind # "stripe"
                                 /\ h.user = procs[p].user /\ h.row = procs[p].row
        BY <3>1, <3>2, Continues
      <3>4. MoveOf(p, h)
        BY <1>2, <2>1, <2>2, <3>3 DEF InsertUser, MoveOf, Moves, Follows, Saves
      <3>. QED  BY <3>4
    <2>3. CASE ~(Unique(procs[p].row) /\ ~There(procs[p].user))
      BY <1>2, <2>3, Frees DEF InsertUser
    <2>. QED  BY <2>2, <2>3
  <1>3. ASSUME NEW p \in Procs, CreateCustomer(p)  PROVE Goal
    <2>1. PICK c \in Customers :
            /\ \A u \in UserIds : users[u].customer # c
            /\ \A q \in Procs : procs[q].row.customer # c
            /\ procs' = [procs EXCEPT ![p].row.customer = c, ![p].step = "save"]
      BY <1>3 DEF CreateCustomer
    <2>. DEFINE was == procs[p]
                row == [was.row EXCEPT !.customer = c]
                h == [was EXCEPT !.row = row, !.step = "save"]
    <2>2. was \in Handlers /\ was.row \in Rows /\ was.kind = "route"
      BY <1>0, <1>3 DEF CreateCustomer, Busy, Handlers
    <2>3. procs' = [procs EXCEPT ![p] = h]
      BY <1>0, <2>1, <2>2 DEF Handlers
    <2>. HIDE DEF was
    <2>4. row \in Rows /\ row.customer = c
      BY <2>2 DEF Rows
    <2>. HIDE DEF row
    <2>5. h \in Handlers /\ h.kind = "route" /\ h.row = row
      BY <2>2, <2>4 DEF Handlers
    <2>. HIDE DEF h
    <2>6. MoveOf(p, h)
      BY <1>3, <2>1, <2>3, <2>4, <2>5 DEF CreateCustomer, MoveOf, Moves, Follows, Reads
    <2>. QED  BY <2>5, <2>6
  <1>4. ASSUME NEW p \in Procs, SaveCustomer(p) \/ SaveLogin(p)  PROVE Goal
    <2>1. procs[p].user \in UserIds
      BY <1>4 DEF SaveCustomer, SaveLogin, Busy, UsersInv, HandlerFits
    <2>2. procs' = [procs EXCEPT ![p] = Idle] /\ users' = [users EXCEPT ![procs[p].user] = procs[p].row]
      BY <1>4 DEF SaveCustomer, SaveLogin, Free
    <2>3. MoveOf(p, Idle)
      BY <2>1, <2>2, IdleFollows DEF MoveOf, Moves, Saves
    <2>. QED  BY <2>3, IdleType
  <1>5. ASSUME NEW p \in Procs, FindNewUser(p)  PROVE Goal
    <2>1. procs[p].kind # "stripe"
      BY <1>5 DEF FindNewUser, Busy
    <2>2. CASE Goto(p, "shield")
      <3>1. PICK h \in Handlers : /\ procs' = [procs EXCEPT ![p] = h] /\ h.kind # "stripe"
                                 /\ h.user = procs[p].user /\ h.row = procs[p].row
        BY <2>1, <2>2, Continues
      <3>2. MoveOf(p, h)
        BY <1>5, <3>1 DEF FindNewUser, MoveOf, Moves, Follows, Reads
      <3>. QED  BY <3>2
    <2>3. CASE Free(p)
      BY <1>5, <2>3, Frees DEF FindNewUser
    <2>. QED  BY <1>5, <2>2, <2>3 DEF FindNewUser
  <1>6. ASSUME NEW p \in Procs, SaveShield(p)  PROVE Goal
    BY <1>6, Frees DEF SaveShield
  <1>7. ASSUME NEW p \in Procs, NEW u \in UserIds, BeginAdditional(p, u)  PROVE Goal
    <2>1. PICK h \in Handlers : /\ procs' = [procs EXCEPT ![p] = h] /\ h.kind = "additional"
                               /\ h.row = NoRow
      BY <1>0, <1>7, AdditionalBegins
    <2>2. MoveOf(p, h)
      BY <1>7, <2>1, NoRowType DEF BeginAdditional, MoveOf, Moves, Follows, Reads
    <2>. QED  BY <2>2
  <1>8. ASSUME NEW p \in Procs, NEW u \in UserIds, BeginAuthenticate(p, u)  PROVE Goal
    <2>1. PICK h \in Handlers : /\ procs' = [procs EXCEPT ![p] = h] /\ h.kind = "authenticate"
                               /\ h.user = u /\ h.row.customer = users[u].customer
      BY <1>0, <1>8, AuthenticateBegins
    <2>2. MoveOf(p, h)
      BY <1>8, <2>1 DEF BeginAuthenticate, MoveOf, Moves, Follows, Reads
    <2>. QED  BY <2>2
  <1>. HIDE DEF Goal
  <1>9. ASSUME NEW u \in UserIds, Deactivate(u)
        PROVE  procs' = procs /\ users' = [users EXCEPT ![u].active = FALSE]
    BY <1>9 DEF Deactivate
  <1>10. ASSUME NEW s \in shields, DeactivateShield(s)  PROVE UNCHANGED <<users, procs>>
    BY <1>10 DEF DeactivateShield
  <1>11. \/ Goal
         \/ UNCHANGED <<users, procs>>
         \/ procs' = procs /\ \E u \in UserIds : users' = [users EXCEPT ![u].active = FALSE]
    <2>1. CASE \E s \in shields : DeactivateShield(s)
      BY <2>1, <1>10
    <2>2. CASE \E u \in UserIds : Deactivate(u)
      BY <2>2, <1>9
    <2>3. ASSUME NEW p \in Procs,
                 \/ \E v \in Versions, e \in Emails : BeginRegister(p, v, e)
                 \/ InsertUser(p) \/ CreateCustomer(p) \/ SaveCustomer(p)
                 \/ FindNewUser(p) \/ SaveShield(p) \/ SaveLogin(p)
                 \/ \E u \in UserIds : BeginAdditional(p, u) \/ BeginAuthenticate(p, u)
          PROVE  Goal
      BY <2>3, <1>1, <1>2, <1>3, <1>4, <1>5, <1>6, <1>7, <1>8
    <2>. QED  BY <2>1, <2>2, <2>3 DEF AccountStep
  <1>. QED  BY <1>11 DEF Goal

LEMMA BillingMoves ==
  ASSUME UsersInv, BillingStep
  PROVE  \/ UNCHANGED <<users, procs>>
         \/ \E p \in Procs, h \in Handlers : MoveOf(p, h)
  <1>1. ASSUME NEW p \in Procs, NEW i \in DOMAIN sent, BeginPaymentFailed(p, i)
        PROVE  UNCHANGED <<users, procs>> \/ \E h \in Handlers : MoveOf(p, h)
    <2>1. UNCHANGED users /\ procs[p] = Idle
      BY <1>1 DEF BeginPaymentFailed
    <2>2. ASSUME NEW h \in Handlers,
                 /\ procs' = [procs EXCEPT ![p] = h] /\ h.step = "save_user"
                 /\ h.user \in OfCustomer(sent[i].customer) /\ h.row.customer = sent[i].customer
                 /\ sent[i].type = "payment_failed"
                 /\ h.event.index = i /\ h.event.alone = IF Quiet THEN begun + 1 ELSE 0
          PROVE  MoveOf(p, h)
      BY <2>1, <2>2 DEF MoveOf, Moves, Follows, Reads, OfCustomer
    <2>. QED  BY <1>1, <2>1, <2>2, FailureBegins
  <1>2. ASSUME NEW p \in Procs, NEW i \in DOMAIN sent, BeginChange(p, i)
        PROVE  UNCHANGED <<users, procs>> \/ \E h \in Handlers : MoveOf(p, h)
    <2>1. UNCHANGED users /\ procs[p] = Idle
      BY <1>2 DEF BeginChange
    <2>2. ASSUME NEW h \in Handlers,
                 /\ procs' = [procs EXCEPT ![p] = h] /\ h.step = "save_sub" /\ h.row = NoRow
                 /\ h.event.alone = IF Quiet THEN begun + 1 ELSE 0
          PROVE  MoveOf(p, h)
      BY <2>1, <2>2, NoRowType DEF MoveOf, Moves, Follows, Reads
    <2>. QED  BY <1>2, <2>1, <2>2, ChangeBegins
  <1>3. ASSUME NEW p \in Procs, SaveSub(p)  PROVE \E h \in Handlers : MoveOf(p, h)
    <2>1. PICK h \in Handlers :
            /\ procs' = [procs EXCEPT ![p] = h] /\ h.step = "find_user"
            /\ h.row = procs[p].row /\ h.user = procs[p].user /\ h.event = procs[p].event
      BY <1>3, SubSaved
    <2>2. UNCHANGED users /\ procs[p].kind = "stripe"
      BY <1>3 DEF SaveSub, Busy
    <2>3. MoveOf(p, h)
      BY <1>3, <2>1, <2>2 DEF MoveOf, Moves, Follows, Reads
    <2>. QED  BY <2>3
  <1>4. ASSUME NEW p \in Procs, FindUser(p)  PROVE \E h \in Handlers : MoveOf(p, h)
    <2>1. UNCHANGED users /\ procs[p].kind = "stripe" /\ procs[p].step = "find_user"
      BY <1>4 DEF FindUser, Busy
    <2>2. CASE procs' = [procs EXCEPT ![p] = Idle]
      BY <2>1, <2>2, Frees DEF Free
    <2>3. ASSUME NEW h \in Handlers,
                 /\ procs' = [procs EXCEPT ![p] = h] /\ h.step = "save_user"
                 /\ h.user \in OfCustomer(EventOf(p).customer) /\ h.row.customer = EventOf(p).customer
                 /\ h.event = procs[p].event
          PROVE  MoveOf(p, h)
      BY <2>1, <2>3 DEF MoveOf, Moves, Follows, Reads, OfCustomer
    <2>. QED  BY <1>4, <2>2, <2>3, UserFound
  <1>5. ASSUME NEW p \in Procs, SaveUser(p)  PROVE \E h \in Handlers : MoveOf(p, h)
    <2>1. procs[p].user \in UserIds
      BY <1>5 DEF SaveUser, Busy, UsersInv, HandlerFits
    <2>2. procs' = [procs EXCEPT ![p] = Idle] /\ users' = [users EXCEPT ![procs[p].user] = procs[p].row]
      BY <1>5 DEF SaveUser, Free
    <2>3. MoveOf(p, Idle)
      BY <2>1, <2>2, IdleFollows DEF MoveOf, Moves, Saves
    <2>. QED  BY <2>3, IdleType
  <1>6. ASSUME NEW s, NEW c, Send(s, c)  PROVE UNCHANGED <<users, procs>>
    BY <1>6 DEF Send, accountVars
  <1>7. ASSUME NEW i, HandleWithoutEffect(i)  PROVE UNCHANGED <<users, procs>>
    BY <1>7 DEF HandleWithoutEffect, accountVars
  <1>. QED  BY <1>1, <1>2, <1>3, <1>4, <1>5, <1>6, <1>7 DEF BillingStep

LEMMA StepMoves ==
  ASSUME UsersInv, [Next]_vars
  PROVE  \/ UNCHANGED <<users, procs>>
         \/ \E p \in Procs, h \in Handlers : MoveOf(p, h)
         \/ procs' = procs /\ \E u \in UserIds : users' = [users EXCEPT ![u].active = FALSE]
         \/ users' = users /\ procs' = [p \in Procs |-> Idle]
  <1>1. CASE UNCHANGED vars
    BY <1>1 DEF vars, accountVars
  <1>2. CASE AccountStep
    BY <1>2, AccountMoves
  <1>3. CASE BillingStep
    BY <1>3, BillingMoves
  <1>4. ASSUME NEW p \in Procs, StatementFails(p)  PROVE \E h \in Handlers : MoveOf(p, h)
    BY <1>4, Frees DEF StatementFails
  <1>5. CASE Crash
    BY <1>5 DEF Crash
  <1>6. CASE UNCHANGED accountVars
    BY <1>6 DEF accountVars
  <1>. QED  BY <1>1, <1>2, <1>3, <1>4, <1>5, <1>6 DEF Next

\* Who has a customer, in the user's row or in a handler's.
Holds(us, ps, u, c) ==
  \/ us[u].customer = c
  \/ \E p \in Procs : ps[p].user = u /\ ps[p].row.customer = c

\* A customer is one user's.
CustomersFit(us, ps) ==
  \A c \in Customers, u, v \in UserIds : Holds(us, ps, u, c) /\ Holds(us, ps, v, c) => u = v

\* A handler that began alone when the last one began is alone.
AloneFit ==
  \A p \in Procs :
    /\ procs[p] # Idle => begun > 0
    /\ procs[p].kind = "stripe" =>
         /\ procs[p].event.alone <= begun
         /\ procs[p].event.alone = begun => \A q \in Procs : q # p => procs[q] = Idle

\* What it saved of the subscription is still there.
SubsFit ==
  \A p \in Procs :
    procs[p].kind = "stripe" /\ procs[p].event.alone = begun
      /\ procs[p].step \in {"find_user", "save_user"} /\ EventOf(p).type # "payment_failed"
    => Says(subs[EventOf(p).sub], EventOf(p))

RepairInv == UsersInv /\ CustomersFit(users, procs) /\ AloneFit /\ SubsFit

LEMMA RepairInvInit == Init => RepairInv
  <1>. SUFFICES ASSUME Init  PROVE RepairInv
    OBVIOUS
  <1>1. \A p \in Procs : procs[p] = Idle
    BY DEF Init, AccountInit
  <1>2. AloneFit /\ SubsFit
    BY <1>1, IdleType DEF AloneFit, SubsFit
  <1>3. None \notin Customers
    BY AccountAssumption
  <1>4. \A u \in UserIds : users[u].customer # None =>
          u \in DOMAIN campaign.users /\ users[u] = campaign.users[u]
    BY NoRowType DEF Init
  <1>5. \A u, v \in UserIds : u # v /\ users[u].customer # None => users[u].customer # users[v].customer
    BY <1>4, CampaignAssumption DEF Init
  <1>6. \A c \in Customers, u \in UserIds : Holds(users, procs, u, c) => users[u].customer = c
    BY <1>1, <1>3, IdleType, NoRowType DEF Holds
  <1>7. CustomersFit(users, procs)
    BY <1>3, <1>5, <1>6 DEF CustomersFit
  <1>. QED  BY <1>2, <1>7, UsersInvInit DEF RepairInv

\* The handler of an event has one.
LEMMA AloneType ==
  ASSUME UsersInv, NEW p \in Procs, procs[p].kind = "stripe"
  PROVE  procs[p].event.alone \in Nat /\ procs[p] # Idle
  BY IdleType DEF UsersInv, EventFits

LEMMA CustomersKept ==
  ASSUME RepairInv, [Next]_vars
  PROVE  CustomersFit(users', procs')
  <1>0. /\ users \in [UserIds -> Rows] /\ procs \in [Procs -> Handlers] /\ None \notin Customers
        /\ CustomersFit(users, procs) /\ Idle \in Handlers /\ Idle.row.customer = None
    BY AccountAssumption, IdleType, NoRowType DEF RepairInv, UsersInv, AccountsType
  <1>1. CASE UNCHANGED <<users, procs>>
    BY <1>0, <1>1
  <1>2. CASE procs' = procs /\ \E u \in UserIds : users' = [users EXCEPT ![u].active = FALSE]
    <2>1. \A v \in UserIds : users'[v].customer = users[v].customer
      BY <1>0, <1>2 DEF Rows
    <2>. QED  BY <1>0, <1>2, <2>1 DEF CustomersFit, Holds
  <1>3. CASE users' = users /\ procs' = [p \in Procs |-> Idle]
    <2>1. \A c \in Customers, v \in UserIds : Holds(users', procs', v, c) => Holds(users, procs, v, c)
      BY <1>0, <1>3 DEF Holds
    <2>. QED  BY <1>0, <2>1 DEF CustomersFit
  <1>4. ASSUME NEW p \in Procs, NEW h \in Handlers, MoveOf(p, h)  PROVE CustomersFit(users', procs')
    <2>1. procs'[p] = h /\ \A q \in Procs : q # p => procs'[q] = procs[q]
      BY <1>0, <1>4, HandlerChanges DEF MoveOf, Moves
    <2>2. CASE Saves(p, h)
      <3>1. \A v \in UserIds : users'[v] = IF v = procs[p].user THEN procs[p].row ELSE users[v]
        BY <1>0, <2>2 DEF Saves
      <3>2. \A c \in Customers, v \in UserIds : Holds(users', procs', v, c) => Holds(users, procs, v, c)
        BY <1>0, <2>1, <2>2, <3>1 DEF Holds, Saves
      <3>. QED  BY <1>0, <3>2 DEF CustomersFit
    <2>3. CASE users' = users /\ Reads(p, h)
      <3>1. \A c \in Customers, v \in UserIds :
              Holds(users', procs', v, c) =>
                Holds(users, procs, v, c) \/ (v = h.user /\ c = h.row.customer)
        BY <2>1, <2>3 DEF Holds
      <3>2. CASE /\ \A u \in UserIds : users[u].customer # h.row.customer
                 /\ \A q \in Procs : procs[q].row.customer # h.row.customer
        <4>1. \A v \in UserIds : ~Holds(users, procs, v, h.row.customer)
          BY <3>2 DEF Holds
        <4>. QED  BY <1>0, <3>1, <4>1 DEF CustomersFit
      <3>3. CASE \/ h.row.customer = None
                 \/ h.user = procs[p].user /\ h.row.customer = procs[p].row.customer
                 \/ h.user \in UserIds /\ h.row.customer = users[h.user].customer
        <4>1. \A c \in Customers, v \in UserIds :
                Holds(users', procs', v, c) => Holds(users, procs, v, c)
          BY <1>0, <3>1, <3>3 DEF Holds
        <4>. QED  BY <1>0, <4>1 DEF CustomersFit
      <3>. QED  BY <2>3, <3>2, <3>3 DEF Reads
    <2>. QED  BY <1>4, <2>2, <2>3 DEF MoveOf
  <1>. QED  BY <1>1, <1>2, <1>3, <1>4, StepMoves DEF RepairInv

\* Handlers go on with the event they have, or begin and are counted.
LEMMA HandlersFollow ==
  ASSUME RepairInv, [Next]_vars
  PROVE  \A p \in Procs :
           \/ procs'[p] = procs[p]
           \/ procs'[p] = Idle
           \/ /\ Follows(p, procs'[p])
              /\ \A q \in Procs : q # p => procs'[q] = procs[q]
  <1>. SUFFICES ASSUME NEW p \in Procs
                PROVE  \/ procs'[p] = procs[p]
                       \/ procs'[p] = Idle
                       \/ /\ Follows(p, procs'[p])
                          /\ \A q \in Procs : q # p => procs'[q] = procs[q]
    OBVIOUS
  <1>0. procs \in [Procs -> Handlers]
    BY DEF RepairInv, UsersInv, AccountsType
  <1>1. ASSUME NEW r \in Procs, NEW h \in Handlers, MoveOf(r, h)
        PROVE  \/ procs'[p] = procs[p]
               \/ /\ Follows(p, procs'[p])
                  /\ \A q \in Procs : q # p => procs'[q] = procs[q]
    <2>1. procs'[r] = h /\ \A q \in Procs : q # r => procs'[q] = procs[q]
      BY <1>0, <1>1, HandlerChanges DEF MoveOf, Moves
    <2>. QED  BY <1>1, <2>1 DEF MoveOf, Moves
  <1>. QED  BY <1>1, StepMoves DEF RepairInv

LEMMA Counted ==
  ASSUME RepairInv, [Next]_vars
  PROVE  /\ begun \in Nat /\ begun' \in Nat /\ begun' >= begun
         /\ (\E p \in Procs : procs[p] = Idle /\ procs'[p] # Idle) => begun' > begun
  <1>1. begun \in Nat
    BY DEF RepairInv, UsersInv, AccountsType
  <1>2. CASE UNCHANGED vars
    BY <1>1, <1>2 DEF vars, accountVars
  <1>3. CASE Next
    BY <1>1, <1>3, BegunCounts DEF Next
  <1>. QED  BY <1>2, <1>3

LEMMA AloneKept ==
  ASSUME RepairInv, [Next]_vars
  PROVE  AloneFit'
  <1>1. /\ begun \in Nat /\ begun' \in Nat /\ begun' >= begun
        /\ \A p \in Procs : procs[p] = Idle /\ procs'[p] # Idle => begun' > begun
    BY Counted
  <1>. SUFFICES ASSUME NEW p \in Procs
                PROVE  /\ procs'[p] # Idle => begun' > 0
                       /\ procs'[p].kind = "stripe" =>
                            /\ procs'[p].event.alone <= begun'
                            /\ procs'[p].event.alone = begun' =>
                                 \A q \in Procs : q # p => procs'[q] = Idle
    BY DEF AloneFit
  <1>2. procs'[p] # Idle => begun' > 0
    BY <1>1 DEF RepairInv, AloneFit
  <1>3. CASE procs'[p].kind = "stripe" /\ procs[p].kind = "stripe" /\ procs'[p].event = procs[p].event
    <2>1. procs[p].event.alone \in Nat /\ procs[p].event.alone <= begun
      BY <1>3, AloneType DEF RepairInv, AloneFit
    <2>2. procs[p].event.alone = begun' => begun' = begun
      BY <1>1, <2>1
    <2>. QED  BY <1>1, <1>2, <1>3, <2>1, <2>2 DEF RepairInv, AloneFit
  <1>4. CASE /\ procs'[p].kind = "stripe" /\ procs[p] = Idle
             /\ procs'[p].event.alone = IF Quiet THEN begun + 1 ELSE 0
             /\ \A q \in Procs : q # p => procs'[q] = procs[q]
    <2>1. procs'[p] # Idle
      BY <1>4, IdleType
    <2>2. begun' > begun
      BY <1>1, <1>4, <2>1
    <2>. QED  BY <1>1, <1>2, <1>4, <2>2 DEF Quiet
  <1>. QED  BY <1>2, <1>3, <1>4, HandlersFollow, IdleType DEF Follows

\* An event that was sent stays the same.
LEMMA SentStays ==
  ASSUME RepairInv, [Next]_vars
  PROVE  \A i \in DOMAIN sent : sent'[i] = sent[i]
  <1>0. sent \in Seq(Events)
    BY DEF RepairInv, UsersInv, AccountsType
  <1>1. CASE UNCHANGED sent
    BY <1>1
  <1>2. ASSUME NEW s \in SubIds, NEW c \in Customers, Send(s, c)
        PROVE  \A i \in DOMAIN sent : sent'[i] = sent[i]
    <2>1. PICK e \in Events : sent' = Append(sent, e)
      BY <1>2, EventSent
    <2>. QED  BY <1>0, <2>1, Grown
  <1>3. UNCHANGED sent \/ \E s \in SubIds, c \in Customers : Send(s, c)
    <2>1. CASE BillingStep
      BY <2>1 DEF BillingStep, HandleWithoutEffect, BeginPaymentFailed, BeginChange, SaveSub,
                  FindUser, SaveUser
    <2>. QED  BY <2>1 DEF Next, vars, billingVars, Crash
  <1>. QED  BY <1>1, <1>2, <1>3

\* No event is sent in the step in which a handler begins.
LEMMA OthersSend ==
  ASSUME RepairInv, [Next]_vars, NEW p \in Procs, procs[p] = Idle, procs'[p] # Idle
  PROVE  UNCHANGED sent
  <1>1. CASE BillingStep
    BY <1>1 DEF BillingStep, Send, accountVars, HandleWithoutEffect, BeginPaymentFailed, BeginChange,
                SaveSub, FindUser, SaveUser
  <1>. QED  BY <1>1 DEF Next, vars, billingVars, Crash

\* Rows of subscriptions are saved by SaveSub.
LEMMA SubsStay ==
  ASSUME [Next]_vars, \A p \in Procs : ~SaveSub(p)
  PROVE  UNCHANGED subs
  <1>1. CASE BillingStep
    BY <1>1 DEF BillingStep, Send, HandleWithoutEffect, BeginPaymentFailed, BeginChange, FindUser, SaveUser
  <1>. QED  BY <1>1 DEF Next, vars, billingVars, Crash

LEMMA SubsKept ==
  ASSUME RepairInv, [Next]_vars
  PROVE  SubsFit'
  <1>. SUFFICES ASSUME NEW p \in Procs, procs'[p].kind = "stripe", procs'[p].event.alone = begun',
                       procs'[p].step \in {"find_user", "save_user"},
                       sent'[procs'[p].event.index].type # "payment_failed"
                PROVE  Says(subs'[sent'[procs'[p].event.index].sub], sent'[procs'[p].event.index])
    BY DEF SubsFit, EventOf
  <1>1. /\ begun \in Nat /\ begun' \in Nat /\ begun' >= begun
        /\ \A q \in Procs : procs[q] = Idle /\ procs'[q] # Idle => begun' > begun
    BY Counted
  <1>2. procs'[p] # Idle
    BY IdleType
  <1>3. CASE procs[p].kind = "stripe" /\ procs'[p].event = procs[p].event
    <2>. DEFINE e == EventOf(p)
    <2>1. e \in Events /\ e = sent[procs[p].event.index] /\ procs[p].event.index \in DOMAIN sent
      BY <1>3, EventOfType DEF RepairInv
    <2>2. sent'[procs'[p].event.index] = e
      BY <1>3, <2>1, SentStays
    <2>3. procs[p].event.alone \in Nat /\ procs[p].event.alone <= begun /\ procs[p] # Idle
      BY <1>3, AloneType DEF RepairInv, AloneFit
    <2>4. begun' = begun /\ procs[p].event.alone = begun
      BY <1>1, <1>3, <2>3
    <2>5. \A q \in Procs : q # p => procs[q] = Idle
      BY <1>3, <2>4 DEF RepairInv, AloneFit
    <2>6. CASE SaveSub(p)
      <3>1. subs'[e.sub] = procs[p].sub /\ Says(procs[p].sub, e)
        BY <2>6, SubSaved DEF RepairInv
      <3>. QED  BY <2>2, <3>1
    <2>7. CASE ~SaveSub(p)
      <3>1. \A q \in Procs : ~SaveSub(q)
        BY <2>5, <2>7, IdleType DEF SaveSub, Busy
      <3>2. subs' = subs
        BY <3>1, SubsStay
      <3>3. procs[p].step \in {"find_user", "save_user"}
        BY <1>2, <1>3, <2>7, HandlersFollow, IdleType DEF Follows
      <3>4. Says(subs[e.sub], e)
        BY <1>3, <2>2, <2>4, <3>3 DEF RepairInv, SubsFit
      <3>. QED  BY <2>2, <3>2, <3>4
    <2>. QED  BY <2>6, <2>7
  <1>4. CASE ~(procs[p].kind = "stripe" /\ procs'[p].event = procs[p].event)
    <2>1. /\ procs[p] = Idle
          /\ procs'[p].step = "save_sub" \/ sent[procs'[p].event.index].type = "payment_failed"
      BY <1>2, <1>4, HandlersFollow, IdleType DEF Follows
    <2>2. procs'[p].event.index \in DOMAIN sent
      <3>1. UNCHANGED sent
        BY <1>2, <2>1, OthersSend
      <3>2. EventFits(procs'[p], sent')
        BY UsersInvNext DEF RepairInv, UsersInv
      <3>. QED  BY <3>1, <3>2 DEF EventFits
    <2>. QED  BY <2>1, <2>2, SentStays
  <1>. QED  BY <1>3, <1>4

\* What was repaired stays so until the next step, and is so when an event has
\* just been handled.
LEMMA RepairsKept ==
  ASSUME RepairInv, RedeliveryRepairs, [Next]_vars
  PROVE  RedeliveryRepairs'
  <1>1. CASE UNCHANGED vars
    BY <1>1 DEF vars, accountVars, billingVars, RedeliveryRepairs, OfCustomer, There
  <1>2. CASE repaired' = None
    BY <1>2 DEF RedeliveryRepairs
  <1>3. ASSUME NEW p \in Procs, Handled(p), repaired' # None, procs[p].kind = "stripe",
               procs[p].step \in {"find_user", "save_user"}, subs' = subs
        PROVE  /\ repaired' = EventOf(p)
               /\ repaired'.type # "payment_failed" => subs'[repaired'.sub].status = repaired'.status
               /\ repaired'.type = "deleted" =>
                    ~subs'[repaired'.sub].active /\ subs'[repaired'.sub].canceled
    <2>1. repaired' = EventOf(p) /\ procs[p].event.alone = begun
      BY <1>3 DEF Handled
    <2>2. EventOf(p).type # "payment_failed" => Says(subs[EventOf(p).sub], EventOf(p))
      BY <1>3, <2>1 DEF RepairInv, SubsFit
    <2>. QED  BY <1>3, <2>1, <2>2 DEF Says
  <1>4. ASSUME NEW p \in Procs, FindUser(p), repaired' # None  PROVE RedeliveryRepairs'
    <2>1. /\ Handled(p) /\ Lookup(EventOf(p).customer) = {None} /\ UNCHANGED <<users, subs>>
          /\ procs[p].kind = "stripe" /\ procs[p].step = "find_user"
      BY <1>4 DEF FindUser, Busy
    <2>2. OfCustomer(EventOf(p).customer) = {}
      <3>1. None \notin OfCustomer(EventOf(p).customer)
        BY AccountAssumption DEF OfCustomer
      <3>. QED  BY <2>1, <3>1 DEF Lookup
    <2>. QED  BY <1>3, <1>4, <2>1, <2>2 DEF RedeliveryRepairs, OfCustomer, There
  <1>5. ASSUME NEW p \in Procs, SaveUser(p), repaired' # None  PROVE RedeliveryRepairs'
    <2>. DEFINE was == procs[p]
                e == EventOf(p)
    <2>1. /\ Handled(p) /\ subs' = subs /\ was.kind = "stripe" /\ was.step = "save_user"
          /\ users' = [users EXCEPT ![was.user] = was.row]
      BY <1>5 DEF SaveUser, Busy
    <2>2. was.user \in UserIds /\ was.row.status = e.status /\ was.row.customer = e.customer
      BY <2>1 DEF RepairInv, UsersInv, HandlerFits, EventFits, EventOf
    <2>3. e \in Events
      BY <2>1, EventOfType DEF RepairInv
    <2>4. users' \in [UserIds -> Rows] /\ users'[was.user] = was.row
      BY <2>1, <2>2, UsersInvNext DEF RepairInv, UsersInv, AccountsType
    <2>5. \A u \in UserIds : users'[u].customer = e.customer => u = was.user
      <3>1. CustomersFit(users', procs')
        BY CustomersKept
      <3>2. e.customer \in Customers
        BY <2>3 DEF Events
      <3>. QED  BY <2>2, <2>4, <3>1, <3>2 DEF CustomersFit, Holds
    <2>6. /\ repaired' = e
          /\ repaired'.type # "payment_failed" => subs'[repaired'.sub].status = repaired'.status
          /\ repaired'.type = "deleted" =>
               ~subs'[repaired'.sub].active /\ subs'[repaired'.sub].canceled
      BY <1>3, <1>5, <2>1
    <2>. HIDE DEF was, e
    <2>. QED  BY <2>2, <2>4, <2>5, <2>6 DEF RedeliveryRepairs, OfCustomer
  <1>6. \/ repaired' = None \/ UNCHANGED vars
        \/ \E p \in Procs : FindUser(p) \/ SaveUser(p)
    <2>1. CASE BillingStep
      BY <2>1 DEF BillingStep, Send, HandleWithoutEffect, BeginPaymentFailed, BeginChange, SaveSub
    <2>. QED  BY <2>1 DEF Next, Crash
  <1>. QED  BY <1>1, <1>2, <1>4, <1>5, <1>6

\* However events are repeated and reordered, and however handlers of other events,
\* log-ins and crashes come between: once the newest event of a subscription is
\* handled alone, subscription and user say what it says.
THEOREM RedeliveryAlwaysRepairs == Spec => []RedeliveryRepairs
  <1>. DEFINE Inv == RepairInv /\ RedeliveryRepairs
  <1>1. Init => Inv
    BY RepairInvInit DEF Init, RedeliveryRepairs
  <1>2. Inv /\ [Next]_vars => Inv'
    <2>. SUFFICES ASSUME RepairInv, RedeliveryRepairs, [Next]_vars  PROVE Inv'
      OBVIOUS
    <2>1. RedeliveryRepairs'
      BY RepairsKept
    <2>2. UsersInv'
      BY UsersInvNext DEF RepairInv
    <2>. QED  BY <2>1, <2>2, CustomersKept, AloneKept, SubsKept DEF RepairInv
  <1>. QED  BY <1>1, <1>2, PTL DEF Spec
=============================================================================
