----------------------------- MODULE IntakeProofs -----------------------------
(***************************************************************************)
(* Theorems about Intake: what the senders send and report, what the       *)
(* handlers of incoming mail answer, that plugin, task and listener stay   *)
(* in step, what the registry hands out and what a mailbox's filters name, *)
(* for every batch, number of retries, mail, key, caller, port and process.*)
(***************************************************************************)
EXTENDS Intake, NaturalsInduction, WellFoundedInduction, TLAPS

-----------------------------------------------------------------------------
(* The senders.                                                            *)

\* What was sent was handed over, and a result is there only once every sending has
\* ended.
BatchInv ==
  /\ \A i \in DOMAIN batch : batch[i] = "sent" => HandedOver(i) \in requests
  /\ batch = <<>> => results = <<>>
  /\ results # <<>> => /\ \A i \in DOMAIN batch : batch[i] # "sending"
                       /\ DOMAIN results = DOMAIN batch
                       /\ \A i \in DOMAIN results : results[i] <=> batch[i] = "sent"

NoDelivery == [state |-> "none", attempts |-> 0]
Delivery(state, attempts, action, targets) ==
  [state |-> state, attempts |-> attempts, action |-> action, targets |-> targets]

\* An email that is still tried has attempts left.
DeliveryInv ==
  \/ delivery = NoDelivery
  \/ \E state \in {"trying", "delivered", "failed"}, n \in 0 .. MaxRetries : \E action, targets :
       /\ delivery = Delivery(state, n, action, targets)
       /\ state = "trying" => n < MaxRetries
       /\ state = "failed" => n = MaxRetries
       /\ state = "delivered" /\ n = 0 => action = "nothing"

SendersInv == HarmfulBodiesStayIn /\ BatchInv /\ DeliveryInv

LEMMA SendersInvInit == Init => SendersInv
  BY DEF Init, SendersInit, SendersInv, HarmfulBodiesStayIn, By, BatchInv, DeliveryInv, NoDelivery

LEMMA SendersInvNext == SendersInv /\ [Next]_vars => SendersInv'
  <1>. SUFFICES ASSUME SendersInv, [Next]_vars  PROVE SendersInv'
    OBVIOUS
  <1>. USE SenderAssumption DEF SendersInv
  <1>1. CASE UNCHANGED senderVars
    BY <1>1 DEF senderVars, HarmfulBodiesStayIn, By, BatchInv, DeliveryInv
  <1>2. ASSUME NEW to, NEW class \in Classes, SendFilteredEmail(to, class)  PROVE SendersInv'
    <2>. DEFINE new == [by |-> "sender", n |-> Cardinality(By("sender")) + 1,
                        to |-> ExtractEmailFromShield(to), class |-> class,
                        content |-> FormatEmailContent(class)]
    <2>1. requests' = requests \cup {new}
      BY <1>2 DEF SendFilteredEmail
    <2>2. /\ new.to = "user"
          /\ new.class \in {"HARMFUL", "ABUSIVE"} =>
               new.content = [marked |-> TRUE, verbatim |-> {"subject"}]
      BY <1>2 DEF SendFilteredEmail, ExtractEmailFromShield, Nobody, FormatEmailContent, Format
    <2>. HIDE DEF new
    <2>3. HarmfulBodiesStayIn'
      BY <2>1, <2>2 DEF HarmfulBodiesStayIn, By
    <2>4. BatchInv'
      BY <1>2, <2>1 DEF SendFilteredEmail, BatchInv
    <2>. QED  BY <1>2, <2>3, <2>4 DEF SendFilteredEmail, DeliveryInv
  <1>3. ASSUME NEW n \in 1 .. MaxBatch, SendMultiple(n)  PROVE SendersInv'
    BY <1>3 DEF SendMultiple, HarmfulBodiesStayIn, By, BatchInv, DeliveryInv
  <1>4. ASSUME NEW i \in DOMAIN batch, SendEnds(i)  PROVE SendersInv'
    <2>1. results = <<>> /\ results' = <<>>
      BY <1>4 DEF SendEnds, BatchInv
    <2>2. requests' \in {requests, requests \cup {HandedOver(i)}}
      BY <1>4 DEF SendEnds
    <2>h. HandedOver(i).by = "service"
      BY DEF HandedOver
    <2>3. HarmfulBodiesStayIn'
      <3>. SUFFICES ASSUME NEW r \in requests', r.by = "sender"
                    PROVE  /\ r.to = "user"
                           /\ r.class \in {"HARMFUL", "ABUSIVE"} =>
                                r.content = [marked |-> TRUE, verbatim |-> {"subject"}]
        BY DEF HarmfulBodiesStayIn, By
      <3>1. r \in requests
        BY <2>2, <2>h
      <3>. QED  BY <3>1 DEF HarmfulBodiesStayIn, By
    <2>4. \E outcome \in {"sent", "refused", "raised"} :
            /\ batch' = [batch EXCEPT ![i] = outcome]
            /\ outcome = "sent" => HandedOver(i) \in requests'
      BY <1>4 DEF SendEnds
    <2>5. \A k \in DOMAIN batch' : batch'[k] = "sent" => HandedOver(k) \in requests'
      BY <2>2, <2>4 DEF BatchInv
    <2>6. batch' # <<>>
      BY <2>4
    <2>7. BatchInv'
      BY <2>1, <2>5, <2>6 DEF BatchInv, HandedOver
    <2>. QED  BY <1>4, <2>3, <2>7 DEF SendEnds, DeliveryInv
  <1>5. CASE Gathered
    <2>1. \A i \in DOMAIN batch : batch[i] # "sending"
      BY <1>5 DEF Gathered, Range
    <2>. QED  BY <1>5, <2>1 DEF Gathered, HarmfulBodiesStayIn, By, BatchInv, DeliveryInv
  <1>6. ASSUME NEW action, NEW targets, DeliverEmail(action, targets)  PROVE SendersInv'
    <2>1. \E state \in {"trying", "delivered"} :
            /\ delivery' = Delivery(state, 0, action, targets)
            /\ state = "delivered" => action = "nothing"
      BY <1>6, Zenon DEF DeliverEmail, Delivery
    <2>2. DeliveryInv'
      BY <2>1 DEF DeliveryInv
    <2>. QED  BY <1>6, <2>2 DEF DeliverEmail, HarmfulBodiesStayIn, By, BatchInv
  <1>7. CASE Attempt
    <2>0. PICK state \in {"trying", "delivered", "failed"}, n \in 0 .. MaxRetries :
            \E action, targets :
              /\ delivery = Delivery(state, n, action, targets)
              /\ state = "trying" => n < MaxRetries
      BY <1>7 DEF Attempt, DeliveryInv, NoDelivery
    <2>1. PICK action, targets :
            /\ delivery = Delivery(state, n, action, targets)
            /\ state = "trying" => n < MaxRetries
      BY <2>0
    <2>2. state = "trying" /\ delivery.attempts = n
      BY <1>7, <2>1 DEF Attempt, Delivery
    <2>3. \E next \in {"trying", "delivered", "failed"} :
            /\ delivery' = [delivery EXCEPT !.attempts = n + 1, !.state = next]
            /\ next = "trying" => n + 1 < MaxRetries
            /\ next = "failed" => ~(n + 1 < MaxRetries)
      BY <1>7, <2>2 DEF Attempt
    <2>4. PICK next \in {"trying", "delivered", "failed"} :
            /\ delivery' = [delivery EXCEPT !.attempts = n + 1, !.state = next]
            /\ next = "trying" => n + 1 < MaxRetries
            /\ next = "failed" => ~(n + 1 < MaxRetries)
      BY <2>3
    <2>5. delivery' = Delivery(next, n + 1, action, targets)
      <3>. DEFINE m == n + 1
      <3>1. delivery' = [delivery EXCEPT !.attempts = m, !.state = next]
        BY <2>4
      <3>. HIDE DEF m
      <3>2. delivery' = Delivery(next, m, action, targets)
        BY <2>1, <3>1 DEF Delivery
      <3>. QED  BY <3>2 DEF m
    <2>6. n + 1 \in 0 .. MaxRetries /\ n + 1 # 0 /\ (next = "failed" => n + 1 = MaxRetries)
      BY <2>1, <2>2, <2>4
    <2>7. DeliveryInv'
      BY <2>4, <2>5, <2>6 DEF DeliveryInv
    <2>. QED  BY <1>7, <2>7 DEF Attempt, HarmfulBodiesStayIn, By, BatchInv
  <1>. QED
    BY <1>1, <1>2, <1>3, <1>4, <1>5, <1>6, <1>7
       DEF Next, PluginStep, MailStep, ShieldStep, RegistryStep, FiltersStep, SendersStep,
           SendersNext, vars, intakeVars

\* However sends and attempts end and in whatever order, the body of a harmful mail
\* leaves through no sender class, nothing is reported as sent that was not handed
\* over, and a mail is given up after the last attempt only.
THEOREM SendersAlwaysKeepTheirWord == Spec => []SendersKeepTheirWord
  <1>1. SendersInv => SendersKeepTheirWord
    <2>. SUFFICES ASSUME SendersInv  PROVE SendersKeepTheirWord
      OBVIOUS
    <2>1. RetriedThenGivenUp
      BY SenderAssumption DEF SendersInv, DeliveryInv, RetriedThenGivenUp, NoDelivery, Delivery
    <2>2. SentWasHandedOver
      BY DEF SendersInv, BatchInv, SentWasHandedOver
    <2>. QED  BY <2>1, <2>2 DEF SendersInv, SendersKeepTheirWord
  <1>. QED  BY <1>1, SendersInvInit, SendersInvNext, PTL DEF Spec

-----------------------------------------------------------------------------
(* The answers to incoming mail.                                           *)

LEMMA AnswersInit == Init => AnswersFit
  BY DEF Init, NoAnswer, AnswersFit, KnownNotRefused, AcceptedIsNotOurs

\* A look-up that finds the address ends in the answer to an exception, one that does
\* not in the refusal of the handler.
LEMMA Judged ==
  ASSUME NEW table, NEW recipient, NEW refusal, NEW failure
  PROVE  /\ LookupUser(table, recipient.a) => Judge(table, recipient, refusal, failure) = failure
         /\ Judge(table, recipient, refusal, failure) \in {failure, refusal}
  BY DEF Judge, Known, Normalised

\* The recipient found is one of the mail's, and one that is passed over is somebody
\* else's or its domain is spelled in upper case.
LEMMA ShieldFound ==
  ASSUME NEW mail \in Mails
  PROVE  /\ FindShieldAddress(mail) = <<>> =>
              \A i \in DOMAIN mail : mail[i].a = Outsider \/ mail[i].upper
         /\ FindShieldAddress(mail) # <<>> =>
              \E i \in DOMAIN mail : FindShieldAddress(mail)[1] = mail[i]
  <1>1. mail \in Seq(Recipients)
    BY MailAssumption
  <1>. DEFINE ours == {i \in DOMAIN mail : mail[i].a # Outsider /\ ~mail[i].upper}
              first == CHOOSE i \in ours : \A j \in ours : i <= j
  <1>2. FindShieldAddress(mail) = IF ours = {} THEN <<>> ELSE <<mail[first]>>
    BY DEF FindShieldAddress
  <1>3. ours # {} => first \in DOMAIN mail
    <2>. SUFFICES ASSUME ours # {}  PROVE \E i \in ours : \A j \in ours : i <= j
      OBVIOUS
    <2>1. ours \in SUBSET Nat
      BY <1>1
    <2>2. \A i, j \in Nat : <<i, j>> \in OpToRel(<, Nat) <=> i < j
      BY DEF OpToRel
    <2>3. PICK i \in ours : \A j \in ours : ~(<<j, i>> \in OpToRel(<, Nat))
      <3>. HIDE DEF ours
      <3>. QED  BY <2>1, NatLessThanWellFounded, WFMin
    <2>4. \A j \in ours : i <= j
      <3>. HIDE DEF ours
      <3>1. i \in Nat /\ \A j \in ours : j \in Nat /\ ~(j < i)
        BY <2>1, <2>2, <2>3
      <3>. QED  BY <3>1
    <2>. QED  BY <2>4
  <1>. HIDE DEF first
  <1>4. CASE ours = {}
    BY <1>2, <1>4
  <1>5. CASE ours # {}
    <2>1. FindShieldAddress(mail) = <<mail[first]>> /\ <<mail[first]>> # <<>>
      BY <1>2, <1>5
    <2>. QED  BY <1>3, <1>5, <2>1
  <1>. QED  BY <1>4, <1>5

\* An answer fits by what was told, to whom, and who was known.
LEMMA AnswerFits ==
  ASSUME NEW channel, NEW mail, NEW told, NEW table, Answered(channel, mail, told, table),
         LookupUser(table, mail[1].a) /\ Len(mail) = 1 => told # "refused",
         told = "accepted" => \A i \in DOMAIN mail : LookupUser(table, mail[i].a) => mail[i].upper
  PROVE  AnswersFit'
  <1>. DEFINE known == {i \in DOMAIN mail : LookupUser(table, mail[i].a)}
  <1>1. answer' = [channel |-> channel, mail |-> mail, told |-> told, known |-> known]
    BY DEF Answered
  <1>2. known # {} /\ Len(mail) = 1 => told # "refused"
    <2>. SUFFICES ASSUME NEW i \in DOMAIN mail, LookupUser(table, mail[i].a), Len(mail) = 1
                  PROVE  told # "refused"
      OBVIOUS
    <2>1. mail \in Mails => i = 1
      BY MailAssumption
    <2>. QED  BY <2>1
  <1>3. told = "accepted" => \A i \in known : mail[i].upper
    OBVIOUS
  <1>. HIDE DEF known
  <1>. QED  BY <1>1, <1>2, <1>3 DEF AnswersFit, KnownNotRefused, AcceptedIsNotOurs

LEMMA AnswersNext == AnswersFit /\ [Next]_vars => AnswersFit'
  <1>. SUFFICES ASSUME AnswersFit, [Next]_vars  PROVE AnswersFit'
    OBVIOUS
  <1>1. CASE UNCHANGED answer
    BY <1>1 DEF AnswersFit, KnownNotRefused, AcceptedIsNotOurs
  <1>2. ASSUME NEW mail \in Mails, MailBySmtp(mail)  PROVE AnswersFit'
    <2>. DEFINE table == tables["smtp"]
                told == PluginAnswer(table, mail)
    <2>1. /\ LookupUser(table, mail[1].a) => told = "later"
          /\ told \in {"later", "refused"}
      BY Judged DEF PluginAnswer
    <2>2. Answered("plugin", mail, told, table)
      BY <1>2 DEF MailBySmtp
    <2>. HIDE DEF table, told
    <2>. QED  BY <2>1, <2>2, AnswerFits
  <1>3. ASSUME NEW mail \in Mails, MailByServer(mail)  PROVE AnswersFit'
    <2>. DEFINE table == InitializeDemoData
                told == ServerAnswer(table, mail)
                shield == FindShieldAddress(mail)
    <2>1. /\ shield = <<>> => told = "accepted"
          /\ shield # <<>> => /\ LookupUser(table, shield[1].a) => told = "later"
                             /\ told \in {"later", "refused"}
      BY Judged DEF ServerAnswer
    <2>2. \A i \in DOMAIN mail : LookupUser(table, mail[i].a) => mail[i].a # Outsider
      BY MailAssumption DEF LookupUser, InitializeDemoData
    <2>3. Answered("server", mail, told, table)
      BY <1>3 DEF MailByServer
    <2>4. /\ shield = <<>> => \A i \in DOMAIN mail : mail[i].a = Outsider \/ mail[i].upper
          /\ shield # <<>> => \E i \in DOMAIN mail : shield[1] = mail[i]
      BY ShieldFound
    <2>5. DOMAIN mail = 1 .. Len(mail) /\ Len(mail) \in Nat
      BY MailAssumption
    <2>. HIDE DEF table, told, shield
    <2>6. LookupUser(table, mail[1].a) /\ Len(mail) = 1 => told # "refused"
      <3>1. CASE shield = <<>>
        BY <2>1, <3>1
      <3>2. CASE shield # <<>> /\ Len(mail) = 1
        <4>1. shield[1] = mail[1]
          BY <2>4, <2>5, <3>2
        <4>. QED  BY <2>1, <3>2, <4>1
      <3>. QED  BY <3>1, <3>2
    <2>7. told = "accepted" => \A i \in DOMAIN mail : LookupUser(table, mail[i].a) => mail[i].upper
      BY <2>1, <2>2, <2>4
    <2>. QED  BY <2>3, <2>6, <2>7, AnswerFits
  <1>4. ASSUME NEW mail \in Mails, NEW complete, NEW headers, MailByPostmark(mail, complete, headers)
        PROVE  AnswersFit'
    <2>. DEFINE table == InitializeDemoData
                told == PostmarkAnswer(mail, complete, headers)
                judged == Judge(table, mail[1], "refused", "bad")
    <2>1. /\ LookupUser(table, mail[1].a) => judged = "bad"
          /\ judged \in {"bad", "refused"}
      BY Judged
    <2>2. \/ told = "bad"
          \/ told = "refused" /\ Len(mail) > 1
          \/ told = judged
      <3>1. CASE ~complete \/ ~headers \/ mail[Len(mail)].a = Outsider
        BY <3>1, Zenon DEF PostmarkAnswer
      <3>2. CASE complete /\ headers /\ mail[Len(mail)].a # Outsider
        BY <3>2, Zenon DEF PostmarkAnswer
      <3>. QED  BY <3>1, <3>2
    <2>3. Len(mail) = 1 => ~(Len(mail) > 1)
      OBVIOUS
    <2>4. Answered("postmark", mail, told, table)
      BY <1>4 DEF MailByPostmark
    <2>. HIDE DEF table, told, judged
    <2>5. told # "accepted" /\ (LookupUser(table, mail[1].a) /\ Len(mail) = 1 => told # "refused")
      BY <2>1, <2>2, <2>3
    <2>. QED  BY <2>4, <2>5, AnswerFits
  <1>5. ASSUME NEW mail \in Mails, NEW bearer, MailByGmail(mail, bearer)  PROVE AnswersFit'
    <2>1. GmailAnswer(tables["gmail"], mail, bearer) = "unauthorized"
      BY DEF GmailAnswer, ValidateWebhook, HeadersOf
    <2>. QED  BY <1>5, <2>1 DEF MailByGmail, Answered, AnswersFit, KnownNotRefused, AcceptedIsNotOurs
  <1>. QED
    BY <1>1, <1>2, <1>3, <1>4, <1>5
       DEF Next, PluginStep, MailStep, MailArrives, ShieldStep, RegistryStep, FiltersStep,
           SendersStep, vars, intakeVars

\* Mail for one known address is refused by nobody, and what is accepted is for nobody,
\* except for the spelling of its domain.
THEOREM AnswersAlwaysFit == Spec => []AnswersFit
  BY AnswersInit, AnswersNext, PTL DEF Spec

-----------------------------------------------------------------------------
(* The plugin, its background task and its listener.                       *)

AnyPort == Ports \cup {0}

Controllers == {"none", "up", "failed", "down"}
Statuses == {"new", "up", "failed", "ended"}
PluginRecord == [running : BOOLEAN, server : Nat, task : Nat, port : AnyPort]
ServerRecord == [port : AnyPort, controller : Controllers]
TaskRecord == [server : Nat, status : Statuses, cancelled : BOOLEAN]
CallRecord == [op : {"none", "stop", "reload"}, task : Nat, old : AnyPort]

PluginType ==
  /\ plugin \in PluginRecord
  /\ active \in Nat
  /\ servers \in Seq(ServerRecord)
  /\ tasks \in Seq(TaskRecord)
  /\ calls \in [Callers -> CallRecord]
  /\ overlapped \in BOOLEAN

\* The plugin's task is the only one that may still do anything, its server the
\* only one that may listen, and the two are at the same point; a plugin that does
\* not run has a server that never listened.
TaskInv ==
  /\ plugin.server \in 0 .. Len(servers) /\ plugin.task \in 0 .. Len(tasks)
  /\ plugin.running => plugin.task # 0
  /\ plugin.server = 0 => plugin.task = 0
  /\ \A t \in DOMAIN tasks : t # plugin.task => Done(t)
  /\ \A s \in DOMAIN servers : s # plugin.server => ~Listening(s)
  /\ plugin.task # 0 =>
       LET task == tasks[plugin.task]
           controller == servers[plugin.server].controller
       IN  /\ task.server = plugin.server
           /\ task.status = "new" => controller = "none"
           /\ task.status = "up" => controller = "up"
           /\ task.status = "failed" => controller = "failed"
           /\ task.status = "ended" => controller \in {"none", "down"}
           /\ ~plugin.running => task.status = "ended"
  /\ plugin.server # 0 /\ ~plugin.running => servers[plugin.server].controller = "none"
  /\ active = IF plugin.running THEN 1 ELSE 0

\* One call waits at most, and it waits for the plugin's task.
CallsInv ==
  \A c \in Callers : calls[c] # Idle =>
    /\ plugin.running /\ calls[c].task = plugin.task /\ calls[c].op \in {"stop", "reload"}
    /\ \A d \in Callers : d # c => calls[d] = Idle

PluginInv == PluginType /\ (overlapped \/ (TaskInv /\ CallsInv))

LEMMA PluginInvInit == Init => PluginInv
  <1>. SUFFICES ASSUME Init  PROVE PluginInv
    OBVIOUS
  <1>1. Idle \in CallRecord
    BY DEF Idle, CallRecord, AnyPort
  <1>2. PluginType
    <2>1. plugin \in PluginRecord
      BY DEF Init, PluginInit, PluginRecord, AnyPort
    <2>2. calls \in [Callers -> CallRecord]
      BY <1>1 DEF Init, PluginInit
    <2>3. servers \in Seq(ServerRecord) /\ tasks \in Seq(TaskRecord)
      BY DEF Init, PluginInit
    <2>. QED  BY <2>1, <2>2, <2>3 DEF Init, PluginInit, PluginType
  <1>3. TaskInv
    BY DEF Init, PluginInit, TaskInv
  <1>4. CallsInv
    BY DEF Init, PluginInit, CallsInv
  <1>. QED  BY <1>2, <1>3, <1>4 DEF PluginInv

\* A record of a sequence is updated in its place.
LEMMA Replaced ==
  ASSUME NEW S, NEW q \in Seq(S), NEW i, NEW e, i \in DOMAIN q => e \in S
  PROVE  LET r == [q EXCEPT ![i] = e]
         IN  /\ r \in Seq(S) /\ Len(r) = Len(q)
             /\ i \in DOMAIN q => r[i] = e
             /\ \A j \in DOMAIN q : j # i => r[j] = q[j]
  <1>1. CASE i \in DOMAIN q
    BY <1>1
  <1>2. CASE i \notin DOMAIN q
    <2>1. [q EXCEPT ![i] = e] = q
      BY <1>2
    <2>. QED  BY <1>2, <2>1
  <1>. QED  BY <1>1, <1>2

WithController(q, s, c) == [q EXCEPT ![s].controller = c]
WithStatus(q, t, st) == [q EXCEPT ![t].status = st]
Cancelled(q, t) == [q EXCEPT ![t].cancelled = TRUE]

LEMMA ServerUpdated ==
  ASSUME NEW q \in Seq(ServerRecord), NEW s, NEW c \in Controllers,
         NEW r, r = WithController(q, s, c)
  PROVE  /\ r \in Seq(ServerRecord) /\ Len(r) = Len(q)
         /\ s \in DOMAIN q => r[s].controller = c
         /\ \A i \in DOMAIN q : i # s => r[i] = q[i]
  <1>. DEFINE e == [q[s] EXCEPT !.controller = c]
  <1>1. s \in DOMAIN q => q[s] \in ServerRecord
    OBVIOUS
  <1>2. s \in DOMAIN q => e \in ServerRecord /\ e.controller = c
    BY <1>1 DEF ServerRecord
  <1>3. r = [q EXCEPT ![s] = e]
    BY DEF WithController
  <1>. HIDE DEF e
  <1>. QED  BY <1>2, <1>3, Replaced

LEMMA TaskUpdated ==
  ASSUME NEW q \in Seq(TaskRecord), NEW t \in DOMAIN q, NEW st \in Statuses,
         NEW r, r = WithStatus(q, t, st)
  PROVE  /\ r \in Seq(TaskRecord) /\ Len(r) = Len(q)
         /\ r[t].status = st /\ r[t].server = q[t].server
         /\ \A i \in DOMAIN q : i # t => r[i] = q[i]
  <1>. DEFINE e == [q[t] EXCEPT !.status = st]
  <1>1. q[t] \in TaskRecord
    OBVIOUS
  <1>2. e \in TaskRecord /\ e.status = st /\ e.server = q[t].server
    BY <1>1 DEF TaskRecord
  <1>3. r = [q EXCEPT ![t] = e]
    BY DEF WithStatus
  <1>. HIDE DEF e
  <1>. QED  BY <1>2, <1>3, Replaced

LEMMA TaskCancelled ==
  ASSUME NEW q \in Seq(TaskRecord), NEW t,
         NEW r, r = Cancelled(q, t)
  PROVE  /\ r \in Seq(TaskRecord) /\ Len(r) = Len(q)
         /\ \A i \in DOMAIN q : r[i].status = q[i].status /\ r[i].server = q[i].server
  <1>. DEFINE e == [q[t] EXCEPT !.cancelled = TRUE]
  <1>1. t \in DOMAIN q => q[t] \in TaskRecord
    OBVIOUS
  <1>2. t \in DOMAIN q => e \in TaskRecord /\ e.status = q[t].status /\ e.server = q[t].server
    BY <1>1 DEF TaskRecord
  <1>3. r = [q EXCEPT ![t] = e]
    BY DEF Cancelled
  <1>. HIDE DEF e
  <1>4. /\ r \in Seq(TaskRecord) /\ Len(r) = Len(q)
        /\ t \in DOMAIN q => r[t] = e
        /\ \A i \in DOMAIN q : i # t => r[i] = q[i]
    BY <1>2, <1>3, Replaced
  <1>5. ASSUME NEW i \in DOMAIN q  PROVE r[i].status = q[i].status /\ r[i].server = q[i].server
    <2>1. CASE i = t
      BY <1>2, <1>4, <2>1
    <2>2. CASE i # t
      BY <1>4, <2>2
    <2>. QED  BY <2>1, <2>2
  <1>. QED  BY <1>4, <1>5

LEMMA Appended ==
  ASSUME NEW S, NEW q \in Seq(S), NEW e \in S
  PROVE  /\ Append(q, e) \in Seq(S) /\ Len(Append(q, e)) = Len(q) + 1
         /\ Append(q, e)[Len(q) + 1] = e
         /\ \A i \in DOMAIN q : Append(q, e)[i] = q[i]
  OBVIOUS

LEMMA ServerMade == ASSUME NEW port \in AnyPort  PROVE Server(port) \in ServerRecord
  BY DEF Server, ServerRecord, Controllers

LEMMA TaskMade == ASSUME NEW s \in Nat  PROVE Task(s) \in TaskRecord
  BY DEF Task, TaskRecord, Statuses

\* What follows the wait keeps the types, and the task, if it is done, in step.
LEMMA AfterWaitKeeps ==
  ASSUME PluginType, TaskInv, NEW op \in {"stop", "reload"}, plugin.running, Done(plugin.task),
         NEW old \in AnyPort, NEW new \in AnyPort, AfterWait(op, plugin.task, old, new)
  PROVE  /\ plugin' \in PluginRecord /\ active' \in Nat
         /\ servers' \in Seq(ServerRecord) /\ tasks' \in Seq(TaskRecord)
         /\ TaskInv'
  <1>. USE DEF PluginType, PluginRecord
  <1>1. plugin.task \in DOMAIN tasks /\ plugin.server \in DOMAIN servers
    BY DEF TaskInv
  <1>2. CASE Raises(plugin.task)
    <2>1. /\ plugin' \in PluginRecord /\ UNCHANGED <<active, servers, tasks>>
          /\ plugin'.running = plugin.running /\ plugin'.server = plugin.server
          /\ plugin'.task = plugin.task
      BY <1>2 DEF AfterWait
    <2>2. TaskInv'
      BY <1>1, <2>1 DEF TaskInv, Done, Listening
    <2>. QED  BY <2>1, <2>2
  <1>3. CASE ~Raises(plugin.task)
    <2>1. /\ tasks[plugin.task].status = "ended" /\ servers[plugin.server].controller = "none"
      BY <1>1, <1>3 DEF Raises, TaskInv, Done
    <2>2. Stopped = servers
      BY <2>1 DEF Stopped
    <2>3. CASE op = "stop"
      <3>1. /\ plugin' = [plugin EXCEPT !.running = FALSE] /\ servers' = servers
            /\ tasks' = tasks /\ active' = 0
        BY <1>3, <2>2, <2>3 DEF AfterWait, TaskInv
      <3>2. TaskInv'
        BY <1>1, <2>1, <3>1 DEF TaskInv, Done, Listening
      <3>. QED  BY <3>1, <3>2
    <2>4. CASE op = "reload"
      <3>1. /\ servers' = Append(servers, Server(new))
            /\ tasks' = Append(tasks, Task(Len(servers) + 1))
            /\ plugin' = [plugin EXCEPT !.running = TRUE, !.port = new,
                                        !.server = Len(servers) + 1, !.task = Len(tasks) + 1]
            /\ active' = active
        BY <1>3, <2>2, <2>4 DEF AfterWait
      <3>2. /\ servers' \in Seq(ServerRecord) /\ tasks' \in Seq(TaskRecord)
            /\ Len(servers') = Len(servers) + 1 /\ Len(tasks') = Len(tasks) + 1
            /\ servers'[Len(servers) + 1] = Server(new)
            /\ tasks'[Len(tasks) + 1] = Task(Len(servers) + 1)
            /\ \A s \in DOMAIN servers : servers'[s] = servers[s]
            /\ \A t \in DOMAIN tasks : tasks'[t] = tasks[t]
        <4>1. Server(new) \in ServerRecord /\ Task(Len(servers) + 1) \in TaskRecord
          BY ServerMade, TaskMade
        <4>. QED  BY <3>1, <4>1, Appended
      <3>3. plugin' \in PluginRecord /\ plugin'.running /\ plugin'.server = Len(servers) + 1
            /\ plugin'.task = Len(tasks) + 1
        <4>1. Len(servers) + 1 \in Nat /\ Len(tasks) + 1 \in Nat
          OBVIOUS
        <4>. QED  BY <3>1, <4>1
      <3>4. DOMAIN servers' = 1 .. Len(servers) + 1 /\ DOMAIN tasks' = 1 .. Len(tasks) + 1
            /\ DOMAIN servers = 1 .. Len(servers) /\ DOMAIN tasks = 1 .. Len(tasks)
            /\ Len(servers) \in Nat /\ Len(tasks) \in Nat
        BY <3>2
      <3>5. \A t \in DOMAIN tasks' : t # plugin'.task => Done(t)'
        BY <1>1, <2>1, <3>2, <3>3, <3>4 DEF TaskInv, Done
      <3>6. \A s \in DOMAIN servers' : s # plugin'.server => ~Listening(s)'
        BY <1>1, <2>1, <3>2, <3>3, <3>4, SMTT(30) DEF TaskInv, Listening
      <3>7. TaskInv'
        BY <3>1, <3>2, <3>3, <3>4, <3>5, <3>6 DEF TaskInv, Server, Task
      <3>. QED  BY <3>1, <3>2, <3>3, <3>7
    <2>. QED  BY <2>3, <2>4
  <1>. QED  BY <1>2, <1>3

\* Without an overlap TaskAwaited and AtOnce are about the plugin's own task. Types
\* are kept whether or not calls overlap.
LEMMA AfterWaitTypes ==
  ASSUME PluginType, NEW op, NEW t, NEW old \in AnyPort, NEW new \in AnyPort,
         AfterWait(op, t, old, new)
  PROVE  /\ plugin' \in PluginRecord /\ active' \in Nat
         /\ servers' \in Seq(ServerRecord) /\ tasks' \in Seq(TaskRecord)
  <1>. USE DEF PluginType
  <1>1. CASE Raises(t)
    BY <1>1 DEF AfterWait, PluginRecord
  <1>2. CASE ~Raises(t)
    <2>1. Stopped \in Seq(ServerRecord) /\ Len(Stopped) = Len(servers)
      <3>1. CASE servers[plugin.server].controller = "none"
        BY <3>1 DEF Stopped
      <3>2. CASE servers[plugin.server].controller # "none"
        <4>1. Stopped = [servers EXCEPT ![plugin.server].controller = "down"]
          BY <3>2 DEF Stopped
        <4>2. servers \in Seq(ServerRecord) /\ "down" \in Controllers
          BY DEF Controllers
        <4>3. Stopped = WithController(servers, plugin.server, "down")
          BY <4>1 DEF WithController
        <4>. QED  BY <4>2, <4>3, ServerUpdated
      <3>. QED  BY <3>1, <3>2
    <2>2. CASE op = "stop"
      <3>1. /\ servers' = Stopped /\ plugin' = [plugin EXCEPT !.running = FALSE]
            /\ active' = IF active > 0 THEN active - 1 ELSE 0
            /\ tasks' = tasks
        BY <1>2, <2>2 DEF AfterWait
      <3>2. plugin' \in PluginRecord
        BY <3>1 DEF PluginRecord
      <3>. QED  BY <2>1, <3>1, <3>2
    <2>3. CASE op = "reload"
      <3>1. Server(new) \in ServerRecord /\ Task(Len(servers) + 1) \in TaskRecord
        BY ServerMade, TaskMade
      <3>2. /\ servers' = Append(Stopped, Server(new))
            /\ tasks' = Append(tasks, Task(Len(servers) + 1))
            /\ plugin' = [plugin EXCEPT !.running = TRUE, !.port = new,
                                        !.server = Len(servers) + 1, !.task = Len(tasks) + 1]
            /\ active' = active
        BY <1>2, <2>3 DEF AfterWait
      <3>3. Len(servers) + 1 \in Nat /\ Len(tasks) + 1 \in Nat
        OBVIOUS
      <3>. QED  BY <2>1, <3>1, <3>2, <3>3, Appended DEF PluginRecord
    <2>. QED  BY <1>2, <2>2, <2>3 DEF AfterWait
  <1>. QED  BY <1>1, <1>2

LEMMA PluginInvNext == PluginInv /\ [PluginNext]_pluginVars => PluginInv'
  <1>. SUFFICES ASSUME PluginInv, [PluginNext]_pluginVars  PROVE PluginInv'
    OBVIOUS
  <1>. USE DEF PluginInv
  <1>0. PluginType
    OBVIOUS
  <1>1. CASE UNCHANGED pluginVars
    BY <1>1 DEF pluginVars, PluginType, TaskInv, CallsInv, Done, Listening
  <1>2. ASSUME NEW port \in Ports, LoadPlugin(port)  PROVE PluginInv'
    <2>1. /\ servers' \in Seq(ServerRecord) /\ Len(servers') = Len(servers) + 1
          /\ servers'[Len(servers) + 1] = Server(port)
          /\ \A s \in DOMAIN servers : servers'[s] = servers[s]
      BY <1>0, <1>2, ServerMade, Appended DEF LoadPlugin, PluginType, AnyPort
    <2>2. /\ plugin' \in PluginRecord /\ plugin'.running = plugin.running
          /\ plugin'.server = Len(servers) + 1 /\ plugin'.task = plugin.task
      <3>1. Len(servers) + 1 \in Nat /\ port \in AnyPort
        BY <1>0 DEF PluginType, AnyPort
      <3>. QED  BY <1>0, <1>2, <3>1 DEF LoadPlugin, PluginType, PluginRecord
    <2>3. PluginType'
      BY <1>0, <1>2, <2>1, <2>2 DEF LoadPlugin, PluginType
    <2>4. ASSUME TaskInv  PROVE TaskInv'
      <3>1. plugin.server = 0 /\ plugin.task = 0 /\ ~plugin.running
        BY <1>0, <1>2, <2>4 DEF LoadPlugin, Loaded, TaskInv, PluginType, PluginRecord
      <3>2. DOMAIN servers' = 1 .. Len(servers) + 1 /\ DOMAIN servers = 1 .. Len(servers)
            /\ Len(servers) \in Nat
        BY <1>0, <2>1 DEF PluginType
      <3>3. \A s \in DOMAIN servers' : s # plugin'.server => ~Listening(s)'
        BY <2>1, <2>2, <2>4, <3>1, <3>2 DEF TaskInv, Listening
      <3>. QED  BY <1>2, <2>1, <2>2, <2>4, <3>1, <3>2, <3>3 DEF TaskInv, LoadPlugin, Done, Server
    <2>5. ASSUME CallsInv  PROVE CallsInv'
      BY <1>2, <2>2, <2>5 DEF CallsInv, LoadPlugin
    <2>. QED  BY <1>2, <2>3, <2>4, <2>5 DEF LoadPlugin
  <1>3. ASSUME NEW port \in Ports, ReloadIdle(port) \/ OtherProgram(port)  PROVE PluginInv'
    <2>1. /\ plugin' \in PluginRecord /\ plugin'.running = plugin.running
          /\ plugin'.server = plugin.server /\ plugin'.task = plugin.task
          /\ UNCHANGED <<active, servers, tasks, calls, overlapped>>
      BY <1>0, <1>3 DEF ReloadIdle, OtherProgram, PluginType, PluginRecord, AnyPort
    <2>. QED  BY <1>0, <2>1 DEF PluginType, TaskInv, CallsInv, Done, Listening
  <1>4. CASE StartPlugin
    <2>1. /\ plugin' \in PluginRecord /\ plugin'.running /\ plugin'.server = plugin.server
          /\ plugin'.task = Len(tasks) + 1
      <3>1. Len(tasks) + 1 \in Nat
        BY <1>0 DEF PluginType
      <3>. QED  BY <1>0, <1>4, <3>1 DEF StartPlugin, PluginType, PluginRecord
    <2>2. /\ tasks' \in Seq(TaskRecord) /\ Len(tasks') = Len(tasks) + 1
          /\ tasks'[Len(tasks) + 1] = Task(plugin.server)
          /\ \A t \in DOMAIN tasks : tasks'[t] = tasks[t]
      <3>1. Task(plugin.server) \in TaskRecord
        BY <1>0, TaskMade DEF PluginType, PluginRecord
      <3>. QED  BY <1>0, <1>4, <3>1, Appended DEF StartPlugin, PluginType
    <2>3. PluginType'
      BY <1>0, <1>4, <2>1, <2>2 DEF StartPlugin, PluginType
    <2>4. ASSUME TaskInv, CallsInv  PROVE TaskInv' /\ CallsInv'
      <3>1. DOMAIN tasks' = 1 .. Len(tasks) + 1 /\ DOMAIN tasks = 1 .. Len(tasks)
            /\ Len(tasks) \in Nat /\ plugin.server \in DOMAIN servers
        BY <1>0, <1>4, <2>2, <2>4 DEF PluginType, StartPlugin, Loaded, TaskInv
      <3>2. \A t \in DOMAIN tasks' : t # plugin'.task => Done(t)'
        BY <1>4, <2>1, <2>2, <2>4, <3>1 DEF StartPlugin, TaskInv, Done
      <3>3. TaskInv'
        BY <1>4, <2>1, <2>2, <2>4, <3>1, <3>2 DEF StartPlugin, TaskInv, Listening, Task, Loaded
      <3>4. CallsInv'
        BY <1>4, <2>4 DEF StartPlugin, CallsInv
      <3>. QED  BY <3>3, <3>4
    <2>. QED  BY <1>4, <2>3, <2>4 DEF StartPlugin
  <1>5. ASSUME NEW t \in DOMAIN tasks, RunForever(t)  PROVE PluginInv'
    <2>. DEFINE s == tasks[t].server
                status == IF tasks[t].cancelled THEN "ended"
                          ELSE IF Busy(servers[s].port) THEN "failed" ELSE "up"
    <2>1. /\ tasks' = [tasks EXCEPT ![t].status = status]
          /\ servers' = IF status = "ended" THEN servers
                        ELSE [servers EXCEPT ![s].controller = status]
          /\ tasks[t].status = "new" /\ UNCHANGED <<plugin, active, calls, overlapped>>
      BY <1>5 DEF RunForever
    <2>2. status \in {"ended", "failed", "up"} /\ s \in Nat
      <3>1. tasks[t] \in TaskRecord
        BY <1>0 DEF PluginType
      <3>. QED  BY <3>1 DEF TaskRecord
    <2>. HIDE DEF s, status
    <2>3. /\ tasks' \in Seq(TaskRecord) /\ Len(tasks') = Len(tasks)
          /\ tasks'[t].status = status /\ tasks'[t].server = tasks[t].server
          /\ \A i \in DOMAIN tasks : i # t => tasks'[i] = tasks[i]
      <3>1. tasks' = WithStatus(tasks, t, status) /\ status \in Statuses
        BY <2>1, <2>2 DEF WithStatus, Statuses
      <3>. QED  BY <1>0, <3>1, TaskUpdated DEF PluginType
    <2>4. /\ servers' \in Seq(ServerRecord) /\ Len(servers') = Len(servers)
          /\ status = "ended" => servers' = servers
          /\ s \in DOMAIN servers /\ status # "ended" =>
               /\ servers'[s].controller = status
               /\ \A i \in DOMAIN servers : i # s => servers'[i] = servers[i]
      <3>1. CASE status = "ended"
        BY <1>0, <2>1, <3>1 DEF PluginType
      <3>2. CASE status # "ended"
        <4>1. servers' = WithController(servers, s, status) /\ status \in Controllers
          BY <2>1, <2>2, <3>2 DEF WithController, Controllers
        <4>. QED  BY <1>0, <3>2, <4>1, ServerUpdated DEF PluginType
      <3>. QED  BY <3>1, <3>2
    <2>5. PluginType'
      BY <1>0, <2>1, <2>3, <2>4 DEF PluginType
    <2>6. ASSUME TaskInv  PROVE TaskInv'
      <3>1. DOMAIN tasks' = DOMAIN tasks /\ DOMAIN servers' = DOMAIN servers
        BY <1>0, <2>3, <2>4 DEF PluginType
      <3>2. t = plugin.task /\ plugin.task # 0
        BY <1>0, <2>1, <2>6 DEF TaskInv, Done, PluginType
      <3>3. s = plugin.server /\ s \in DOMAIN servers /\ servers[s].controller = "none"
            /\ plugin.running
        BY <1>0, <2>1, <2>6, <3>2 DEF TaskInv, s, PluginType, PluginRecord
      <3>4. \A i \in DOMAIN tasks' : i # plugin'.task => Done(i)'
        BY <2>1, <2>3, <2>6, <3>1, <3>2 DEF TaskInv, Done
      <3>5. \A i \in DOMAIN servers' : i # plugin'.server => ~Listening(i)'
        BY <2>1, <2>4, <2>6, <3>1, <3>3 DEF TaskInv, Listening
      <3>. QED  BY <2>1, <2>2, <2>3, <2>4, <2>6, <3>1, <3>2, <3>3, <3>4, <3>5 DEF TaskInv, s
    <2>. QED  BY <2>1, <2>5, <2>6 DEF CallsInv
  <1>6. ASSUME NEW t \in DOMAIN tasks, RunEnds(t)  PROVE PluginInv'
    <2>. DEFINE s == tasks[t].server
    <2>1. /\ tasks' = [tasks EXCEPT ![t].status = "ended"]
          /\ servers' = [servers EXCEPT ![s].controller = "down"]
          /\ tasks[t].status = "up" /\ UNCHANGED <<plugin, active, calls, overlapped>>
      BY <1>6 DEF RunEnds
    <2>. HIDE DEF s
    <2>2. /\ tasks' \in Seq(TaskRecord) /\ Len(tasks') = Len(tasks)
          /\ tasks'[t].status = "ended" /\ tasks'[t].server = tasks[t].server
          /\ \A i \in DOMAIN tasks : i # t => tasks'[i] = tasks[i]
      <3>1. tasks' = WithStatus(tasks, t, "ended") /\ "ended" \in Statuses
        BY <2>1 DEF WithStatus, Statuses
      <3>. QED  BY <1>0, <3>1, TaskUpdated DEF PluginType
    <2>3. /\ servers' \in Seq(ServerRecord) /\ Len(servers') = Len(servers)
          /\ s \in DOMAIN servers =>
               /\ servers'[s].controller = "down"
               /\ \A i \in DOMAIN servers : i # s => servers'[i] = servers[i]
      <3>1. servers' = WithController(servers, s, "down") /\ "down" \in Controllers
        BY <2>1 DEF WithController, Controllers
      <3>. QED  BY <1>0, <3>1, ServerUpdated DEF PluginType
    <2>4. PluginType'
      BY <1>0, <2>1, <2>2, <2>3 DEF PluginType
    <2>5. ASSUME TaskInv  PROVE TaskInv'
      <3>1. DOMAIN tasks' = DOMAIN tasks /\ DOMAIN servers' = DOMAIN servers
        BY <1>0, <2>2, <2>3 DEF PluginType
      <3>2. t = plugin.task /\ plugin.task # 0
        BY <1>0, <2>1, <2>5 DEF TaskInv, Done, PluginType
      <3>3. s = plugin.server /\ s \in DOMAIN servers /\ plugin.running
        BY <1>0, <2>1, <2>5, <3>2 DEF TaskInv, s, PluginType, PluginRecord
      <3>4. \A i \in DOMAIN tasks' : i # plugin'.task => Done(i)'
        BY <2>1, <2>2, <2>5, <3>1, <3>2 DEF TaskInv, Done
      <3>5. \A i \in DOMAIN servers' : i # plugin'.server => ~Listening(i)'
        BY <2>1, <2>3, <2>5, <3>1, <3>3 DEF TaskInv, Listening
      <3>. QED  BY <2>1, <2>2, <2>3, <2>5, <3>1, <3>2, <3>3, <3>4, <3>5 DEF TaskInv, s
    <2>. QED  BY <2>1, <2>4, <2>5 DEF CallsInv
  <1>7. ASSUME NEW c \in Callers, NEW op \in {"stop", "reload"}, NEW port \in Ports,
               CancelTask(c, op, port)
        PROVE  PluginInv'
    <2>. DEFINE call == [op |-> op, task |-> plugin.task, old |-> plugin.port]
    <2>1. /\ tasks' = [tasks EXCEPT ![plugin.task].cancelled = TRUE]
          /\ calls' = [calls EXCEPT ![c] = call]
          /\ plugin' = IF op = "reload" THEN [plugin EXCEPT !.port = port] ELSE plugin
          /\ overlapped' = (overlapped \/ ~Quiet)
          /\ UNCHANGED <<active, servers>>
          /\ plugin.running /\ calls[c] = Idle
      BY <1>7 DEF CancelTask
    <2>2. call \in CallRecord /\ call.task = plugin.task /\ call.op = op
      BY <1>0 DEF PluginType, PluginRecord, CallRecord
    <2>. HIDE DEF call
    <2>3. /\ plugin' \in PluginRecord /\ plugin'.running = plugin.running
          /\ plugin'.server = plugin.server /\ plugin'.task = plugin.task
      BY <1>0, <2>1 DEF PluginType, PluginRecord, AnyPort
    <2>4. /\ tasks' \in Seq(TaskRecord) /\ Len(tasks') = Len(tasks)
          /\ \A i \in DOMAIN tasks : tasks'[i].status = tasks[i].status
                                    /\ tasks'[i].server = tasks[i].server
      <3>1. tasks' = Cancelled(tasks, plugin.task)
        BY <2>1 DEF Cancelled
      <3>. QED  BY <1>0, <3>1, TaskCancelled DEF PluginType
    <2>5. overlapped' \in BOOLEAN
      BY <2>1
    <2>6. PluginType'
      BY <1>0, <2>1, <2>2, <2>3, <2>4, <2>5 DEF PluginType
    <2>7. ASSUME TaskInv, CallsInv, Quiet  PROVE TaskInv' /\ CallsInv'
      <3>1. DOMAIN tasks' = DOMAIN tasks
        BY <1>0, <2>4 DEF PluginType
      <3>2. TaskInv'
        BY <1>0, <2>1, <2>3, <2>4, <2>7, <3>1 DEF TaskInv, Done, Listening, PluginType
      <3>3. \A d \in Callers : d # c => calls'[d] = Idle
        BY <1>0, <2>1, <2>7 DEF Quiet, PluginType
      <3>4. calls'[c] = call
        BY <1>0, <2>1 DEF PluginType
      <3>5. CallsInv'
        BY <2>1, <2>2, <2>3, <3>3, <3>4 DEF CallsInv
      <3>. QED  BY <3>2, <3>5
    <2>. QED  BY <1>0, <2>1, <2>6, <2>7 DEF PluginType
  <1>8. ASSUME NEW c \in Callers, NEW op \in {"stop", "reload"}, NEW port \in Ports,
               AtOnce(c, op, port)
        PROVE  PluginInv'
    <2>1. /\ AfterWait(op, plugin.task, plugin.port, port)
          /\ plugin.running /\ Done(plugin.task) /\ UNCHANGED calls
          /\ overlapped' = (overlapped \/ ~Quiet)
      BY <1>8 DEF AtOnce
    <2>2. plugin.port \in AnyPort /\ port \in AnyPort
      BY <1>0 DEF PluginType, PluginRecord, AnyPort
    <2>3. PluginType'
      BY <1>0, <2>1, <2>2, AfterWaitTypes DEF PluginType
    <2>4. ASSUME TaskInv, Quiet  PROVE TaskInv' /\ CallsInv'
      <3>1. TaskInv'
        BY <1>0, <2>1, <2>2, <2>4, AfterWaitKeeps
      <3>2. CallsInv'
        BY <2>1, <2>4 DEF CallsInv, Quiet
      <3>. QED  BY <3>1, <3>2
    <2>. QED  BY <1>0, <2>1, <2>3, <2>4 DEF PluginType
  <1>9. ASSUME NEW c \in Callers, TaskAwaited(c)  PROVE PluginInv'
    <2>1. /\ AfterWait(calls[c].op, calls[c].task, calls[c].old, plugin.port)
          /\ calls[c] # Idle /\ Done(calls[c].task)
          /\ calls' = [calls EXCEPT ![c] = Idle] /\ UNCHANGED overlapped
      BY <1>9 DEF TaskAwaited
    <2>2. plugin.port \in AnyPort /\ calls[c].old \in AnyPort
      BY <1>0 DEF PluginType, PluginRecord, CallRecord
    <2>3. calls' \in [Callers -> CallRecord]
      <3>1. Idle \in CallRecord
        BY DEF Idle, CallRecord, AnyPort
      <3>. QED  BY <1>0, <2>1, <3>1 DEF PluginType
    <2>4. PluginType'
      BY <1>0, <2>1, <2>2, <2>3, AfterWaitTypes DEF PluginType
    <2>5. ASSUME TaskInv, CallsInv  PROVE TaskInv' /\ CallsInv'
      <3>1. /\ plugin.running /\ calls[c].task = plugin.task /\ calls[c].op \in {"stop", "reload"}
            /\ \A d \in Callers : d # c => calls[d] = Idle
        BY <2>1, <2>5 DEF CallsInv
      <3>2. TaskInv'
        BY <1>0, <2>1, <2>2, <2>5, <3>1, AfterWaitKeeps
      <3>3. \A d \in Callers : calls'[d] = Idle
        BY <1>0, <2>1, <3>1 DEF PluginType
      <3>. QED  BY <3>2, <3>3 DEF CallsInv
    <2>. QED  BY <1>0, <2>1, <2>4, <2>5
  <1>. QED
    BY <1>1, <1>2, <1>3, <1>4, <1>5, <1>6, <1>7, <1>8, <1>9 DEF PluginNext

\* A step of the system is a step of the plugin's or leaves the plugin as it is.
LEMMA PluginStepOf == [Next]_vars => [PluginNext]_pluginVars
  BY DEF Next, PluginStep, MailStep, ShieldStep, RegistryStep, FiltersStep, SendersStep, vars,
         intakeVars, PluginNext

\* What holds also while calls overlap: of what is listed and of what listens.
ListedInv == active \in {0, 1} /\ (active = 1 => plugin.running)

LEMMA ListedInvNext == PluginType /\ ListedInv /\ [PluginNext]_pluginVars => ListedInv'
  <1>. SUFFICES ASSUME PluginType, ListedInv, [PluginNext]_pluginVars  PROVE ListedInv'
    OBVIOUS
  <1>. USE DEF ListedInv
  <1>1. ASSUME UNCHANGED <<active, plugin>>  PROVE ListedInv'
    BY <1>1
  <1>2. ASSUME NEW port \in Ports, LoadPlugin(port) \/ ReloadIdle(port) \/ OtherProgram(port)
        PROVE  ListedInv'
    BY <1>2 DEF LoadPlugin, ReloadIdle, OtherProgram, PluginType, PluginRecord
  <1>3. CASE StartPlugin
    BY <1>3 DEF StartPlugin, PluginType, PluginRecord
  <1>4. ASSUME NEW op, NEW t, NEW old, NEW new, AfterWait(op, t, old, new)  PROVE ListedInv'
    <2>1. \/ active' = active /\ plugin'.running = plugin.running
          \/ active' = 0
          \/ active' = active /\ plugin'.running = TRUE
      <3>1. \A port : [plugin EXCEPT !.port = port].running = plugin.running
        BY DEF PluginType, PluginRecord
      <3>2. CASE Raises(t)
        BY <1>4, <3>1, <3>2, Zenon DEF AfterWait
      <3>3. CASE op = "stop" /\ active' = IF active > 0 THEN active - 1 ELSE 0
        BY <3>3
      <3>4. CASE /\ UNCHANGED active
                 /\ plugin' = [plugin EXCEPT !.running = TRUE, !.port = new,
                                 !.server = Len(servers) + 1, !.task = Len(tasks) + 1]
        BY <3>4 DEF PluginType, PluginRecord
      <3>. QED  BY <1>4, <3>2, <3>3, <3>4, Zenon DEF AfterWait
    <2>. QED  BY <2>1
  <1>5. ASSUME NEW c, NEW op, NEW port, CancelTask(c, op, port)  PROVE ListedInv'
    BY <1>5 DEF CancelTask, PluginType, PluginRecord
  <1>. QED
    BY <1>1, <1>2, <1>3, <1>4, <1>5
       DEF PluginNext, RunForever, RunEnds, AtOnce, TaskAwaited, pluginVars

\* A listener keeps its task: servers and tasks are only added, a task that ends
\* stops its server, and a server is otherwise only stopped.
LEMMA ListenersKept ==
  ASSUME ListenerHasTask,
         \A s \in DOMAIN servers' : Listening(s)' => s \in DOMAIN servers /\ Listening(s),
         \A t \in DOMAIN tasks : t \in DOMAIN tasks' /\ tasks'[t].server = tasks[t].server
                                /\ tasks'[t].status = tasks[t].status
  PROVE  ListenerHasTask'
  BY DEF ListenerHasTask

LEMMA ListenersKeptNext ==
  PluginType /\ ListenerHasTask /\ [PluginNext]_pluginVars => ListenerHasTask'
  <1>. SUFFICES ASSUME PluginType, ListenerHasTask, [PluginNext]_pluginVars
                PROVE  ListenerHasTask'
    OBVIOUS
  <1>0. servers \in Seq(ServerRecord) /\ tasks \in Seq(TaskRecord)
        /\ DOMAIN servers = 1 .. Len(servers) /\ DOMAIN tasks = 1 .. Len(tasks)
        /\ Len(servers) \in Nat /\ Len(tasks) \in Nat
    BY DEF PluginType
  <1>a. \A t \in DOMAIN tasks : tasks[t] \in TaskRecord
    BY <1>0
  <1>b. \A port : Server(port).controller # "up"
    BY DEF Server
  <1>1. ASSUME UNCHANGED <<servers, tasks>>  PROVE ListenerHasTask'
    BY <1>1 DEF ListenerHasTask, Listening
  <1>2. ASSUME NEW port \in Ports, LoadPlugin(port)  PROVE ListenerHasTask'
    <2>1. /\ \A s \in DOMAIN servers : servers'[s] = servers[s]
          /\ DOMAIN servers' = 1 .. Len(servers) + 1 /\ servers'[Len(servers) + 1] = Server(port)
          /\ tasks' = tasks
      BY <1>0, <1>2 DEF LoadPlugin
    <2>. QED  BY <1>0, <1>b, <2>1, ListenersKept DEF Listening
  <1>3. CASE StartPlugin
    <2>1. /\ servers' = servers /\ DOMAIN tasks' = 1 .. Len(tasks) + 1
          /\ \A t \in DOMAIN tasks : tasks'[t] = tasks[t]
      BY <1>0, <1>3 DEF StartPlugin
    <2>. QED  BY <1>0, <2>1, ListenersKept DEF Listening
  <1>4. ASSUME NEW op, NEW t, NEW old, NEW new, AfterWait(op, t, old, new)  PROVE ListenerHasTask'
    <2>1. CASE UNCHANGED <<servers, tasks>>
      BY <1>1, <2>1
    <2>2. Stopped \in {servers, WithController(servers, plugin.server, "down")}
      BY DEF Stopped, WithController
    <2>3. WithController(servers, plugin.server, "down") \in Seq(ServerRecord)
          /\ Len(WithController(servers, plugin.server, "down")) = Len(servers)
          /\ \A i \in DOMAIN servers : WithController(servers, plugin.server, "down")[i].controller \in {"down", servers[i].controller}
      <3>1. "down" \in Controllers
        BY DEF Controllers
      <3>2. /\ WithController(servers, plugin.server, "down") \in Seq(ServerRecord)
            /\ Len(WithController(servers, plugin.server, "down")) = Len(servers)
            /\ plugin.server \in DOMAIN servers => WithController(servers, plugin.server, "down")[plugin.server].controller = "down"
            /\ \A i \in DOMAIN servers : i # plugin.server => WithController(servers, plugin.server, "down")[i] = servers[i]
        BY <1>0, <3>1, ServerUpdated
      <3>. QED  BY <3>2
    <2>4. /\ Stopped \in Seq(ServerRecord) /\ Len(Stopped) = Len(servers)
          /\ \A i \in DOMAIN servers : Stopped[i].controller = "up" => servers[i].controller = "up"
      BY <1>0, <2>2, <2>3
    <2>5. CASE servers' = Stopped /\ tasks' = tasks
      BY <1>0, <2>4, <2>5, ListenersKept DEF Listening
    <2>6. CASE servers' = Append(Stopped, Server(new)) /\ tasks' = Append(tasks, Task(Len(servers) + 1))
      <3>1. /\ DOMAIN servers' = 1 .. Len(servers) + 1 /\ servers'[Len(servers) + 1] = Server(new)
            /\ \A i \in DOMAIN servers : servers'[i] = Stopped[i]
            /\ DOMAIN tasks' = 1 .. Len(tasks) + 1 /\ \A i \in DOMAIN tasks : tasks'[i] = tasks[i]
        BY <1>0, <2>4, <2>6
      <3>. QED  BY <1>0, <1>b, <2>4, <3>1, ListenersKept DEF Listening
    <2>. QED  BY <1>4, <2>1, <2>5, <2>6 DEF AfterWait
  <1>5. ASSUME NEW c, NEW op, NEW port, CancelTask(c, op, port)  PROVE ListenerHasTask'
    <2>1. tasks' = Cancelled(tasks, plugin.task) /\ servers' = servers
      BY <1>5 DEF CancelTask, Cancelled
    <2>2. tasks' \in Seq(TaskRecord) /\ Len(tasks') = Len(tasks)
          /\ \A i \in DOMAIN tasks : tasks'[i].status = tasks[i].status
                                    /\ tasks'[i].server = tasks[i].server
      BY <1>0, <2>1, TaskCancelled
    <2>. QED  BY <1>0, <2>1, <2>2, ListenersKept DEF Listening
  <1>6. ASSUME NEW t \in DOMAIN tasks, RunForever(t) \/ RunEnds(t)  PROVE ListenerHasTask'
    <2>. DEFINE s == tasks[t].server
    <2>1. \E status \in {"ended", "failed", "up"} :
            /\ tasks' = WithStatus(tasks, t, status)
            /\ \/ servers' = servers /\ status # "up" /\ tasks[t].status = "new"
               \/ servers' = WithController(servers, s, status) /\ status # "ended" /\ tasks[t].status = "new"
               \/ servers' = WithController(servers, s, "down") /\ status = "ended"
      BY <1>6 DEF RunForever, RunEnds, WithStatus, WithController
    <2>2. PICK status \in {"ended", "failed", "up"} :
            /\ tasks' = WithStatus(tasks, t, status)
            /\ \/ servers' = servers /\ status # "up" /\ tasks[t].status = "new"
               \/ servers' = WithController(servers, s, status) /\ status # "ended" /\ tasks[t].status = "new"
               \/ servers' = WithController(servers, s, "down") /\ status = "ended"
      BY <2>1
    <2>. HIDE DEF s
    <2>3. /\ DOMAIN tasks' = DOMAIN tasks
          /\ tasks'[t].status = status /\ tasks'[t].server = tasks[t].server
          /\ \A i \in DOMAIN tasks : i # t => tasks'[i] = tasks[i]
      <3>1. status \in Statuses
        BY DEF Statuses
      <3>2. tasks' \in Seq(TaskRecord) /\ Len(tasks') = Len(tasks)
            /\ tasks'[t].status = status /\ tasks'[t].server = tasks[t].server
            /\ \A i \in DOMAIN tasks : i # t => tasks'[i] = tasks[i]
        BY <1>0, <2>2, <3>1, TaskUpdated
      <3>. QED  BY <1>0, <3>2
    <2>4. ASSUME NEW c \in Controllers, servers' = WithController(servers, s, c)
          PROVE  /\ DOMAIN servers' = DOMAIN servers
                 /\ s \in DOMAIN servers => servers'[s].controller = c
                 /\ \A i \in DOMAIN servers : i # s => servers'[i] = servers[i]
      <3>1. /\ servers' \in Seq(ServerRecord) /\ Len(servers') = Len(servers)
            /\ s \in DOMAIN servers => servers'[s].controller = c
            /\ \A i \in DOMAIN servers : i # s => servers'[i] = servers[i]
        BY <1>0, <2>4, ServerUpdated
      <3>2. \A q \in Seq(ServerRecord) : DOMAIN q = 1 .. Len(q)
        OBVIOUS
      <3>3. DOMAIN servers' = 1 .. Len(servers') /\ DOMAIN servers = 1 .. Len(servers)
        BY <1>0, <3>1, <3>2, Zenon
      <3>4. DOMAIN servers' = DOMAIN servers
        BY <3>1, <3>3, Zenon
      <3>. QED  BY <3>1, <3>4, Zenon
    <2>5. {"up", "failed", "down"} \subseteq Controllers
      BY DEF Controllers
    <2>. SUFFICES ASSUME NEW x \in DOMAIN servers', Listening(x)'
                  PROVE  \E i \in DOMAIN tasks' : tasks'[i].server = x /\ tasks'[i].status = "up"
      BY DEF ListenerHasTask
    <2>6. CASE servers' = servers /\ status # "up" /\ tasks[t].status = "new"
      <3>1. PICK i \in DOMAIN tasks : tasks[i].server = x /\ tasks[i].status = "up"
        BY <2>6 DEF ListenerHasTask, Listening
      <3>. QED  BY <2>3, <2>6, <3>1
    <2>7. ASSUME NEW c \in Controllers, servers' = WithController(servers, s, c), x # s
          PROVE  \E i \in DOMAIN tasks' : tasks'[i].server = x /\ tasks'[i].status = "up"
      <3>1. x \in DOMAIN servers /\ servers'[x] = servers[x]
        BY <2>4, <2>7
      <3>2. PICK i \in DOMAIN tasks : tasks[i].server = x /\ tasks[i].status = "up"
        BY <3>1 DEF ListenerHasTask, Listening
      <3>. QED  BY <2>3, <2>7, <3>2 DEF s
    <2>8. CASE servers' = WithController(servers, s, status) /\ status # "ended" /\ x = s
      <3>1. status = "up"
        BY <2>4, <2>5, <2>8 DEF Listening
      <3>. QED  BY <2>3, <2>8, <3>1 DEF s
    <2>9. CASE servers' = WithController(servers, s, "down") /\ x = s
      BY <2>4, <2>5, <2>9 DEF Listening
    <2>. QED  BY <2>2, <2>5, <2>6, <2>7, <2>8, <2>9
  <1>7. ASSUME NEW port \in Ports, ReloadIdle(port) \/ OtherProgram(port)  PROVE ListenerHasTask'
    BY <1>1, <1>7 DEF ReloadIdle, OtherProgram
  <1>. QED
    BY <1>1, <1>2, <1>3, <1>4, <1>5, <1>6, <1>7
       DEF PluginNext, AtOnce, TaskAwaited, pluginVars

\* The plugin is listed once at most and only while it runs, and what listens has a
\* task; as long as calls do not overlap, a listener belongs to a plugin that runs and
\* the manager lists what runs.
THEOREM PluginAlwaysInStep == Spec => []PluginInStep
  <1>1. PluginInv /\ ListedInv => NoOrphan /\ ListedWhileRunning
    <2>. SUFFICES ASSUME PluginInv, ListedInv  PROVE NoOrphan /\ ListedWhileRunning
      OBVIOUS
    <2>1. ASSUME ~overlapped  PROVE PluginType /\ TaskInv
      BY <2>1 DEF PluginInv
    <2>2. ASSUME ~overlapped, NEW s \in DOMAIN servers, Listening(s)
          PROVE  plugin.running /\ s = plugin.server
      <3>1. s = plugin.server /\ plugin.server # 0
        BY <2>1, <2>2 DEF TaskInv, PluginType
      <3>2. plugin.running
        BY <2>1, <2>2, <3>1 DEF TaskInv, Listening
      <3>. QED  BY <3>1, <3>2
    <2>3. NoOrphan
      BY <2>2 DEF NoOrphan
    <2>4. ListedWhileRunning
      BY <2>1 DEF ListedWhileRunning, ListedInv, TaskInv
    <2>. QED  BY <2>3, <2>4
  <1>2. PluginInv /\ [Next]_vars => PluginInv'
    BY PluginInvNext, PluginStepOf
  <1>3. PluginInv => PluginType
    BY DEF PluginInv
  <1>4. PluginInv /\ ListedInv /\ ListenerHasTask /\ [Next]_vars => ListedInv' /\ ListenerHasTask'
    BY <1>3, ListedInvNext, ListenersKeptNext, PluginStepOf
  <1>5. Init => ListedInv /\ ListenerHasTask
    BY DEF Init, PluginInit, ListedInv, ListenerHasTask
  <1>. QED  BY <1>1, <1>2, <1>4, <1>5, PluginInvInit, PTL DEF Spec, PluginInStep

-----------------------------------------------------------------------------
(* The registry of providers.                                              *)

Made == [name : Providers, key : Keys \cup {Absent}, state : {"bare", "initialised", "failed"}]

\* Of the instances of a name, the i-th is the one to be handed out: of a registry
\* that came after the first `since` ones.
IsLatest(name, i, insts, since) ==
  /\ insts[i].name = name /\ insts[i].state # "failed"
  /\ \A j \in DOMAIN insts : insts[j].name = name /\ j > i => insts[j].state = "failed"
  /\ insts[i].state = "bare" =>
       \A j \in DOMAIN insts : insts[j].name = name /\ j # i /\ j > since => insts[j].state = "failed"

\* A name that is not loaded has only failed in this registry.
OnlyFailed(name, insts, since) ==
  \A j \in DOMAIN insts : insts[j].name = name /\ j > since => insts[j].state = "failed"

\* What is loaded are numbers of instances made.
RegistryInv ==
  /\ \E key, loaded, since : registry = [key |-> key, loaded |-> loaded, since |-> since]
  /\ instances \in Seq(Made) /\ registry.since \in 0 .. Len(instances)
  /\ registry.key \in Keys \cup {Absent}
  /\ LoadedIsLicensed
  /\ \A name \in DOMAIN registry.loaded :
       /\ name \in Providers /\ registry.loaded[name] \in 1 .. Len(instances)
       /\ IsLatest(name, registry.loaded[name], instances, registry.since)
  /\ \A name \in Providers \ DOMAIN registry.loaded :
       OnlyFailed(name, instances, registry.since)

LEMMA RegistryInvFits == RegistryInv => RegistryUpToDate
  <1>. SUFFICES ASSUME RegistryInv, NEW name \in DOMAIN registry.loaded
                PROVE  LET i == registry.loaded[name]
                           others == {j \in DOMAIN instances : instances[j].name = name /\ j # i}
                       IN /\ instances[i].name = name /\ instances[i].state # "failed"
                          /\ \A j \in others : j > i => instances[j].state = "failed"
                          /\ instances[i].state = "bare" =>
                               \A j \in others : j > registry.since => instances[j].state = "failed"
    BY DEF RegistryUpToDate, LatestIsKept, RegistryInv
  <1>. QED  BY DEF RegistryInv, IsLatest

LEMMA RegistryInvInit == Init => RegistryInv
  <1>. SUFFICES ASSUME Init  PROVE RegistryInv
    OBVIOUS
  <1>. DEFINE nothing == [name \in {} |-> 0]
  <1>1. DOMAIN nothing = {}
    OBVIOUS
  <1>2. registry = [key |-> Absent, loaded |-> nothing, since |-> Len(instances)] /\ instances = <<>>
    BY DEF Init, RegistryInit, Fresh
  <1>. HIDE DEF nothing
  <1>3. registry.key = Absent /\ registry.loaded = nothing /\ registry.since = 0
    BY <1>2
  <1>4. \E k, l, n : registry = [key |-> k, loaded |-> l, since |-> n]
    BY <1>2
  <1>5. instances \in Seq(Made) /\ Len(instances) = 0
    BY <1>2
  <1>6. \A name : OnlyFailed(name, instances, registry.since)
    BY <1>2 DEF OnlyFailed
  <1>7. registry.since \in 0 .. Len(instances)
    BY <1>3, <1>5
  <1>8. registry.key \in Keys \cup {Absent}
    BY <1>3
  <1>9. DOMAIN registry.loaded = {}
    BY <1>1, <1>3
  <1>. QED
    BY <1>4, <1>5, <1>6, <1>7, <1>8, <1>9 DEF RegistryInv, LoadedIsLicensed

\* A provider made for the key is kept under its name unless it failed; one that
\* nothing initialised is made only where none is loaded.
LEMMA InstanceKept ==
  ASSUME RegistryInv, NEW name \in GetAvailableProviders,
         NEW state \in {"bare", "initialised", "failed"},
         instances' = Append(instances, [name |-> name, key |-> registry.key, state |-> state]),
         registry' = IF state = "failed" THEN registry
                     ELSE [registry EXCEPT !.loaded = LoadedWith(name)],
         state = "bare" => name \notin DOMAIN registry.loaded
  PROVE  RegistryInv'
  <1>. DEFINE new == [name |-> name, key |-> registry.key, state |-> state]
              n == Len(instances) + 1
              since == registry.since
  <1>1. name \in Providers /\ IsProviderLicensed(Required(name), LicenseType(registry.key))
    BY DEF GetAvailableProviders
  <1>2. /\ instances' \in Seq(Made)
        /\ Len(instances') = n /\ instances'[n] = new
        /\ \A i \in DOMAIN instances : instances'[i] = instances[i]
    <2>1. new \in Made
      BY <1>1 DEF RegistryInv, Made
    <2>. HIDE DEF new
    <2>. QED  BY <2>1, Appended DEF RegistryInv, new
  <1>3. new.name = name /\ new.state = state
    OBVIOUS
  <1>4. DOMAIN instances = 1 .. Len(instances) /\ DOMAIN instances' = 1 .. n /\ Len(instances) \in Nat
    BY <1>2 DEF RegistryInv
  <1>5. since \in 0 .. Len(instances) /\ since \in 0 .. Len(instances')
    BY <1>2, <1>4 DEF RegistryInv
  <1>. HIDE DEF new, since
  <1>6. ASSUME NEW x, NEW i \in DOMAIN instances, IsLatest(x, i, instances, since),
               x = name => state = "failed"
        PROVE  IsLatest(x, i, instances', since)
    BY <1>2, <1>3, <1>4, <1>6 DEF IsLatest
  <1>7. ASSUME NEW x, OnlyFailed(x, instances, since), x = name => state = "failed"
        PROVE  OnlyFailed(x, instances', since)
    BY <1>2, <1>3, <1>4, <1>7 DEF OnlyFailed
  <1>8. CASE state = "failed"
    <2>1. registry' = registry
      BY <1>8
    <2>2. LoadedIsLicensed'
      BY <2>1 DEF RegistryInv, LoadedIsLicensed
    <2>3. \A x \in DOMAIN registry.loaded :
            /\ x \in Providers /\ registry.loaded[x] \in 1 .. Len(instances')
            /\ IsLatest(x, registry.loaded[x], instances', since)
      BY <1>2, <1>4, <1>6, <1>8 DEF RegistryInv, since
    <2>4. \A x \in Providers \ DOMAIN registry.loaded : OnlyFailed(x, instances', since)
      BY <1>7, <1>8 DEF RegistryInv, since
    <2>. QED
      BY <1>2, <1>5, <2>1, <2>2, <2>3, <2>4 DEF RegistryInv, since
  <1>9. CASE state # "failed"
    <2>. DEFINE loaded == LoadedWith(name)
    <2>1. /\ DOMAIN loaded = DOMAIN registry.loaded \cup {name} /\ loaded[name] = n
          /\ \A x \in DOMAIN registry.loaded : x # name => loaded[x] = registry.loaded[x]
      BY DEF LoadedWith
    <2>2. registry' = [registry EXCEPT !.loaded = loaded]
      BY <1>9
    <2>. HIDE DEF loaded
    <2>3. registry' = [key |-> registry.key, loaded |-> loaded, since |-> since]
      <3>1. PICK k, l, m : registry = [key |-> k, loaded |-> l, since |-> m]
        BY DEF RegistryInv
      <3>. QED  BY <2>2, <3>1 DEF since
    <2>4. registry'.key = registry.key /\ registry'.loaded = loaded /\ registry'.since = since
      BY <2>3
    <2>5. LoadedIsLicensed'
      BY <1>1, <2>1, <2>4 DEF RegistryInv, LoadedIsLicensed
    <2>6. IsLatest(name, n, instances', since)
      <3>1. state = "bare" => OnlyFailed(name, instances, since)
        BY <1>1 DEF RegistryInv, since
      <3>. QED  BY <1>2, <1>3, <1>4, <1>9, <3>1 DEF IsLatest, OnlyFailed
    <2>7. \A x \in DOMAIN loaded :
            /\ x \in Providers /\ loaded[x] \in 1 .. Len(instances')
            /\ IsLatest(x, loaded[x], instances', since)
      <3>. SUFFICES ASSUME NEW x \in DOMAIN loaded
                    PROVE  /\ x \in Providers /\ loaded[x] \in 1 .. Len(instances')
                           /\ IsLatest(x, loaded[x], instances', since)
        OBVIOUS
      <3>1. CASE x = name
        BY <1>1, <1>2, <1>4, <2>1, <2>6, <3>1
      <3>2. CASE x # name
        <4>1. /\ x \in DOMAIN registry.loaded /\ loaded[x] = registry.loaded[x]
              /\ x \in Providers /\ loaded[x] \in 1 .. Len(instances)
              /\ IsLatest(x, loaded[x], instances, since)
          BY <2>1, <3>2 DEF RegistryInv, since
        <4>. QED  BY <1>2, <1>4, <1>6, <3>2, <4>1
      <3>. QED  BY <3>1, <3>2
    <2>8. \A x \in Providers \ DOMAIN loaded : OnlyFailed(x, instances', since)
      BY <1>7, <2>1 DEF RegistryInv, since
    <2>9. \E k, l, m : registry' = [key |-> k, loaded |-> l, since |-> m]
      BY <2>3
    <2>10. registry'.key \in Keys \cup {Absent}
      BY <2>4 DEF RegistryInv
    <2>. QED
      BY <1>2, <1>5, <2>4, <2>5, <2>7, <2>8, <2>9, <2>10 DEF RegistryInv
  <1>. QED  BY <1>8, <1>9

LEMMA RegistryInvNext == RegistryInv /\ [Next]_vars => RegistryInv'
  <1>. SUFFICES ASSUME RegistryInv, [Next]_vars  PROVE RegistryInv'
    OBVIOUS
  <1>1. CASE UNCHANGED registryVars
    BY <1>1 DEF registryVars, RegistryInv, LoadedIsLicensed
  <1>2. ASSUME NEW key \in Keys, GetProviderRegistry(key)  PROVE RegistryInv'
    <2>. DEFINE nothing == [name \in {} |-> 0]
    <2>1. DOMAIN nothing = {}
      OBVIOUS
    <2>2. /\ registry' = [key |-> key, loaded |-> nothing, since |-> Len(instances)]
          /\ UNCHANGED instances
      BY <1>2 DEF GetProviderRegistry, Fresh
    <2>. HIDE DEF nothing
    <2>3. registry'.key = key /\ registry'.loaded = nothing /\ registry'.since = Len(instances)
      BY <2>2
    <2>4. instances \in Seq(Made) /\ Len(instances) \in 0 .. Len(instances)
          /\ \A name : OnlyFailed(name, instances, Len(instances))
      BY DEF RegistryInv, OnlyFailed
    <2>5. \E k, l, n : registry' = [key |-> k, loaded |-> l, since |-> n]
      BY <2>2
    <2>. QED
      BY <2>1, <2>2, <2>3, <2>4, <2>5 DEF RegistryInv, LoadedIsLicensed
  <1>3. ASSUME NEW name \in Providers, GetProvider(name)  PROVE RegistryInv'
    <2>1. /\ name \in GetAvailableProviders
          /\ instances' = Append(instances, [name |-> name, key |-> registry.key, state |-> "bare"])
          /\ registry' = [registry EXCEPT !.loaded = LoadedWith(name)]
          /\ name \notin DOMAIN registry.loaded
      BY <1>3 DEF GetProvider
    <2>. QED  BY <2>1, InstanceKept
  <1>4. ASSUME NEW name \in Providers, NEW setting, NEW inLoop, GetConfigured(name, setting, inLoop)
        PROVE  RegistryInv'
    <2>. DEFINE good == ~inLoop /\ setting = "complete"
                state == IF good THEN "initialised" ELSE "failed"
    <2>1. /\ name \in GetAvailableProviders
          /\ instances' = Append(instances, [name |-> name, key |-> registry.key, state |-> state])
          /\ registry' = IF state = "failed" THEN registry
                ELSE [registry EXCEPT !.loaded = LoadedWith(name)]
      BY <1>4 DEF GetConfigured
    <2>2. state \in {"bare", "initialised", "failed"} /\ state # "bare"
      OBVIOUS
    <2>. HIDE DEF state
    <2>. QED  BY <2>1, <2>2, InstanceKept
  <1>. QED
    BY <1>1, <1>2, <1>3, <1>4
       DEF Next, PluginStep, MailStep, ShieldStep, RegistryStep, FiltersStep, SendersStep,
           RegistryNext, vars, intakeVars

\* Whatever keys and configurations came before, the registry hands out what its
\* key allows, and of each name the latest that did not fail; one that nothing
\* initialised only while it has initialised none.
THEOREM RegistryAlwaysUpToDate == Spec => []RegistryUpToDate
  <1>1. RegistryInv => RegistryUpToDate
    BY RegistryInvFits
  <1>. QED  BY <1>1, RegistryInvInit, RegistryInvNext, PTL DEF Spec

-----------------------------------------------------------------------------
(* The filters of a mailbox.                                               *)

CallKinds == {"none", "block", "safe", "labels"}
Labels == {Parent} \cup Nested
Steps == {"none", "list", "parent", "create", "filter"}
FilterCall == [call : Nat, kind : CallKinds, sender : Senders \cup {"none"}, want : Seq(Labels),
               step : Steps, seen : SUBSET Labels]

\* A worker about to create a nested label has seen to its parent, and one about to
\* create a filter to the label it names.
LabelsInv ==
  /\ todo \in [Workers -> FilterCall] /\ made \in Nat /\ labels \subseteq Labels
  /\ LabelsInPlace
  /\ \A w \in Workers :
       /\ todo[w].step \in {"list", "parent", "create"} => todo[w].want # <<>>
       /\ todo[w].step = "create" /\ Head(todo[w].want) \in Nested => Parent \in labels
       /\ todo[w].kind = "block" =>
            /\ todo[w].step \in {"list", "parent", "create"} => todo[w].want = <<"Toxic">>
            /\ todo[w].step = "filter" => "Toxic" \in labels

LEMMA LabelsInvInit == Init => LabelsInv
  <1>1. Free \in FilterCall
    BY DEF Free, FilterCall, CallKinds, Steps
  <1>. QED
    BY <1>1 DEF Init, FiltersInit, LabelsInv, LabelsInPlace, Free, Nested

\* The conditions on one worker's call, with the labels there are.
CallFits(call, there) ==
  /\ call.step \in {"list", "parent", "create"} => call.want # <<>>
  /\ call.step = "create" /\ Head(call.want) \in Nested => Parent \in there
  /\ call.kind = "block" =>
       /\ call.step \in {"list", "parent", "create"} => call.want = <<"Toxic">>
       /\ call.step = "filter" => "Toxic" \in there

\* One worker's call changes, and labels are added.
LEMMA OneCallChanges ==
  ASSUME LabelsInv, NEW w \in Workers, NEW call \in FilterCall, todo' = [todo EXCEPT ![w] = call],
         labels \subseteq labels', labels' \subseteq Labels, made' \in Nat, LabelsInPlace',
         CallFits(call, labels')
  PROVE  LabelsInv'
  <1>1. todo' \in [Workers -> FilterCall] /\ todo'[w] = call
        /\ \A v \in Workers : v # w => todo'[v] = todo[v]
    BY DEF LabelsInv
  <1>2. ASSUME NEW v \in Workers  PROVE CallFits(todo'[v], labels')
    <2>1. CASE v = w
      BY <1>1, <2>1
    <2>2. CASE v # w
      BY <1>1, <2>2 DEF LabelsInv, CallFits
    <2>. QED  BY <2>1, <2>2
  <1>. QED  BY <1>1, <1>2 DEF LabelsInv, CallFits

\* Once a label is there the call goes on with the next, or with its filter.
LEMMA EnsuredFits ==
  ASSUME LabelsInv, NEW w \in Workers, todo[w].step \in {"list", "create"}, Ensured(w),
         labels \subseteq labels', labels' \subseteq Labels, made' \in Nat, LabelsInPlace',
         Head(todo[w].want) \in labels'
  PROVE  LabelsInv'
  <1>. DEFINE was == todo[w]
              rest == Tail(was.want)
              call == IF rest # <<>> THEN [was EXCEPT !.want = rest, !.step = "list", !.seen = {}]
                      ELSE IF was.kind = "labels" THEN Free
                      ELSE [was EXCEPT !.step = "filter", !.seen = {}]
  <1>1. was \in FilterCall /\ CallFits(was, labels) /\ was.want # <<>>
    BY DEF LabelsInv, CallFits
  <1>2. todo' = [todo EXCEPT ![w] = call]
    BY DEF Ensured
  <1>3. was.step \in {"list", "create"} /\ Head(was.want) \in labels'
    OBVIOUS
  <1>. HIDE DEF was
  <1>4. call \in FilterCall /\ CallFits(call, labels')
    <2>0. rest \in Seq(Labels)
      BY <1>1 DEF FilterCall
    <2>1. CASE rest # <<>>
      <3>1. call = [was EXCEPT !.want = rest, !.step = "list", !.seen = {}]
        BY <2>1
      <3>2. was.kind # "block"
        <4>1. was.kind = "block" => was.want = <<"Toxic">>
          BY <1>1, <1>3 DEF CallFits
        <4>2. Tail(<<"Toxic">>) = <<>>
          OBVIOUS
        <4>. QED  BY <2>1, <4>1, <4>2
      <3>. HIDE DEF call, rest
      <3>. QED  BY <1>1, <2>0, <2>1, <3>1, <3>2 DEF FilterCall, Steps, CallFits
    <2>2. CASE rest = <<>> /\ was.kind = "labels"
      BY <2>2 DEF Free, FilterCall, Steps, CallKinds, CallFits
    <2>3. CASE rest = <<>> /\ was.kind # "labels"
      <3>1. call = [was EXCEPT !.step = "filter", !.seen = {}]
        BY <2>3
      <3>2. was.kind = "block" => "Toxic" \in labels'
        BY <1>1, <1>3 DEF CallFits
      <3>. HIDE DEF call, rest
      <3>. QED  BY <1>1, <3>1, <3>2 DEF FilterCall, Steps, CallFits
    <2>. QED  BY <2>1, <2>2, <2>3
  <1>. HIDE DEF call
  <1>. QED  BY <1>2, <1>4, OneCallChanges

\* The step of a call changes.
Stepped(call, step, seen) == [call EXCEPT !.step = step, !.seen = seen]

LEMMA StepFits ==
  ASSUME NEW was \in FilterCall, NEW there, CallFits(was, there), was.step \in {"list", "parent"},
         NEW step \in {"create", "parent"}, NEW seen \in SUBSET Labels, NEW later,
         step = "create" => (Head(was.want) \in Nested => Parent \in later)
  PROVE  Stepped(was, step, seen) \in FilterCall /\ CallFits(Stepped(was, step, seen), later)
  BY DEF Stepped, FilterCall, Steps, CallFits

LEMMA FreeFits == Free \in FilterCall /\ \A there : CallFits(Free, there)
  BY DEF Free, FilterCall, CallKinds, Steps, CallFits

LEMMA LabelsInvNext == LabelsInv /\ [Next]_vars => LabelsInv'
  <1>. SUFFICES ASSUME LabelsInv, [Next]_vars  PROVE LabelsInv'
    OBVIOUS
  <1>1. CASE UNCHANGED filterVars
    BY <1>1 DEF filterVars, LabelsInv, LabelsInPlace
  <1>2. ASSUME NEW w \in Workers, NEW kind \in {"block", "safe", "labels"},
               NEW sender \in Senders \cup {"none"}, NEW want \in Seq(Labels),
               kind = "block" => want = <<"Toxic">>, kind = "labels" => want # <<>>,
               Begin(w, kind, sender, want)
        PROVE  LabelsInv'
    <2>. DEFINE call == [call |-> made + 1, kind |-> kind, sender |-> sender, want |-> want,
                         step |-> IF want = <<>> THEN "filter" ELSE "list", seen |-> {}]
    <2>1. todo' = [todo EXCEPT ![w] = call] /\ made' = made + 1 /\ UNCHANGED <<labels, filters>>
      BY <1>2 DEF Begin
    <2>3. call \in FilterCall
      <3>1. made + 1 \in Nat /\ kind \in CallKinds /\ (IF want = <<>> THEN "filter" ELSE "list") \in Steps
        BY DEF LabelsInv, CallKinds, Steps
      <3>. QED  BY <3>1 DEF FilterCall
    <2>4. /\ call.kind = kind /\ call.want = want
          /\ call.step = IF want = <<>> THEN "filter" ELSE "list"
      OBVIOUS
    <2>. HIDE DEF call
    <2>5. CallFits(call, labels')
      <3>1. kind = "block" => want # <<>> /\ call.step = "list"
        <4>1. <<"Toxic">> # <<>>
          OBVIOUS
        <4>. QED  BY <1>2, <2>4, <4>1
      <3>. QED  BY <1>2, <2>4, <3>1 DEF CallFits
    <2>6. LabelsInPlace' /\ labels \subseteq labels' /\ labels' \subseteq Labels /\ made' \in Nat
      BY <2>1 DEF LabelsInv, LabelsInPlace
    <2>. QED  BY <2>1, <2>3, <2>5, <2>6, OneCallChanges
  <1>3. ASSUME NEW w \in Workers, ListLabels(w)  PROVE LabelsInv'
    <2>1. /\ labels \subseteq labels' /\ labels' \subseteq Labels /\ made' \in Nat /\ LabelsInPlace'
          /\ labels' = labels /\ todo[w].step = "list"
      BY <1>3 DEF ListLabels, LabelsInv, LabelsInPlace
    <2>2. CASE Head(todo[w].want) \in labels
      BY <1>3, <2>1, <2>2, EnsuredFits DEF ListLabels
    <2>3. CASE Head(todo[w].want) \notin labels
      <3>. DEFINE step == IF Head(todo[w].want) \in Nested /\ Parent \notin labels
                          THEN "parent" ELSE "create"
      <3>1. To(w, step, labels) /\ step \in {"create", "parent"}
        BY <1>3, <2>3 DEF ListLabels
      <3>. HIDE DEF step
      <3>2. step = "create" /\ Head(todo[w].want) \in Nested => Parent \in labels'
        BY <2>1 DEF step
      <3>3. labels \subseteq Labels
        BY DEF LabelsInv
      <3>. DEFINE call == Stepped(todo[w], step, labels)
      <3>4. todo' = [todo EXCEPT ![w] = call]
        BY <3>1 DEF To, Stepped
      <3>5. todo[w] \in FilterCall /\ CallFits(todo[w], labels)
        BY DEF LabelsInv, CallFits
      <3>6. call \in FilterCall /\ CallFits(call, labels')
        BY <2>1, <3>1, <3>2, <3>3, <3>5, StepFits
      <3>. HIDE DEF call
      <3>. QED  BY <2>1, <3>4, <3>6, OneCallChanges
    <2>. QED  BY <2>2, <2>3
  <1>4. ASSUME NEW w \in Workers, CreateParent(w)  PROVE LabelsInv'
    <2>1. /\ labels \subseteq labels' /\ labels' \subseteq Labels /\ made' \in Nat /\ LabelsInPlace'
          /\ Parent \in labels' /\ todo[w].step = "parent" /\ To(w, "create", todo[w].seen)
      <3>1. /\ todo[w].step = "parent" /\ labels' = labels \cup {Parent} /\ UNCHANGED <<filters, made>>
            /\ To(w, "create", todo[w].seen)
        BY <1>4 DEF CreateParent
      <3>2. Parent \in Labels
        BY DEF Labels
      <3>. QED  BY <3>1, <3>2 DEF LabelsInv, LabelsInPlace
    <2>2. todo[w].seen \subseteq Labels
      BY DEF LabelsInv, FilterCall
    <2>. DEFINE call == Stepped(todo[w], "create", todo[w].seen)
    <2>3. todo' = [todo EXCEPT ![w] = call]
      BY <2>1 DEF To, Stepped
    <2>4. todo[w] \in FilterCall /\ CallFits(todo[w], labels)
      BY DEF LabelsInv, CallFits
    <2>5. call \in FilterCall /\ CallFits(call, labels')
      BY <2>1, <2>2, <2>4, StepFits
    <2>. HIDE DEF call
    <2>. QED  BY <2>1, <2>3, <2>5, OneCallChanges
  <1>5. ASSUME NEW w \in Workers, CreateLabel(w)  PROVE LabelsInv'
    <2>. DEFINE name == Head(todo[w].want)
    <2>1. todo[w].step = "create" /\ labels' = labels \cup {name} /\ Ensured(w)
          /\ UNCHANGED <<filters, made>>
      BY <1>5 DEF CreateLabel
    <2>2. todo[w].want \in Seq(Labels) /\ todo[w].want # <<>>
      BY <2>1 DEF LabelsInv, FilterCall
    <2>3. name \in Labels /\ (name \in Nested => Parent \in labels)
      BY <2>1, <2>2 DEF LabelsInv
    <2>. HIDE DEF name
    <2>4. LabelsInPlace' /\ labels' \subseteq Labels /\ made' \in Nat
      BY <2>1, <2>3 DEF LabelsInv, LabelsInPlace
    <2>. QED  BY <2>1, <2>4, EnsuredFits DEF name
  <1>6. ASSUME NEW w \in Workers, CreateFilter(w)  PROVE LabelsInv'
    <2>. DEFINE label == IF todo[w].kind = "block" THEN "Toxic" ELSE NoLabel
                new == [id |-> todo[w].call, sender |-> todo[w].sender, kind |-> todo[w].kind,
                        label |-> label]
    <2>1. /\ todo[w].step = "filter" /\ filters' = filters \cup {new}
          /\ todo' = [todo EXCEPT ![w] = Free] /\ UNCHANGED <<labels, made>>
      BY <1>6 DEF CreateFilter
    <2>2. new.label = label /\ (label # NoLabel => label \in labels)
      BY <2>1 DEF LabelsInv
    <2>. HIDE DEF new, label
    <2>3. LabelsInPlace' /\ labels \subseteq labels' /\ labels' \subseteq Labels /\ made' \in Nat
      BY <2>1, <2>2 DEF LabelsInv, LabelsInPlace
    <2>. QED  BY <2>1, <2>3, FreeFits, OneCallChanges
  <1>7. ASSUME NEW w \in Workers, Refused(w)  PROVE LabelsInv'
    <2>1. LabelsInPlace' /\ labels \subseteq labels' /\ labels' \subseteq Labels /\ made' \in Nat
      BY <1>7 DEF Refused, LabelsInv, LabelsInPlace
    <2>. QED  BY <1>7, <2>1, FreeFits, OneCallChanges DEF Refused
  <1>8. ASSUME NEW f \in filters, DeleteFilter(f)  PROVE LabelsInv'
    BY <1>8 DEF DeleteFilter, LabelsInv, LabelsInPlace
  <1>9. ASSUME NEW w \in Workers, NEW s \in Senders, BlockSender(w, s) \/ CreateSafeSenderFilter(w, s)
        PROVE  LabelsInv'
    <2>1. <<"Toxic">> \in Seq(Labels) /\ <<>> \in Seq(Labels)
      BY DEF Labels, Nested
    <2>. QED  BY <1>2, <1>9, <2>1 DEF BlockSender, CreateSafeSenderFilter
  <1>10. ASSUME NEW w \in Workers, CreateFourHorsemenFilters(w)  PROVE LabelsInv'
    <2>1. <<Parent, "Toxic", "Warning", "Safe">> \in Seq(Labels)
      BY DEF Labels, Nested
    <2>. QED  BY <1>2, <1>10, <2>1 DEF CreateFourHorsemenFilters
  <1>. QED
    BY <1>1, <1>3, <1>4, <1>5, <1>6, <1>7, <1>8, <1>9, <1>10
       DEF Next, PluginStep, MailStep, ShieldStep, RegistryStep, FiltersStep, SendersStep,
           FiltersNext, vars, intakeVars

\* However calls interleave and wherever they are cut off, labels have their parent
\* and filters their label.
THEOREM LabelsAlwaysInPlace == Spec => []LabelsInPlace
  <1>1. LabelsInv => LabelsInPlace
    BY DEF LabelsInv
  <1>. QED  BY <1>1, LabelsInvInit, LabelsInvNext, PTL DEF Spec
=============================================================================
