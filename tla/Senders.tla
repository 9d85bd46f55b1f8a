------------------------------- MODULE Senders -------------------------------
(***************************************************************************)
(* The ways out of the program beside the delivery manager of the privacy  *)
(* pipeline: the sender classes of core/email_delivery, the delivery       *)
(* service over Postmark's API, and ImmediateDeliveryManager. What leaves  *)
(* is a set of requests to a mail service, which may be refused or lost.   *)
(***************************************************************************)
EXTENDS SenderFactory, Integers, Sequences, FiniteSets, Functions

CONSTANTS
  MaxRetries,     \* ImmediateDeliveryManager.max_retries
  MaxBatch,       \* bound: emails of one send_multiple_emails
  MaxMails        \* bound: calls of send_filtered_email
ASSUME SenderAssumption == MaxRetries \in Nat \ {0} /\ MaxBatch \in Nat /\ MaxMails \in Nat

VARIABLES
  config,         \* the settings the senders are made from
  requests,       \* mails handed to the mail service by a sender
  batch,          \* per email of the batch: "sending", or how its own sending ended
  results,        \* what send_multiple_emails returned, in the order of the emails
  delivery        \* the one call of deliver_email: its state and attempts

senderVars == <<config, requests, batch, results, delivery>>

Classes == {"SAFE", "WARNING", "HARMFUL", "ABUSIVE"}
Nobody == "nobody"

SendersInit ==
  /\ \E kind \in Kinds, missing \in SUBSET {"token", "password", "tls"} :
       config = [kind |-> kind,
                 fields |-> {"domain", "username", "host", "port", "password", "token", "tls"} \ missing]
  /\ requests = {} /\ batch = <<>> /\ results = <<>>
  /\ delivery = [state |-> "none", attempts |-> 0]
-----------------------------------------------------------------------------
\* extract_email_from_shield: every address of the domain is the one user's.
ExtractEmailFromShield(to) == IF to = "ours" THEN "user" ELSE Nobody

\* format_email_content: whether a notice replaces a mail of a class, and what of it
\* leaves as it was written. The notice keeps the subject behind a mark.
Whole == {"subject", "body"}
Format(withheld) == [marked |-> withheld, verbatim |-> IF withheld THEN {"subject"} ELSE Whole]
\* Seeded fault: only the worst class is withheld.
FormatUnlessAbusive(class) == Format(class = "ABUSIVE")
FormatEmailContent(class) == Format(class \in {"HARMFUL", "ABUSIVE"})

\* The mails one way out has handed to its service, numbered.
By(way) == {r \in requests : r.by = way}

(***************************************************************************)
(* send_filtered_email through a sender, when one can be made. An address  *)
(* of another domain is not sent to; an error of the service is told as    *)
(* False.                                                                  *)
(***************************************************************************)
SendFilteredEmail(to, class) ==
  /\ CreateSender(config.kind, config.fields)
  /\ ExtractEmailFromShield(to) # Nobody
  /\ Cardinality(By("sender")) < MaxMails
  /\ requests' = requests \cup
       {[by |-> "sender", n |-> Cardinality(By("sender")) + 1, to |-> ExtractEmailFromShield(to),
         class |-> class, content |-> FormatEmailContent(class)]}
  /\ UNCHANGED <<config, batch, results, delivery>>

\* EmailDeliveryService.send_email: SMTP falls back to Postmark, any other method
\* fails, and so does Postmark without a token. The mail goes whole to the addresses
\* it names, whatever it was classified as.
CanSend == config.kind \in {"postmark", "smtp"} /\ "token" \in config.fields

\* send_multiple_emails: all are sent at once and end in any order.
SendMultiple(n) ==
  /\ batch = <<>> /\ n \in 1..MaxBatch
  /\ batch' = [i \in 1..n |-> "sending"]
  /\ UNCHANGED <<config, requests, results, delivery>>

HandedOver(i) == [by |-> "service", n |-> i, to |-> "addressees", class |-> "unread",
                  content |-> Format(FALSE)]
SendEnds(i) ==
  /\ batch[i] = "sending"
  /\ \/ /\ CanSend /\ requests' = requests \cup {HandedOver(i)}
        /\ \E outcome \in {"sent", "refused", "raised"} : batch' = [batch EXCEPT ![i] = outcome]
     \/ /\ batch' = [batch EXCEPT ![i] = "refused"]
        /\ UNCHANGED requests
  /\ UNCHANGED <<config, results, delivery>>

\* gather returns in the order of the arguments, an exception as a failure.
Gathered ==
  /\ batch # <<>> /\ results = <<>> /\ "sending" \notin Range(batch)
  /\ results' = [i \in DOMAIN batch |-> batch[i] = "sent"]
  /\ UNCHANGED <<config, requests, batch, delivery>>

(***************************************************************************)
(* ImmediateDeliveryManager.deliver_email.                                 *)
(***************************************************************************)
DeliverEmail(action, targets) ==
  /\ delivery.state = "none"
  /\ delivery' = [state |-> IF action = "nothing" THEN "delivered" ELSE "trying",
                  attempts |-> 0, action |-> action, targets |-> targets]
  /\ UNCHANGED <<config, requests, batch, results>>

\* _attempt_delivery raises without targets, always delivers a clean email and
\* most of the others.
Outcomes(action, targets) ==
  IF ~targets THEN {FALSE} ELSE IF action = "forward_clean" THEN {TRUE} ELSE {TRUE, FALSE}

Attempt ==
  /\ delivery.state = "trying"
  /\ \E ok \in Outcomes(delivery.action, delivery.targets) :
       delivery' = [delivery EXCEPT
         !.attempts = @ + 1,
         !.state = IF ok THEN "delivered"
                   ELSE IF delivery.attempts + 1 < MaxRetries THEN "trying" ELSE "failed"]
  /\ UNCHANGED <<config, requests, batch, results>>

SendersNext ==
  \/ \E to \in {"ours", "other"}, class \in Classes : SendFilteredEmail(to, class)
  \/ \E n \in 1..MaxBatch : SendMultiple(n)
  \/ \E i \in DOMAIN batch : SendEnds(i)
  \/ Gathered
  \/ \E action \in {"nothing", "forward_clean", "other"}, targets \in BOOLEAN :
       DeliverEmail(action, targets)
  \/ Attempt

(***************************************************************************)
(* Properties.                                                             *)
(***************************************************************************)

\* A caller is told of the success of no email that was not handed to the service,
\* in whatever order the sends of a batch end (send_multiple_emails pairs results
\* with emails by position).
SentWasHandedOver ==
  \A i \in DOMAIN results : results[i] => HandedOver(i) \in requests

\* An email is given up only after max_retries attempts, and what needs an
\* attempt is reported delivered only after one, at most max_retries of them
\* (the loop of ImmediateDeliveryManager.deliver_email).
RetriedThenGivenUp ==
  /\ delivery.attempts <= MaxRetries
  /\ delivery.state = "failed" => delivery.attempts = MaxRetries
  /\ delivery.state = "delivered" /\ delivery.attempts = 0 => delivery.action = "nothing"

\* Through the sender classes nothing leaves to anybody but the user, and of an
\* email classified as harmful not the body: its subject does, behind a mark
\* (format_email_content, extract_email_from_shield). The delivery service is left
\* out: it sends what it is given to whom it names.
HarmfulBodiesStayIn ==
  \A r \in By("sender") :
    /\ r.to = "user"
    /\ r.class \in {"HARMFUL", "ABUSIVE"} => r.content = [marked |-> TRUE, verbatim |-> {"subject"}]

\* What is sent, how often it is tried and what the caller is told belong together.
SendersKeepTheirWord == HarmfulBodiesStayIn /\ SentWasHandedOver /\ RetriedThenGivenUp
=============================================================================
