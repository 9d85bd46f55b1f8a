---------------------------- MODULE SenderFactory ----------------------------
(***************************************************************************)
(* EmailSenderFactory of core/email_delivery: which senders there are and  *)
(* what each must be given.                                                *)
(***************************************************************************)
Kinds == {"smtp", "postmark", "other"}

\* _validate_config: what the factory asks for.
RequiredFields(kind) ==
  {"domain", "username"} \cup CASE kind = "smtp" -> {"host", "port", "password"}
                                [] kind = "postmark" -> {"token"} [] OTHER -> {}

\* create_sender: the constructor of the SMTP sender reads one key more.
CreateSender(kind, fields) ==
  /\ kind # "other" /\ RequiredFields(kind) \subseteq fields
  /\ kind = "smtp" => "tls" \in fields
=============================================================================
