------------------------------- MODULE MCIntake -------------------------------
(***************************************************************************)
(* Intake for TLC.                                                         *)
(***************************************************************************)
EXTENDS Intake

R(a, upper) == [a |-> a, upper |-> upper]
MCMails ==
  {<<R(a, upper)>> : a \in {"d1", "c1", Outsider}, upper \in BOOLEAN}
  \cup {<<R(Outsider, FALSE), R("d1", FALSE)>>, <<R("d1", TRUE), R("c1", FALSE)>>}
=============================================================================
