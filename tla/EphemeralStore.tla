--------------------------- MODULE EphemeralStore ---------------------------
(***************************************************************************)
(* What the in-memory email store promises to the rest of CellophaneMail,  *)
(* with the pipeline that feeds it left out: it takes a message only while *)
(* it has room, keeps every message for at least MinLife units of time,    *)
(* and a sweep forgets exactly the messages that are older than that.      *)
(* PrivacyPipeline is checked, and proved, to implement this module.       *)
(***************************************************************************)
EXTENDS Naturals, FiniteSets

CONSTANTS
  Messages,   \* message ids
  Capacity,   \* how many messages the store may hold
  MinLife,    \* no sweep forgets a message of this age or younger
  Period      \* a sweep asks for the next one this long after itself

VARIABLES
  now,        \* the time
  held,       \* set of <<message id, time its content was accepted>>
  sweepAt     \* the next sweep is due from here on

vars == <<now, held, sweepAt>>

Init ==
  /\ now = 0
  /\ held = {}
  /\ sweepAt = 0

\* A message is accepted; the content of an earlier one with its id goes.
Accept(m) ==
  /\ Cardinality(held) < Capacity
  /\ held' = {h \in held : h[1] # m} \cup {<<m, now>>}
  /\ UNCHANGED <<now, sweepAt>>

Sweep ==
  /\ sweepAt <= now
  /\ held' = {h \in held : now - h[2] <= MinLife}
  /\ sweepAt' = now + Period
  /\ UNCHANGED now

\* The process ends and its memory with it; the next one sweeps at once.
Lose ==
  /\ held' = {}
  /\ sweepAt' = now
  /\ UNCHANGED now

Pass ==
  /\ now' = now + 1
  /\ UNCHANGED <<held, sweepAt>>

Next ==
  \/ \E m \in Messages : Accept(m)
  \/ Sweep
  \/ Lose
  \/ Pass

Spec == Init /\ [][Next]_vars
=============================================================================
