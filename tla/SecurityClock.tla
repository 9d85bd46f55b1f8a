--------------------------- MODULE SecurityClock ---------------------------
(***************************************************************************)
(* The clock, in seconds, that the parts of features/security read.        *)
(***************************************************************************)
EXTENDS Integers, Sequences, FiniteSetsExt

CONSTANT MaxTime   \* bound on the clock

ASSUME ClockAssumption == MaxTime \in Nat \ {0}

VARIABLE now

StartClock == now = 1

Tick == now < MaxTime /\ now' = now + 1

\* What is kept of a list once the entries at the given positions are too old.
\* The lists are in the order of time, so it is what follows the last of them.
DropThrough(s, old) == SubSeq(s, Max({0} \cup old) + 1, Len(s))
=============================================================================
