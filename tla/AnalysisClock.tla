--------------------------- MODULE AnalysisClock ---------------------------
(***************************************************************************)
(* The clock the caches of analyses read.                                  *)
(***************************************************************************)
EXTENDS Integers

CONSTANT LastTime   \* bound on the clock

VARIABLE now

Tick == now < LastTime /\ now' = now + 1
=============================================================================
