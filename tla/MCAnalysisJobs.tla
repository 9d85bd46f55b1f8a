---------------------------- MODULE MCAnalysisJobs ----------------------------
(***************************************************************************)
(* AnalysisJobs for TLC.                                                   *)
(***************************************************************************)
EXTENDS AnalysisJobs, TLC

CONSTANT TheSender

\* All messages are from one sender, so that every two of them meet in its
\* summary.
OneSender == [m \in Messages |-> TheSender]

\* Messages of one sender, and jobs, are only compared with each other.
Symmetry == Permutations(Messages) \cup Permutations(Jobs)
===============================================================================
