------------------------- MODULE MCPrivacyPipeline -------------------------
(***************************************************************************)
(* PrivacyPipeline for TLC.                                                *)
(***************************************************************************)
EXTENDS PrivacyPipeline, TLC

\* Message ids are only compared with each other.
MessageSymmetry == Permutations(Messages)
=============================================================================
