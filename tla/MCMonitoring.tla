----------------------------- MODULE MCMonitoring -----------------------------
(***************************************************************************)
(* Monitoring for TLC.                                                     *)
(***************************************************************************)
EXTENDS ObservabilityManager

MCConfigs ==
  {[enabled |-> TRUE, toxicity |-> 8, slow |-> 5, cooldown |-> c] : c \in {1, 2}}
  \cup {[enabled |-> FALSE, toxicity |-> 8, slow |-> 5, cooldown |-> 2]}

Part(part, n, messages, actions) ==
  [part |-> part, calls |-> n, messages |-> messages, actions |-> actions]

MCCampaigns ==
  {Part("states", 6, {"m1", "m2"}, {"SAFE", "REDIRECT"}), Part("counters", 4, {}, {}),
   Part("health", 4, {}, {}), Part("alerts", 4, {"m1"}, {"TOXIC"})}
=============================================================================
