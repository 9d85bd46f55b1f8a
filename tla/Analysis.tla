------------------------------ MODULE Analysis ------------------------------
(***************************************************************************)
(* The analysis of messages: the decision path, the bridge between local   *)
(* and cloud models and the cached keyword and model analysis. They share  *)
(* only the clock, so a campaign exercises one of them at a time.          *)
(***************************************************************************)
EXTENDS Decisions, AnalyzerBridge, ContentAnalyzer

VARIABLE part     \* the part this behaviour exercises

vars == <<decisionVars, bridgeVars, analyzerVars, now, part>>

Init ==
  /\ part \in {"decisions", "bridge", "cache"}
  /\ now = 0
  /\ DecisionsInit /\ BridgeInit /\ AnalyzerInit
  /\ part # "bridge" => bridge = Made("privacy", FALSE, FALSE, FALSE, FALSE)

DecisionStep ==
  part = "decisions" /\ DecisionsNext /\ UNCHANGED <<bridgeVars, analyzerVars, now>>
BridgeStep ==
  part = "bridge" /\ BridgeNext /\ UNCHANGED <<decisionVars, analyzerVars>>
CacheStep ==
  part = "cache" /\ AnalyzerNext /\ UNCHANGED <<decisionVars, bridgeVars>>
TimePasses ==
  part # "decisions" /\ Tick /\ UNCHANGED <<decisionVars, bridgeVars, analyzerVars>>

Next == UNCHANGED part /\ (DecisionStep \/ BridgeStep \/ CacheStep \/ TimePasses)
Spec == Init /\ [][Next]_vars

=============================================================================
