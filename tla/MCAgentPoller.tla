---------------------------- MODULE MCAgentPoller ----------------------------
(* Small instances of AgentPoller for TLC. *)
EXTENDS AgentPoller

(* Frozen browsers on a machine with a network, and the full default containment. *)
MCFlagSets == {{"screen_lock", "extensions_freeze"}, ActionIds}

(* The two effects release reverses, together and apart, for the runs whose     *)
(* question is not about the irreversible actions.                              *)
MCFewFlagSets == {{"extensions_freeze"}, Reversible}
==============================================================================
