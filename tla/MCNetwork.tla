------------------------------ MODULE MCNetwork ------------------------------
(***************************************************************************)
(* Network for TLC, in two scenarios: both hosts and their tunnel, and     *)
(* PC c alone with all its scripts.  A third one, for what clean_lan says  *)
(* of the hub, is the second where nothing fails by itself.                *)
(***************************************************************************)
EXTENDS Network

\* No hub, and pc_c_mode.sh is not run.
TunnelScenario == ~ hub /\ ~ chain /\ ~ forward /\ at \notin ModeSteps

\* Keys exist and PC b is left alone.
ModeScenario ==
  /\ keys = 0 /\ priv = [h \in Host |-> Old(h)] /\ pub = priv
  /\ last["b"] = NoRun
  /\ at = "idle" \/ host = "c"

MCInit == Init /\ (TunnelScenario \/ ModeScenario)

MCNext == Next /\ (TunnelScenario' \/ ModeScenario')

MCSpec == MCInit /\ [][MCNext]_vars

\* The hub is connected, and in calm runs only abcd takes it down.
HubInit == Init /\ ModeScenario /\ hub

HubNext == Next /\ ModeScenario' /\ calm'

HubSpec == HubInit /\ [][HubNext]_vars
=============================================================================
