------------------------------- MODULE Network -------------------------------
(***************************************************************************)
(* The network scripts together: setup_wg.sh and apply_wg.sh on PCs b and  *)
(* c, pc_c_mode.sh on PC c, interrupted anywhere and run again, reboots,   *)
(* and an operator who brings the hub's connection up by hand.             *)
(***************************************************************************)
EXTENDS PcCMode

CONSTANT MaxReboots   \* bound: reboots

ASSUME NetworkAssumption == MaxReboots \in Nat

VARIABLE reboots

vars == << tunnelVars, modeVars, reboots >>

Init == TunnelInit /\ ModeInit /\ reboots = 0

\* Volatile state is lost; NetworkManager activates the hub's connection.
Reboot(h) ==
  /\ reboots < MaxReboots
  /\ reboots' = reboots + 1
  /\ at = "idle" \/ host = h
  /\ GoesIdle
  /\ last' = [last EXCEPT ![h] = NoRun]
  /\ wg' = [wg EXCEPT ![h] = NoConf]
  /\ \E back \in IF h = "c" THEN {{}, {"hub"}} ELSE {{}} :
       routes' = [routes EXCEPT ![h] = back]
  /\ IF h = "c"
     THEN hub' = TRUE /\ rules' = {} /\ forward' \in BOOLEAN
     ELSE UNCHANGED << hub, rules, forward >>
  /\ UNCHANGED << diskVars, shown, unstored, keys, runs, chain >>

\* nmcli c up by hand, as the WARNING of clean_lan asks.
HubUpByHand ==
  /\ at = "idle" /\ ~ hub
  /\ hub' = TRUE
  /\ \E back \in {{}, {"hub"}} :
       routes' = [routes EXCEPT !["c"] = @ \cup back]
  /\ last' = [last EXCEPT !["c"] = NoRun]
  /\ UNCHANGED << diskVars, wg, at, runVars, shown, unstored, keys, runs,
                  forward, chain, rules, reboots >>

Next ==
  \/ /\ \/ \E h \in Host : CallSetup(h) \/ CallApply(h)
        \/ TunnelStep \/ Interrupt
     /\ UNCHANGED << modeVars, reboots >>
  \/ (CallAbcd \/ CallCleanLan \/ ModeStep) /\ UNCHANGED reboots
  \/ \E h \in Host : Reboot(h)
  \/ HubUpByHand

Spec == Init /\ [][Next]_vars

---------------------------------------------------------------------------
TunnelSteps ==
  { "idle", "keys", "show", "check", "down", "del", "conf", "up",
    "apply", "apply down", "copy", "fill in", "apply up" }

ModeSteps ==
  { "link", "hub down", "drop", "add", "forward", "rules", "rule 2",
    "unroute", "hub up", "connected", "forward 2", "end" }

TypeOK ==
  /\ priv \in [Host -> SomeKey] /\ pub \in [Host -> SomeKey]
  /\ conf \in [Host -> Config] /\ wg \in [Host -> Config]
  /\ routes \in [Host -> SUBSET {"wg", "hub"}]
  /\ at \in TunnelSteps \cup ModeSteps
  /\ host \in Host /\ arg \in SomeKey /\ calm \in BOOLEAN
  /\ last \in [Host -> [ script : { "none", "failed", "refused", "shown",
                                    "setup", "applied", "not applied", "abcd",
                                    "clean_lan" },
                         arg : SomeKey, calm : BOOLEAN ]]
  /\ shown \in [Host -> SUBSET SomeKey] /\ unstored \subseteq Key
  /\ keys \in 0 .. MaxKeys /\ runs \in 0 .. MaxRuns
  /\ reboots \in 0 .. MaxReboots
  /\ hub \in BOOLEAN /\ forward \in BOOLEAN /\ chain \in BOOLEAN
  /\ rules \subseteq {"iifname", "oifname"}

---------------------------------------------------------------------------
Ended(h, script) == last[h].script = script

(* The key that a host has shown stays its key, so two tunnels that        *)
(* setup_wg.sh brought up with the keys shown belong together - whatever   *)
(* was broken off, repeated or rebooted between the showing and the        *)
(* applying.  The exception is a key that tee did not store unnoticed.     *)
TunnelAgrees ==
  /\ \A h \in Host : \A k \in shown[h] \ unstored : priv[h] = k /\ pub[h] = k
  /\ (\A h \in Host : Ended(h, "setup") /\ last[h].arg \notin unstored) =>
       \A h \in Host : wg[h].peer = wg[Other(h)].priv

(* setup_wg.sh: "Idempotent - re-runnable.  Keys aren't regenerated if     *)
(* already present."  The key that a run has printed for the peer is not   *)
(* replaced by a later one.                                                *)
ShownKeyStays == \A h \in Host : \A k \in shown[h] : pub[h] = k

(* When setup_wg.sh ends well, wg0 runs with the key just given and the    *)
(* stored private key, and the route leads into it: a wg-quick down that   *)
(* failed unnoticed does not leave the old tunnel in place of the new.     *)
UpAsAsked ==
  \A h \in Host : Ended(h, "setup") =>
    /\ wg[h] = [priv |-> priv[h], peer |-> last[h].arg]
    /\ wg[h] = conf[h]
    /\ "wg" \in routes[h]

(* setup_wg.sh: "Idempotent - re-runnable."  Whatever earlier runs left    *)
(* half done, a run of setup_wg.sh or pc_c_mode.sh in which nothing fails  *)
(* by itself ends well, or refuses a key of the wrong length or a change   *)
(* of mode without a tunnel.                                               *)
RerunRepairs == \A h \in Host : Ended(h, "failed") => ~ last[h].calm

(* After abcd the route into the tunnel is there and packets are           *)
(* forwarded; unless a command failed unnoticed, the hub's route no longer *)
(* shadows it and what comes from wg0 is accepted - also after runs that   *)
(* stopped half way.                                                       *)
AbcdReady ==
  Ended("c", "abcd") =>
    /\ "wg" \in routes["c"] /\ wg["c"] # NoConf /\ forward
    /\ last["c"].calm =>
         /\ routes["c"] = {"wg"}
         /\ chain => "iifname" \in rules

(* After clean_lan nothing leads into the tunnel any more, and if the hub  *)
(* is connected its net is routed there.                                   *)
CleanLanReady ==
  Ended("c", "clean_lan") =>
    /\ routes["c"] = IF hub THEN {"hub"} ELSE {}
    /\ forward

(* pc_c_mode.sh on clean_lan: "Bring hub NM connection back up".           *)
HubIsBack == Ended("c", "clean_lan") /\ last["c"].calm => hub
=============================================================================
