------------------------------ MODULE PcCMode -------------------------------
(***************************************************************************)
(* pc_c_mode.sh: whether the route of PC c to 10.42.0.0/24 leads into the  *)
(* tunnel (abcd) or to the hub (clean_lan).  It is a further script beside *)
(* those of WgTunnel and works on the same routes.                         *)
(*                                                                         *)
(* NetworkManager is external.  "nmcli c show" names a device only for     *)
(* connections that are active.  A connection that comes up brings its     *)
(* address, and its route or not (the noprefixroute of the comment); one   *)
(* that goes down takes both away.                                         *)
(***************************************************************************)
EXTENDS WgTunnel

VARIABLES
  hub,      \* the connection to the hub is active, with its address
  forward,  \* ip_forward
  chain,    \* the nft chain of the connection to PC d exists
  rules     \* what it accepts of wg0: "iifname", "oifname"

modeVars == << hub, forward, chain, rules >>

ModeInit ==
  /\ hub \in BOOLEAN
  /\ routes = [h \in Host |-> IF h = "c" /\ hub THEN {"hub"} ELSE {}]
  /\ forward \in BOOLEAN
  /\ chain \in BOOLEAN
  /\ rules = {}

---------------------------------------------------------------------------
CallMode(first) == Begin("c", NoKey, first) /\ UNCHANGED modeVars

CallAbcd == CallMode("link")

CallCleanLan == CallMode("unroute")

\* One step of the script: the disk, the tunnel and the keys are left alone.
ModeGoesOn(from, to) ==
  GoesOn(from, to) /\ UNCHANGED << diskVars, wg, shown >>

ModeEndsAs(from, script) ==
  EndsAs(from, script) /\ UNCHANGED << diskVars, wg, shown, unstored, keys >>

HasTunnel ==
  /\ wg["c"] # NoConf
  /\ ModeGoesOn("link", "hub down")
  /\ UNCHANGED << routes, modeVars >>

NoTunnel ==
  /\ wg["c"] = NoConf
  /\ ModeEndsAs("link", "refused")
  /\ UNCHANGED << routes, modeVars >>

\* nmcli c down || true, if the connection is found.
HubDown ==
  /\ ModeGoesOn("hub down", "drop")
  /\ \/ hub' = FALSE /\ routes' = [routes EXCEPT !["c"] = @ \ {"hub"}]
     \/ ~ calm /\ UNCHANGED << hub, routes >>
  /\ UNCHANGED << forward, chain, rules >>

\* ip route del ... dev HUB_IFACE || true
DropHubRoute ==
  /\ ModeGoesOn("drop", "add")
  /\ \/ routes' = [routes EXCEPT !["c"] = @ \ {"hub"}]
     \/ ~ calm /\ UNCHANGED routes
  /\ UNCHANGED modeVars

\* Variant: any route to the net is taken for the one over wg0.
WgRoutePresentByNet == routes["c"] # {}

WgRoutePresent == "wg" \in routes["c"]

AddWgRoute ==
  /\ ModeGoesOn("add", "forward")
  /\ routes' = IF WgRoutePresent THEN routes
                                 ELSE [routes EXCEPT !["c"] = @ \cup {"wg"}]
  /\ UNCHANGED modeVars

\* ip route add: the route of the hub may be in the way.
AddWgRouteFails ==
  /\ ~ WgRoutePresent /\ "hub" \in routes["c"]
  /\ ModeEndsAs("add", "failed")
  /\ UNCHANGED << routes, modeVars >>

EnsureForward(from, to) ==
  /\ ModeGoesOn(from, to)
  /\ forward' = TRUE
  /\ UNCHANGED << routes, hub, chain, rules >>

\* The chain is not there, or sudo nft did not answer.
SkipRules ==
  /\ ~ chain \/ ~ calm
  /\ ModeEndsAs("rules", "abcd")
  /\ UNCHANGED << routes, modeVars >>

RulesPresent ==
  /\ chain /\ "iifname" \in rules
  /\ ModeEndsAs("rules", "abcd")
  /\ UNCHANGED << routes, modeVars >>

InsertIifname ==
  /\ chain /\ ("iifname" \notin rules \/ ~ calm)
  /\ ModeGoesOn("rules", "rule 2")
  /\ rules' = rules \cup {"iifname"}
  /\ UNCHANGED << routes, hub, forward, chain >>

InsertOifname ==
  /\ ModeEndsAs("rule 2", "abcd")
  /\ rules' = rules \cup {"oifname"}
  /\ UNCHANGED << routes, hub, forward, chain >>

---------------------------------------------------------------------------
\* Variant: the route over wg0 is left where it is.
KeepWgRoute ==
  /\ ModeGoesOn("unroute", "hub up")
  /\ UNCHANGED << routes, modeVars >>

RemoveWgRoute ==
  /\ ModeGoesOn("unroute", "hub up")
  /\ routes' = [routes EXCEPT !["c"] = @ \ {"wg"}]
  /\ UNCHANGED modeVars

\* nmcli c up || true, if a connection is found for the device.
HubUp ==
  /\ hub
  /\ ModeGoesOn("hub up", "connected")
  /\ \/ /\ hub' = TRUE
        /\ \E lost \in {{}, {"hub"}} :
             routes' = [routes EXCEPT !["c"] = (@ \cup {"hub"}) \ lost]
     \/ /\ ~ calm
        /\ hub' = FALSE /\ routes' = [routes EXCEPT !["c"] = @ \ {"hub"}]
     \/ ~ calm /\ UNCHANGED << hub, routes >>
  /\ UNCHANGED << forward, chain, rules >>

\* WARNING: no NM connection found
HubNotFound ==
  /\ ~ hub
  /\ ModeGoesOn("hub up", "connected")
  /\ UNCHANGED << routes, modeVars >>

AddHubRoute ==
  /\ ModeGoesOn("connected", "forward 2")
  /\ routes' = IF hub THEN [routes EXCEPT !["c"] = @ \cup {"hub"}] ELSE routes
  /\ UNCHANGED modeVars

EndCleanLan ==
  /\ ModeEndsAs("end", "clean_lan")
  /\ UNCHANGED << routes, modeVars >>

ModeStep ==
  \/ HasTunnel \/ NoTunnel \/ HubDown \/ DropHubRoute \/ AddWgRoute
  \/ AddWgRouteFails \/ EnsureForward("forward", "rules") \/ SkipRules
  \/ RulesPresent \/ InsertIifname \/ InsertOifname
  \/ RemoveWgRoute \/ HubUp \/ HubNotFound \/ AddHubRoute
  \/ EnsureForward("forward 2", "end") \/ EndCleanLan
=============================================================================
