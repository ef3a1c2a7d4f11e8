------------------------------ MODULE WgTunnel ------------------------------
(***************************************************************************)
(* The WireGuard tunnel between PC b and PC c: setup_wg.sh, which makes    *)
(* the keys, writes the configuration and brings the tunnel up, and        *)
(* apply_wg.sh, which installs the configuration kept in the repository.   *)
(* Network joins them with pc_c_mode.sh.                                   *)
(*                                                                         *)
(* The scripts are run by hand, one at a time.  Every step is one command  *)
(* that changes something.  set -e stops a script at a command that fails; *)
(* Interrupt stands for that and for an operator's Ctrl-C.  Commands that  *)
(* end in "|| true", and the tee within a pipe, may fail unnoticed.  In a  *)
(* calm run nothing fails that need not fail.                              *)
(*                                                                         *)
(* A key stands for its private and its public half.  WireGuard and ip are *)
(* external: an interface that is up cannot be brought up again, it takes  *)
(* its routes with it when it goes, and it comes up only with two proper   *)
(* keys.                                                                   *)
(***************************************************************************)
EXTENDS Naturals, FiniteSets

CONSTANTS
  MaxKeys,   \* bound: keys ever generated
  MaxRuns    \* bound: runs of scripts

ASSUME TunnelAssumption == MaxKeys \in Nat /\ MaxRuns \in Nat

Host == {"b", "c"}

Other(h) == IF h = "b" THEN "c" ELSE "b"

Key == 1 .. MaxKeys

NoKey == 0              \* an empty or absent file, or no argument

Truncated == MaxKeys + 1  \* 43 characters: what a careless copy gives

Old(h) == IF h = "b" THEN MaxKeys + 2 ELSE MaxKeys + 3

\* [Peer] PublicKey in wg0.b.conf, one character short, and in wg0.c.conf.
RepoPeer(h) == IF h = "b" THEN Truncated ELSE Old("b")

SomeKey == 0 .. MaxKeys + 3

ProperKey == SomeKey \ {NoKey, Truncated}

NoConf == [priv |-> NoKey, peer |-> NoKey]

Config == [priv : SomeKey, peer : SomeKey]

VARIABLES
  \* per host, on disk
  priv, pub,   \* /etc/wireguard/<host>_priv and _pub
  conf,        \* /etc/wireguard/wg0.conf
  \* per host, volatile
  wg,          \* what wg0 runs with; NoConf when there is no wg0
  routes,      \* to the net behind the peer: over "wg", over the "hub" of c
  \* the script that runs, if any
  at, host, arg, calm,
  \* histories
  last,        \* per host: how the last script ended
  shown,       \* per host: the keys that setup_wg.sh has printed
  unstored,    \* keys whose private half tee did not write
  keys, runs   \* bounds: keys generated, runs begun

diskVars == << priv, pub, conf >>
wgVars   == << wg, routes >>
runVars  == << host, arg, calm >>
tunnelVars ==
  << diskVars, wgVars, at, runVars, last, shown, unstored, keys, runs >>

NoRun == [script |-> "none", arg |-> NoKey, calm |-> TRUE]

\* The script is over; what it knew is forgotten.
GoesIdle == at' = "idle" /\ host' = "b" /\ arg' = NoKey /\ calm' = TRUE

(* PCs b and c have no keys yet, or those that the repository knows, which *)
(* have been shown then.                                                   *)
TunnelInit ==
  /\ priv \in [Host -> SomeKey]
  /\ \A h \in Host : priv[h] \in {NoKey, Old(h)}
  /\ pub = priv
  /\ conf = [h \in Host |-> NoConf]
  /\ wg = [h \in Host |-> NoConf]
  /\ at = "idle" /\ host = "b" /\ arg = NoKey /\ calm = TRUE
  /\ last = [h \in Host |-> NoRun]
  /\ shown = [h \in Host |-> {priv[h]} \ {NoKey}]
  /\ unstored = {} /\ keys = 0 /\ runs = 0

---------------------------------------------------------------------------
(* Runs of scripts.                                                        *)

Begin(h, k, step) ==
  /\ at = "idle" /\ runs < MaxRuns
  /\ at' = step /\ host' = h /\ arg' = k /\ calm' \in BOOLEAN
  /\ last' = [last EXCEPT ![h] = NoRun]
  /\ runs' = runs + 1
  /\ UNCHANGED << diskVars, wgVars, shown, unstored, keys >>

GoesOn(from, to) ==
  /\ at = from /\ at' = to
  /\ UNCHANGED << runVars, last, unstored, keys, runs >>

EndsAs(from, script) ==
  /\ at = from /\ GoesIdle
  /\ last' = [last EXCEPT ![host] =
                [script |-> script, arg |-> arg, calm |-> calm]]
  /\ UNCHANGED runs

Interrupt ==
  /\ at # "idle" /\ ~ calm
  /\ EndsAs(at, "failed")
  /\ UNCHANGED << diskVars, wgVars, shown, unstored, keys >>

---------------------------------------------------------------------------
(* setup_wg.sh                                                             *)

\* What an operator passes: nothing, or what the other host has printed.
CallSetup(h) ==
  \E k \in {NoKey, Truncated} \cup shown[Other(h)] : Begin(h, k, "keys")

AfterKeys == IF arg = NoKey THEN "show" ELSE "check"

\* Variant: keys are made anew in every run.
KeysForgotten == FALSE

KeysPresent == priv[host] # NoKey /\ pub[host] # NoKey

KeepKeys ==
  /\ KeysPresent
  /\ GoesOn("keys", AfterKeys)
  /\ UNCHANGED << diskVars, wgVars, shown >>

MakeKeys ==
  /\ at = "keys" /\ ~ KeysPresent /\ keys < MaxKeys
  /\ keys' = keys + 1
  /\ priv' = [priv EXCEPT ![host] = keys']
  /\ pub' = [pub EXCEPT ![host] = keys']
  /\ at' = AfterKeys
  /\ UNCHANGED << conf, wgVars, runVars, last, shown, unstored, runs >>

(* The status of the pipe is that of wg pubkey: a tee that could not write *)
(* its file but passed the key on goes unnoticed.                          *)
MakeKeysUnstored ==
  /\ at = "keys" /\ ~ KeysPresent /\ keys < MaxKeys /\ ~ calm
  /\ keys' = keys + 1
  /\ priv' = [priv EXCEPT ![host] = NoKey]
  /\ pub' = [pub EXCEPT ![host] = keys']
  /\ unstored' = unstored \cup {keys'}
  /\ at' = AfterKeys
  /\ UNCHANGED << conf, wgVars, runVars, last, shown, runs >>

(* wg genkey | tee PRIV | wg pubkey > PUB, broken off: the programs have   *)
(* been started, so both files have been emptied, and each may have been   *)
(* written or not.                                                         *)
MakeKeysCutShort ==
  /\ ~ KeysPresent /\ keys < MaxKeys /\ ~ calm
  /\ EndsAs("keys", "failed")
  /\ keys' = keys + 1
  /\ \E k, l \in {NoKey, keys'} :
       /\ priv' = [priv EXCEPT ![host] = k]
       /\ pub' = [pub EXCEPT ![host] = l]
  /\ UNCHANGED << conf, wgVars, shown, unstored >>

ShowKey ==
  /\ EndsAs("show", "shown")
  /\ shown' = [shown EXCEPT ![host] = @ \cup {pub[host]}]
  /\ UNCHANGED << diskVars, wgVars, unstored, keys >>

RejectKey ==
  /\ arg = Truncated
  /\ EndsAs("check", "refused")
  /\ UNCHANGED << diskVars, wgVars, shown, unstored, keys >>

AcceptKey ==
  /\ arg # Truncated
  /\ GoesOn("check", "down")
  /\ UNCHANGED << diskVars, wgVars, shown >>

\* ip route del PEER_NET || true: it takes the first route that fits.
DeleteRoute ==
  /\ GoesOn("del", "conf")
  /\ \/ \E r \in routes[host] : routes' = [routes EXCEPT ![host] = @ \ {r}]
     \/ (routes[host] = {} \/ ~ calm) /\ UNCHANGED routes
  /\ UNCHANGED << diskVars, wg, shown >>

WriteConf ==
  /\ GoesOn("conf", "up")
  /\ conf' = [conf EXCEPT ![host] = [priv |-> priv[host], peer |-> arg]]
  /\ UNCHANGED << priv, pub, wgVars, shown >>

---------------------------------------------------------------------------
(* Both scripts.                                                           *)

\* Variant: the tunnel is not taken down first.
WgStaysUp ==
  /\ at \in {"down", "apply down"}
  /\ GoesOn(at, IF at = "down" THEN "del" ELSE "copy")
  /\ UNCHANGED << diskVars, wgVars, shown >>

\* wg-quick down wg0 || true
WgDown ==
  /\ at \in {"down", "apply down"}
  /\ GoesOn(at, IF at = "down" THEN "del" ELSE "copy")
  /\ \/ /\ wg' = [wg EXCEPT ![host] = NoConf]
        /\ routes' = [routes EXCEPT ![host] = @ \ {"wg"}]
     \/ ~ calm /\ UNCHANGED wgVars
  /\ UNCHANGED << diskVars, shown >>

CanComeUp ==
  wg[host] = NoConf /\ {conf[host].priv, conf[host].peer} \subseteq ProperKey

(* wg-quick up wg0, with PostUp.  setup_wg.sh replaces a route to the same *)
(* net, and may so take the hub's; apply_wg.sh adds one.                   *)
WgUp ==
  /\ CanComeUp
  /\ at \in {"up", "apply up"}
  /\ EndsAs(at, IF at = "up" THEN "setup" ELSE "applied")
  /\ wg' = [wg EXCEPT ![host] = conf[host]]
  /\ \/ routes' = [routes EXCEPT ![host] = @ \cup {"wg"}]
     \/ at = "up" /\ routes' = [routes EXCEPT ![host] = {"wg"}]
  /\ UNCHANGED << diskVars, shown, unstored, keys >>

\* Variant: || true after wg-quick up.
WgUpFailsUnnoticed ==
  /\ at \in {"up", "apply up"}
  /\ ~ CanComeUp \/ (at = "apply up" /\ routes[host] # {})
  /\ EndsAs(at, IF at = "up" THEN "setup" ELSE "applied")
  /\ UNCHANGED << diskVars, wgVars, shown, unstored, keys >>

\* wg-quick up undoes what it has begun; a route in the way fails "add".
WgUpFails ==
  /\ at \in {"up", "apply up"}
  /\ ~ CanComeUp \/ (at = "apply up" /\ routes[host] # {})
  /\ EndsAs(at, IF at = "up" THEN "failed" ELSE "not applied")
  /\ UNCHANGED << diskVars, wgVars, shown, unstored, keys >>

---------------------------------------------------------------------------
(* apply_wg.sh: it asks for the file of the private key, not for a key.    *)
CallApply(h) == Begin(h, NoKey, "apply")

CheckFiles ==
  /\ GoesOn("apply", "apply down")
  /\ UNCHANGED << diskVars, wgVars, shown >>

NoPrivFile ==
  /\ priv[host] = NoKey
  /\ EndsAs("apply", "refused")
  /\ UNCHANGED << diskVars, wgVars, shown, unstored, keys >>

\* cp: the private key is still a placeholder.
CopyConf ==
  /\ GoesOn("copy", "fill in")
  /\ conf' = [conf EXCEPT ![host] =
                [priv |-> Truncated, peer |-> RepoPeer(host)]]
  /\ UNCHANGED << priv, pub, wgVars, shown >>

FillIn ==
  /\ GoesOn("fill in", "apply up")
  /\ conf' = [conf EXCEPT ![host].priv = priv[host]]
  /\ UNCHANGED << priv, pub, wgVars, shown >>

---------------------------------------------------------------------------
TunnelStep ==
  \/ KeepKeys \/ MakeKeys \/ MakeKeysUnstored \/ MakeKeysCutShort
  \/ ShowKey \/ RejectKey \/ AcceptKey \/ DeleteRoute \/ WriteConf
  \/ WgDown \/ WgUp \/ WgUpFails
  \/ CheckFiles \/ NoPrivFile \/ CopyConf \/ FillIn
=============================================================================
