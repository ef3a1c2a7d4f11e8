---------------------------- MODULE NetworkProofs ----------------------------
(***************************************************************************)
(* The network scripts for any number of runs, reboots and keys, with both *)
(* hosts and all three scripts together: the properties of Network that    *)
(* the run checks on two scenarios hold for all of them.                   *)
(*                                                                         *)
(* None is inductive alone, since every script works through what earlier  *)
(* ones left behind.  NetInv says what is known at every step of a script, *)
(* in three parts: the keys of a host, the run of setup_wg.sh, and the run *)
(* of pc_c_mode.sh.                                                        *)
(***************************************************************************)
EXTENDS Network, TLAPS

HasKeys(h) == priv[h] = pub[h] /\ priv[h] \in ProperKey

\* A key whose private half was not stored and was not replaced yet.
KeyUnstored(h) == priv[h] = NoKey /\ pub[h] \in unstored

\* Files that both hold something hold one key; a key that was shown stays,
\* or else it is one that was not stored.
KeysInv ==
  /\ unstored \subseteq 1 .. keys
  /\ \A h \in Host :
       /\ {priv[h], pub[h]} \subseteq ProperKey \cup {NoKey}
       /\ priv[h] # NoKey /\ pub[h] # NoKey => priv[h] = pub[h]
       /\ shown[h] \subseteq ProperKey
       /\ \A k \in shown[h] \ unstored : HasKeys(h) /\ k = priv[h]

\* What setup_wg.sh knows at each of its steps ...
SetupSteps ==
  /\ at # "idle" => last[host] = NoRun
  /\ at \in {"keys", "show", "check"} =>
       arg \in {NoKey, Truncated} \cup shown[Other(host)]
  /\ at \in {"show", "check", "down", "del", "conf", "up"} =>
       HasKeys(host) \/ (KeyUnstored(host) /\ ~ calm)
  /\ at = "check" => arg # NoKey
  /\ at \in {"down", "del", "conf", "up"} => arg \in shown[Other(host)]
  /\ at \in {"del", "conf", "up"} /\ calm => wg[host] = NoConf
  /\ at = "up" => conf[host] = [priv |-> priv[host], peer |-> arg]

\* ... and what it leaves: it used a key that the other host has shown.
WasSetUp(h) ==
  Ended(h, "setup") => HasKeys(h) /\ last[h].arg \in shown[Other(h)]

SetupInv == SetupSteps /\ \A h \in Host : WasSetUp(h)

\* The same for pc_c_mode.sh.
ModeInv ==
  /\ at \in ModeSteps => host = "c"
  /\ "hub" \in routes["c"] => hub
  /\ at \in {"hub down", "drop", "add", "forward", "rules", "rule 2"} =>
       wg["c"] # NoConf
  /\ at = "add" /\ calm => "hub" \notin routes["c"]
  /\ at \in {"forward", "rules", "rule 2"} =>
       "wg" \in routes["c"] /\ (calm => routes["c"] = {"wg"})
  /\ at \in {"rules", "rule 2", "end"} => forward
  /\ at = "rule 2" => "iifname" \in rules
  /\ at \in {"hub up", "connected"} => "wg" \notin routes["c"]
  /\ at \in {"forward 2", "end"} =>
       routes["c"] = IF hub THEN {"hub"} ELSE {}

\* The inductive invariant.
NetInv ==
  /\ TypeOK
  /\ KeysInv
  /\ SetupInv
  /\ ModeInv
  /\ UpAsAsked
  /\ RerunRepairs
  /\ AbcdReady
  /\ CleanLanReady

---------------------------------------------------------------------------
(* The key numbers are distinct where they have to be.                     *)
LEMMA KeyNumbers ==
  /\ NoKey \in SomeKey /\ Truncated \in SomeKey
  /\ NoKey \notin ProperKey /\ Truncated \notin ProperKey
  /\ Truncated # NoKey
  /\ ProperKey \subseteq SomeKey
  /\ \A k \in 1 .. MaxKeys : k \in ProperKey
  /\ \A h \in Host : Old(h) \in ProperKey /\ RepoPeer(h) \in SomeKey
  /\ NoConf \in Config
<1> QED
  BY TunnelAssumption
  DEF NoKey, Truncated, SomeKey, ProperKey, Old, RepoPeer, NoConf, Config

(* A host has one peer, and it is the other host.                          *)
LEMMA Hosts ==
  /\ "b" \in Host /\ "c" \in Host
  /\ \A h \in Host : Other(h) \in Host /\ Other(h) # h
<1> QED BY DEF Host, Other

(* Hosts without keys or with known ones, and no script at work.           *)
LEMMA NetInit == Init => NetInv
<1> SUFFICES ASSUME Init PROVE NetInv
  OBVIOUS
<1> USE KeyNumbers, Hosts
    DEF Init, TunnelInit, ModeInit, NoRun, Host
<1>1. TypeOK
  BY TunnelAssumption, NetworkAssumption DEF TypeOK, TunnelSteps
<1>2. KeysInv
  BY DEF KeysInv, HasKeys
<1>3. SetupInv /\ ModeInv
  BY DEF SetupInv, SetupSteps, WasSetUp, ModeInv, Ended, ModeSteps
<1>4. UpAsAsked /\ RerunRepairs /\ AbcdReady /\ CleanLanReady
  BY DEF UpAsAsked, RerunRepairs, AbcdReady, CleanLanReady, Ended
<1> QED BY <1>1, <1>2, <1>3, <1>4 DEF NetInv

---------------------------------------------------------------------------
(* Types.                                                                  *)
Script ==
  { "none", "failed", "refused", "shown", "setup", "applied", "not applied",
    "abcd", "clean_lan" }

LastRun == [script : Script, arg : SomeKey, calm : BOOLEAN]

Steps == TunnelSteps \cup ModeSteps

\* The run of a script, and what it works on.
RunTypes ==
  /\ at \in Steps /\ host \in Host /\ arg \in SomeKey /\ calm \in BOOLEAN
  /\ last \in [Host -> LastRun]
  /\ runs \in 0 .. MaxRuns

FileTypes ==
  /\ priv \in [Host -> SomeKey] /\ pub \in [Host -> SomeKey]
  /\ conf \in [Host -> Config]
  /\ shown \in [Host -> SUBSET SomeKey] /\ unstored \subseteq Key
  /\ keys \in 0 .. MaxKeys

LinkTypes ==
  /\ wg \in [Host -> Config]
  /\ routes \in [Host -> SUBSET {"wg", "hub"}]
  /\ reboots \in 0 .. MaxReboots
  /\ hub \in BOOLEAN /\ forward \in BOOLEAN /\ chain \in BOOLEAN
  /\ rules \subseteq {"iifname", "oifname"}

(* The types, apart.                                                       *)
LEMMA TypeParts == TypeOK <=> RunTypes /\ FileTypes /\ LinkTypes
<1> QED
  BY DEF TypeOK, RunTypes, FileTypes, LinkTypes, Steps, LastRun, Script

(* A script that ends.                                                     *)
LEMMA EndsTypes ==
  ASSUME RunTypes, NEW from, NEW script \in Script, EndsAs(from, script)
  PROVE  RunTypes'
<1>1. [script |-> script, arg |-> arg, calm |-> calm] \in LastRun
  BY DEF RunTypes, LastRun
<1>2. last' \in [Host -> LastRun]
  BY <1>1 DEF RunTypes, EndsAs
<1>3. at' \in Steps /\ host' \in Host /\ arg' \in SomeKey /\ calm' \in BOOLEAN
  BY KeyNumbers DEF EndsAs, GoesIdle, Host, Steps, TunnelSteps
<1> QED BY <1>2, <1>3 DEF RunTypes, EndsAs

(* A script that goes on.                                                  *)
LEMMA GoesOnTypes ==
  ASSUME RunTypes, NEW from, NEW to \in Steps, GoesOn(from, to)
  PROVE  RunTypes'
<1> QED BY DEF RunTypes, GoesOn, runVars

(* A host on which no script has ended yet.                                *)
LEMMA NoRunType == NoRun \in LastRun
<1> QED BY KeyNumbers DEF NoRun, LastRun, Script

(* A script that begins.                                                   *)
LEMMA BeginTypes ==
  ASSUME RunTypes, NEW h \in Host, NEW k \in SomeKey, NEW step \in Steps,
         Begin(h, k, step)
  PROVE  RunTypes'
<1>1. last' \in [Host -> LastRun]
  BY NoRunType DEF RunTypes, Begin
<1>2. runs' \in 0 .. MaxRuns
  BY TunnelAssumption DEF RunTypes, Begin
<1> QED BY <1>1, <1>2 DEF RunTypes, Begin

(* Which keys an operator passes.                                          *)
LEMMA Passed ==
  ASSUME FileTypes, NEW h \in Host, CallSetup(h)
  PROVE  \E k \in SomeKey :
           /\ k \in {NoKey, Truncated} \cup shown[Other(h)]
           /\ Begin(h, k, "keys")
<1> QED BY KeyNumbers, Hosts DEF FileTypes, CallSetup

(* Every step keeps the types of the run.                                  *)
LEMMA RunTypesStep == TypeOK /\ Next => RunTypes'
<1> SUFFICES ASSUME TypeOK, Next PROVE RunTypes'
  OBVIOUS
<1>1. RunTypes /\ FileTypes
  BY TypeParts
<1>2. /\ {"keys", "show", "check", "down", "del", "conf", "up", "apply",
          "apply down", "copy", "fill in", "apply up"} \subseteq Steps
      /\ {"link", "hub down", "drop", "add", "forward", "rules", "rule 2",
          "unroute", "hub up", "connected", "forward 2", "end"} \subseteq Steps
  BY DEF Steps, TunnelSteps, ModeSteps
<1>3. {"failed", "refused", "shown", "setup", "applied", "not applied",
       "abcd", "clean_lan"} \subseteq Script
  BY DEF Script
<1>4. ASSUME NEW h \in Host, CallSetup(h) \/ CallApply(h) PROVE RunTypes'
  BY <1>1, <1>2, <1>4, Passed, BeginTypes, KeyNumbers DEF CallApply
<1>5. CASE CallAbcd \/ CallCleanLan
  BY <1>1, <1>2, <1>5, BeginTypes, KeyNumbers, Hosts
  DEF CallAbcd, CallCleanLan, CallMode
<1>6. CASE TunnelStep
  <2>1. AfterKeys \in Steps
    BY <1>2 DEF AfterKeys
  <2>2. CASE MakeKeys \/ MakeKeysUnstored
    BY <1>1, <2>1, <2>2 DEF MakeKeys, MakeKeysUnstored, RunTypes, runVars
  <2>3. CASE KeepKeys \/ AcceptKey \/ DeleteRoute \/ WriteConf \/ WgDown
    BY <1>1, <1>2, <2>1, <2>3, GoesOnTypes
    DEF KeepKeys, AcceptKey, DeleteRoute, WriteConf, WgDown
  <2>4. CASE CheckFiles \/ CopyConf \/ FillIn
    BY <1>1, <1>2, <2>4, GoesOnTypes DEF CheckFiles, CopyConf, FillIn
  <2>5. CASE MakeKeysCutShort \/ ShowKey \/ RejectKey \/ NoPrivFile
    BY <1>1, <1>3, <2>5, EndsTypes
    DEF MakeKeysCutShort, ShowKey, RejectKey, NoPrivFile
  <2>6. CASE WgUp \/ WgUpFails
    BY <1>1, <1>3, <2>6, EndsTypes DEF WgUp, WgUpFails
  <2> QED BY <1>6, <2>2, <2>3, <2>4, <2>5, <2>6 DEF TunnelStep
<1>7. CASE Interrupt
  BY <1>1, <1>3, <1>7, EndsTypes DEF Interrupt
<1>8. CASE ModeStep
  <2>1. CASE HasTunnel \/ HubDown \/ DropHubRoute \/ AddWgRoute
               \/ EnsureForward("forward", "rules") \/ InsertIifname
    BY <1>1, <1>2, <2>1, GoesOnTypes
    DEF HasTunnel, HubDown, DropHubRoute, AddWgRoute, EnsureForward,
        InsertIifname, ModeGoesOn
  <2>2. CASE RemoveWgRoute \/ HubUp \/ HubNotFound \/ AddHubRoute
               \/ EnsureForward("forward 2", "end")
    BY <1>1, <1>2, <2>2, GoesOnTypes
    DEF RemoveWgRoute, HubUp, HubNotFound, AddHubRoute, EnsureForward,
        ModeGoesOn
  <2>3. CASE NoTunnel \/ AddWgRouteFails \/ SkipRules \/ RulesPresent
               \/ InsertOifname \/ EndCleanLan
    BY <1>1, <1>3, <2>3, EndsTypes
    DEF NoTunnel, AddWgRouteFails, SkipRules, RulesPresent, InsertOifname,
        EndCleanLan, ModeEndsAs
  <2> QED BY <1>8, <2>1, <2>2, <2>3 DEF ModeStep
<1>9. ASSUME NEW h \in Host, Reboot(h) PROVE RunTypes'
  <2>1. last' \in [Host -> LastRun]
    BY <1>1, <1>9, NoRunType DEF Reboot, RunTypes
  <2> QED
    BY <1>1, <1>9, <2>1, KeyNumbers
    DEF Reboot, GoesIdle, RunTypes, Host, Steps, TunnelSteps
<1>10. CASE HubUpByHand
  <2>1. last' \in [Host -> LastRun]
    BY <1>1, <1>10, NoRunType DEF HubUpByHand, RunTypes
  <2> QED BY <1>1, <1>10, <2>1 DEF HubUpByHand, RunTypes, runVars
<1> QED BY <1>4, <1>5, <1>6, <1>7, <1>8, <1>9, <1>10 DEF Next

(* Only these steps write files.                                           *)
Makes == MakeKeys \/ MakeKeysUnstored \/ MakeKeysCutShort

Writes == Makes \/ ShowKey \/ WriteConf \/ CopyConf \/ FillIn

fileVars == << priv, pub, conf, shown, unstored, keys >>

(* pc_c_mode.sh touches no file and no interface.                          *)
LEMMA ModeWritesNothing == ModeStep => UNCHANGED << fileVars, wg >>
<1> QED
  BY DEF ModeStep, HasTunnel, NoTunnel, HubDown, DropHubRoute, AddWgRoute,
         AddWgRouteFails, EnsureForward, SkipRules, RulesPresent,
         InsertIifname, InsertOifname, RemoveWgRoute, HubUp, HubNotFound,
         AddHubRoute, EndCleanLan, ModeGoesOn, ModeEndsAs, GoesOn, fileVars,
         diskVars

(* Only the named steps of the tunnel's scripts write a file.              *)
LEMMA OthersWriteNothing == Next /\ ~ Writes => UNCHANGED fileVars
<1> SUFFICES ASSUME Next, ~ Writes PROVE UNCHANGED fileVars
  OBVIOUS
<1> USE DEF Writes, Makes, fileVars, diskVars
<1>1. ASSUME NEW h \in Host, CallSetup(h) \/ CallApply(h)
      PROVE  UNCHANGED fileVars
  BY <1>1 DEF CallSetup, CallApply, Begin
<1>2. CASE CallAbcd \/ CallCleanLan
  BY <1>2 DEF CallAbcd, CallCleanLan, CallMode, Begin
<1>3. CASE TunnelStep \/ Interrupt
  BY <1>3
  DEF TunnelStep, KeepKeys, RejectKey, AcceptKey, DeleteRoute, WgDown, WgUp,
      WgUpFails, CheckFiles, NoPrivFile, Interrupt, GoesOn
<1>4. CASE ModeStep
  BY <1>4, ModeWritesNothing
<1>5. ASSUME NEW h \in Host, Reboot(h) PROVE UNCHANGED fileVars
  BY <1>5 DEF Reboot
<1>6. CASE HubUpByHand
  BY <1>6 DEF HubUpByHand
<1> QED BY <1>1, <1>2, <1>3, <1>4, <1>5, <1>6 DEF Next

(* The files: every step keeps their types.                                *)
LEMMA FileTypesStep == TypeOK /\ Next => FileTypes'
<1> SUFFICES ASSUME TypeOK, Next PROVE FileTypes'
  OBVIOUS
<1>1. RunTypes /\ FileTypes
  BY TypeParts
<1> USE <1>1, KeyNumbers, TunnelAssumption DEF RunTypes, FileTypes
<1>2. CASE Makes
  <2>1. keys' \in 1 .. MaxKeys
    BY <1>2 DEF Makes, MakeKeys, MakeKeysUnstored, MakeKeysCutShort
  <2>2. keys' \in SomeKey /\ keys' \in Key
    BY <2>1 DEF SomeKey, Key
  <2>3. unstored' \subseteq Key /\ UNCHANGED << conf, shown >>
    BY <1>2, <2>2 DEF Makes, MakeKeys, MakeKeysUnstored, MakeKeysCutShort
  <2>4. priv' \in [Host -> SomeKey] /\ pub' \in [Host -> SomeKey]
    BY <1>2, <2>2 DEF Makes, MakeKeys, MakeKeysUnstored, MakeKeysCutShort
  <2>5. keys' \in 0 .. MaxKeys
    BY <2>1
  <2> QED BY <2>3, <2>4, <2>5
<1>3. CASE ShowKey
  BY <1>3 DEF ShowKey, diskVars
<1>4. CASE WriteConf
  <2>1. [priv |-> priv[host], peer |-> arg] \in Config
    BY DEF Config
  <2> QED BY <1>4, <2>1 DEF WriteConf, GoesOn
<1>5. CASE CopyConf
  <2>1. [priv |-> Truncated, peer |-> RepoPeer(host)] \in Config
    BY DEF Config
  <2> QED BY <1>5, <2>1 DEF CopyConf, GoesOn
<1>6. CASE FillIn
  <2>1. [conf[host] EXCEPT !.priv = priv[host]] \in Config
    BY DEF Config
  <2>2. conf' = [conf EXCEPT ![host] = [conf[host] EXCEPT !.priv = priv[host]]]
    BY <1>6 DEF FillIn
  <2>3. conf' \in [Host -> Config]
    BY <2>1, <2>2
  <2> QED BY <1>6, <2>3 DEF FillIn, GoesOn
<1> QED
  BY <1>2, <1>3, <1>4, <1>5, <1>6, OthersWriteNothing DEF Writes, fileVars

(* The links: the interface, the routes, the hub and the forwarding.       *)
LEMMA LinkTypesStep == TypeOK /\ Next => LinkTypes'
<1> SUFFICES ASSUME TypeOK, Next PROVE LinkTypes'
  OBVIOUS
<1>1. RunTypes /\ FileTypes /\ LinkTypes
  BY TypeParts
<1> USE <1>1, KeyNumbers, Hosts
    DEF LinkTypes, wgVars, modeVars, diskVars
<1>2. ASSUME NEW h \in Host, CallSetup(h) \/ CallApply(h),
             UNCHANGED << modeVars, reboots >>
      PROVE  LinkTypes'
  BY <1>2 DEF CallSetup, CallApply, Begin
<1>3. CASE (CallAbcd \/ CallCleanLan) /\ UNCHANGED reboots
  BY <1>3 DEF CallAbcd, CallCleanLan, CallMode, Begin
<1>4. CASE (TunnelStep \/ Interrupt) /\ UNCHANGED << modeVars, reboots >>
  <2>1. CASE DeleteRoute
    BY <1>4, <2>1 DEF DeleteRoute
  <2>2. CASE WgDown
    BY ZenonT(30), <1>4, <2>2 DEF WgDown, RunTypes
  <2>3. CASE WgUp
    <3>1. wg' \in [Host -> Config]
      BY <2>3 DEF WgUp, RunTypes, FileTypes
    <3>2. routes' \in [Host -> SUBSET {"wg", "hub"}]
      <4>1. PICK way \in SUBSET {"wg", "hub"} :
              routes' = [routes EXCEPT ![host] = way]
        <5>1. routes[host] \cup {"wg"} \in SUBSET {"wg", "hub"}
          BY DEF RunTypes
        <5> QED BY <2>3, <5>1 DEF WgUp
      <4> QED BY <4>1
    <3> QED BY <1>4, <3>1, <3>2
  <2>4. CASE ~ (DeleteRoute \/ WgDown \/ WgUp)
    BY <1>4, <2>4
    DEF TunnelStep, KeepKeys, MakeKeys, MakeKeysUnstored, MakeKeysCutShort,
        ShowKey, RejectKey, AcceptKey, WriteConf, WgUpFails, CheckFiles,
        NoPrivFile, CopyConf, FillIn, Interrupt
  <2> QED BY <2>1, <2>2, <2>3, <2>4
<1>5. CASE ModeStep /\ UNCHANGED reboots
  <2>1. wg' = wg
    BY <1>5, ModeWritesNothing
  <2>2. CASE HasTunnel \/ NoTunnel \/ AddWgRouteFails \/ SkipRules
               \/ RulesPresent \/ HubNotFound \/ EndCleanLan
    BY <1>5, <2>1, <2>2
    DEF HasTunnel, NoTunnel, AddWgRouteFails, SkipRules, RulesPresent,
        HubNotFound, EndCleanLan
  <2>3. CASE \/ EnsureForward("forward", "rules")
             \/ EnsureForward("forward 2", "end")
    BY <1>5, <2>1, <2>3 DEF EnsureForward
  <2>4. CASE InsertIifname \/ InsertOifname
    BY <1>5, <2>1, <2>4 DEF InsertIifname, InsertOifname
  <2>5. CASE HubDown
    BY <1>5, <2>1, <2>5 DEF HubDown
  <2>6. CASE DropHubRoute \/ RemoveWgRoute
    BY <1>5, <2>1, <2>6 DEF DropHubRoute, RemoveWgRoute
  <2>7. CASE AddWgRoute \/ AddHubRoute
    BY <1>5, <2>1, <2>7 DEF AddWgRoute, AddHubRoute
  <2>8. CASE HubUp
    BY <1>5, <2>1, <2>8 DEF HubUp
  <2> QED
    BY <1>5, <2>2, <2>3, <2>4, <2>5, <2>6, <2>7, <2>8 DEF ModeStep
<1>6. ASSUME NEW h \in Host, Reboot(h) PROVE LinkTypes'
  <2>1. reboots' \in 0 .. MaxReboots
    BY <1>6, NetworkAssumption DEF Reboot
  <2>2. wg' \in [Host -> Config]
    BY <1>6 DEF Reboot
  <2>3. routes' \in [Host -> SUBSET {"wg", "hub"}]
    <3>1. PICK back \in SUBSET {"wg", "hub"} :
            routes' = [routes EXCEPT ![h] = back]
      BY <1>6 DEF Reboot
    <3> QED BY <3>1
  <2>4. hub' \in BOOLEAN /\ rules' \subseteq {"iifname", "oifname"}
    BY <1>6 DEF Reboot
  <2>5. forward' \in BOOLEAN /\ chain' \in BOOLEAN
    BY <1>6 DEF Reboot
  <2> QED BY <2>1, <2>2, <2>3, <2>4, <2>5
<1>7. CASE HubUpByHand
  BY <1>7 DEF HubUpByHand
<1> QED BY <1>2, <1>3, <1>4, <1>5, <1>6, <1>7 DEF Next

(* Every step keeps the types.                                             *)
LEMMA TypesStep == TypeOK /\ [Next]_vars => TypeOK'
<1> SUFFICES ASSUME TypeOK, [Next]_vars PROVE TypeOK'
  OBVIOUS
<1>1. CASE Next
  BY <1>1, RunTypesStep, FileTypesStep, LinkTypesStep, TypeParts
  DEF TypeOK, RunTypes, FileTypes, LinkTypes, Steps, LastRun, Script
<1>2. CASE UNCHANGED vars
  BY <1>2
  DEF vars, tunnelVars, diskVars, wgVars, runVars, modeVars, TypeOK
<1> QED BY <1>1, <1>2

---------------------------------------------------------------------------
(* Keys.                                                                   *)

(* A host that has its keys keeps them, and what was shown remains shown.  *)
LEMMA KeysStay ==
  ASSUME TypeOK, KeysInv, Next, NEW h \in Host
  PROVE  /\ HasKeys(h) => HasKeys(h)' /\ priv'[h] = priv[h]
         /\ shown[h] \subseteq shown'[h]
<1> USE TypeParts, KeyNumbers DEF HasKeys, FileTypes, RunTypes
<1>1. CASE Makes
  <2>1. HasKeys(h) => h # host
    BY <1>1
    DEF Makes, MakeKeys, MakeKeysUnstored, MakeKeysCutShort, KeysPresent
  <2> QED
    BY <1>1, <2>1 DEF Makes, MakeKeys, MakeKeysUnstored, MakeKeysCutShort
<1>2. CASE ShowKey \/ WriteConf \/ CopyConf \/ FillIn
  BY <1>2 DEF ShowKey, WriteConf, CopyConf, FillIn, diskVars
<1> QED BY <1>1, <1>2, OthersWriteNothing DEF Writes, fileVars

(* What was shown is the public key on the disk, for as long as it is.     *)
LEMMA KeysStep == TypeOK /\ KeysInv /\ SetupInv /\ Next => KeysInv'
<1> SUFFICES ASSUME TypeOK, KeysInv, SetupInv, Next PROVE KeysInv'
  OBVIOUS
<1> USE TypeParts, KeyNumbers DEF KeysInv, HasKeys, FileTypes, RunTypes
<1>1. CASE Makes
  <2>1. shown[host] \ unstored = {}
    BY <1>1
    DEF Makes, MakeKeys, MakeKeysUnstored, MakeKeysCutShort, KeysPresent
  <2>2. keys' = keys + 1 /\ keys' \in 1 .. MaxKeys
    BY <1>1, TunnelAssumption
    DEF Makes, MakeKeys, MakeKeysUnstored, MakeKeysCutShort
  <2>3. /\ unstored \subseteq unstored'
        /\ unstored' \subseteq unstored \cup {keys'}
    BY <1>1 DEF Makes, MakeKeys, MakeKeysUnstored, MakeKeysCutShort
  <2>4. unstored' \subseteq 1 .. keys'
    BY <2>2, <2>3
  <2>5. keys' \in ProperKey /\ shown' = shown
    BY <1>1, <2>2 DEF Makes, MakeKeys, MakeKeysUnstored, MakeKeysCutShort
  <2>6. /\ \A h \in Host : h # host => priv'[h] = priv[h] /\ pub'[h] = pub[h]
        /\ priv'[host] \in {NoKey, keys'} /\ pub'[host] \in {NoKey, keys'}
    BY <1>1 DEF Makes, MakeKeys, MakeKeysUnstored, MakeKeysCutShort
  <2>7. ASSUME NEW h \in Host
        PROVE  /\ {priv'[h], pub'[h]} \subseteq ProperKey \cup {NoKey}
               /\ priv'[h] # NoKey /\ pub'[h] # NoKey => priv'[h] = pub'[h]
               /\ shown'[h] \subseteq ProperKey
    BY <2>5, <2>6
  <2>8. ASSUME NEW h \in Host, NEW k \in shown'[h] \ unstored'
        PROVE  HasKeys(h)' /\ k = priv'[h]
    <3>1. k \in shown[h] \ unstored /\ h # host
      BY <2>1, <2>3, <2>5
    <3> QED BY <2>6, <3>1
  <2> QED BY <2>4, <2>7, <2>8
<1>2. CASE ShowKey
  <2>1. HasKeys(host) \/ KeyUnstored(host)
    BY <1>2 DEF SetupInv, SetupSteps, ShowKey, EndsAs
  <2>2. 1 .. keys \subseteq 1 .. MaxKeys
    BY TunnelAssumption
  <2>3. pub[host] \in ProperKey
    BY <2>1, <2>2 DEF KeyUnstored
  <2>4. UNCHANGED << priv, pub, keys, unstored >>
    BY <1>2 DEF ShowKey, diskVars
  <2>5. /\ shown'[host] = shown[host] \cup {pub[host]}
        /\ \A h \in Host : h # host => shown'[h] = shown[h]
    BY <1>2 DEF ShowKey
  <2> QED BY <2>1, <2>3, <2>4, <2>5 DEF KeyUnstored
<1>3. CASE WriteConf \/ CopyConf \/ FillIn
  <2>1. UNCHANGED << priv, pub, shown, unstored, keys >>
    BY <1>3 DEF WriteConf, CopyConf, FillIn, GoesOn
  <2> QED BY <2>1
<1> QED BY <1>1, <1>2, <1>3, OthersWriteNothing DEF Writes, fileVars

---------------------------------------------------------------------------
(* The run of a script.                                                    *)

(* How the end of a script is recorded.                                    *)
LEMMA EndsSets ==
  ASSUME RunTypes, NEW from, NEW script, EndsAs(from, script)
  PROVE  /\ at = from /\ at' = "idle"
         /\ last'[host].script = script
         /\ last'[host].arg = arg /\ last'[host].calm = calm
         /\ \A h \in Host : h # host => last'[h] = last[h]
<1> QED BY DEF RunTypes, EndsAs, GoesIdle

(* How the start of a script is recorded.                                  *)
LEMMA BeginSets ==
  ASSUME RunTypes, NEW h \in Host, NEW k, NEW step, Begin(h, k, step)
  PROVE  /\ at = "idle" /\ at' = step /\ host' = h /\ arg' = k
         /\ last'[h] = NoRun
         /\ \A g \in Host : g # h => last'[g] = last[g]
         /\ UNCHANGED << fileVars, wgVars >>
<1> QED BY DEF RunTypes, Begin, fileVars, diskVars

(* A step that writes no end of setup_wg.sh.                               *)
LEMMA SetUpStays ==
  ASSUME NetInv, Next, NEW h \in Host, last'[h] = last[h]
  PROVE  WasSetUp(h)'
<1>1. WasSetUp(h)
  BY DEF NetInv, SetupInv, WasSetUp
<1>2. Other(h) \in Host
  BY Hosts
<1> QED
  BY <1>1, <1>2, KeysStay DEF NetInv, WasSetUp, Ended

(* A script that has not run has not ended either.                         *)
LEMMA NoRunIsNone == NoRun.script = "none"
<1> QED BY DEF NoRun

(* Every step of setup_wg.sh and apply_wg.sh is where it says.             *)
LEMMA SetupStep == NetInv /\ Next => SetupInv'
<1> SUFFICES ASSUME NetInv, Next PROVE SetupInv'
  OBVIOUS
<1>1. /\ RunTypes /\ FileTypes /\ LinkTypes /\ SetupSteps
      /\ TypeOK /\ KeysInv
  BY TypeParts DEF NetInv, SetupInv
<1>2. ASSUME NEW k \in SomeKey, NEW h \in Host, NEW step \in Steps,
             Begin(h, k, step),
             step = "keys" => k \in {NoKey, Truncated} \cup shown[Other(h)],
             step \in {"keys", "apply", "link", "unroute"}
      PROVE  SetupInv'
  <2>1. SetupSteps'
    BY <1>1, <1>2, BeginSets DEF SetupSteps, fileVars
  <2>2. ASSUME NEW g \in Host PROVE WasSetUp(g)'
    <3>1. CASE g = h
      BY <1>1, <1>2, <3>1, BeginSets, NoRunIsNone DEF WasSetUp, Ended
    <3>2. CASE g # h
      BY <1>1, <1>2, <3>2, BeginSets, SetUpStays
    <3> QED BY <3>1, <3>2
  <2> QED BY <2>1, <2>2 DEF SetupInv
<1>3. ASSUME NEW from, NEW script, EndsAs(from, script),
             script = "setup" => from = "up" /\ CanComeUp
      PROVE  SetupInv'
  <2>1. SetupSteps'
    BY <1>1, <1>3, EndsSets DEF SetupSteps
  <2>2. ASSUME NEW g \in Host PROVE WasSetUp(g)'
    <3>1. CASE g # host
      BY <1>1, <1>3, <3>1, EndsSets, SetUpStays
    <3>2. CASE g = host /\ script # "setup"
      <4>1. last'[g].script = script
        BY <1>1, <1>3, <3>2, EndsSets
      <4> QED BY <3>2, <4>1 DEF WasSetUp, Ended
    <3>3. CASE g = host /\ script = "setup"
      <4>1. HasKeys(g) /\ arg \in shown[Other(g)] /\ Other(g) \in Host
        <5>1. priv[host] # NoKey
          BY <1>1, <1>3, <3>3, EndsSets, KeyNumbers DEF SetupSteps, CanComeUp
        <5> QED
          BY <1>1, <1>3, <3>3, <5>1, EndsSets, Hosts
          DEF SetupSteps, KeyUnstored
      <4>2. HasKeys(g)' /\ arg \in shown'[Other(g)]
        BY <1>1, <4>1, KeysStay
      <4>3. last'[g].arg = arg
        BY <1>1, <1>3, <3>3, EndsSets
      <4> QED BY <4>2, <4>3 DEF WasSetUp
    <3> QED BY <3>1, <3>2, <3>3
  <2> QED BY <2>1, <2>2 DEF SetupInv
<1>4. ASSUME SetupSteps', UNCHANGED last PROVE SetupInv'
  BY <1>4, SetUpStays
  DEF SetupInv
<1>5. ASSUME NEW from, NEW to, GoesOn(from, to), UNCHANGED fileVars,
             from # "idle",
             to \notin {"keys", "show", "check", "down", "del", "conf", "up"}
      PROVE  SetupInv'
  <2>1. SetupSteps'
    BY <1>1, <1>5
    DEF SetupSteps, GoesOn, runVars, fileVars, HasKeys, KeyUnstored
  <2> QED BY <1>4, <1>5, <2>1 DEF GoesOn
<1>6. ASSUME NEW h \in Host, CallSetup(h) \/ CallApply(h) PROVE SetupInv'
  <2>1. {"keys", "apply"} \subseteq Steps
    BY DEF Steps, TunnelSteps
  <2> QED
    BY <1>1, <1>2, <1>6, <2>1, Passed, KeyNumbers DEF CallApply
<1>7. CASE CallAbcd \/ CallCleanLan
  <2>1. {"link", "unroute"} \subseteq Steps
    BY DEF Steps, ModeSteps
  <2> QED
    BY <1>2, <1>7, <2>1, KeyNumbers, Hosts DEF CallAbcd, CallCleanLan, CallMode
<1>8. CASE TunnelStep
  <2>1. \A g \in Host : HasKeys(g) => HasKeys(g)'
    BY <1>1, KeysStay
  <2>2. shown[Other(host)] \subseteq shown'[Other(host)]
    BY <1>1, KeysStay, Hosts DEF RunTypes
  <2>3. CASE KeepKeys
    <3>1. HasKeys(host)
      BY <1>1, <2>3 DEF KeepKeys, KeysPresent, KeysInv, HasKeys, RunTypes
    <3>2. SetupSteps'
      BY <1>1, <2>2, <2>3, <3>1
      DEF KeepKeys, GoesOn, SetupSteps, AfterKeys, runVars, diskVars, HasKeys,
          KeyUnstored
    <3> QED BY <1>4, <2>3, <3>2 DEF KeepKeys, GoesOn
  <2>4. CASE MakeKeys
    <3>1. HasKeys(host)'
      BY <1>1, <2>4, KeyNumbers, TunnelAssumption
      DEF MakeKeys, HasKeys, RunTypes, FileTypes, runVars
    <3>2. SetupSteps'
      BY <1>1, <2>4, <3>1 DEF MakeKeys, SetupSteps, AfterKeys, runVars
    <3> QED BY <1>4, <2>4, <3>2 DEF MakeKeys
  <2>5. CASE AcceptKey
    <3>1. SetupSteps'
      BY <1>1, <2>5
      DEF AcceptKey, GoesOn, SetupSteps, runVars, diskVars, HasKeys,
          KeyUnstored
    <3> QED BY <1>4, <2>5, <3>1 DEF AcceptKey, GoesOn
  <2>6. CASE WgDown
    <3>1. calm => wg'[host] = NoConf
      BY <1>1, <2>6 DEF WgDown, RunTypes, LinkTypes
    <3>2. SetupSteps'
      BY <1>1, <2>6, <3>1
      DEF WgDown, GoesOn, SetupSteps, runVars, diskVars, HasKeys,
          KeyUnstored
    <3> QED BY <1>4, <2>6, <3>2 DEF WgDown, GoesOn
  <2>7. CASE DeleteRoute
    <3>1. SetupSteps'
      BY <1>1, <2>7
      DEF DeleteRoute, GoesOn, SetupSteps, runVars, diskVars, HasKeys,
          KeyUnstored
    <3> QED BY <1>4, <2>7, <3>1 DEF DeleteRoute, GoesOn
  <2>8. CASE WriteConf
    <3>1. conf'[host] = [priv |-> priv[host], peer |-> arg]
      BY <1>1, <2>8 DEF WriteConf, RunTypes, FileTypes
    <3>2. SetupSteps'
      BY <1>1, <2>8, <3>1
      DEF WriteConf, GoesOn, SetupSteps, runVars, wgVars, HasKeys,
          KeyUnstored
    <3> QED BY <1>4, <2>8, <3>2 DEF WriteConf, GoesOn
  <2>9. CASE CheckFiles \/ CopyConf \/ FillIn
    <3>1. SetupSteps'
      BY <1>1, <2>9
      DEF CheckFiles, CopyConf, FillIn, GoesOn, SetupSteps, runVars
    <3> QED BY <1>4, <2>9, <3>1 DEF CheckFiles, CopyConf, FillIn, GoesOn
  <2>10. CASE MakeKeysCutShort \/ ShowKey \/ RejectKey \/ NoPrivFile
    BY <1>3, <2>10 DEF MakeKeysCutShort, ShowKey, RejectKey, NoPrivFile
  <2>11. CASE WgUp \/ WgUpFails
    BY <1>3, <2>11 DEF WgUp, WgUpFails
  <2>12. CASE MakeKeysUnstored
    <3>1. KeyUnstored(host)' /\ ~ calm'
      BY <1>1, <2>12
      DEF MakeKeysUnstored, KeyUnstored, RunTypes, FileTypes, runVars
    <3>2. SetupSteps'
      BY <1>1, <2>12, <3>1
      DEF MakeKeysUnstored, SetupSteps, AfterKeys, runVars
    <3> QED BY <1>4, <2>12, <3>2 DEF MakeKeysUnstored
  <2> QED
    BY <1>8, <2>3, <2>4, <2>5, <2>6, <2>7, <2>8, <2>9, <2>10, <2>11,
       <2>12
    DEF TunnelStep
<1>9. CASE Interrupt
  BY <1>3, <1>9 DEF Interrupt
<1>10. CASE ModeStep
  <2>1. UNCHANGED fileVars
    BY <1>10, ModeWritesNothing
  <2>2. CASE HasTunnel \/ HubDown \/ DropHubRoute \/ AddWgRoute
               \/ EnsureForward("forward", "rules") \/ InsertIifname
    BY <1>5, <2>1, <2>2
    DEF HasTunnel, HubDown, DropHubRoute, AddWgRoute, EnsureForward,
        InsertIifname, ModeGoesOn
  <2>3. CASE RemoveWgRoute \/ HubUp \/ HubNotFound \/ AddHubRoute
               \/ EnsureForward("forward 2", "end")
    BY <1>5, <2>1, <2>3
    DEF RemoveWgRoute, HubUp, HubNotFound, AddHubRoute, EnsureForward,
        ModeGoesOn
  <2>4. CASE NoTunnel \/ AddWgRouteFails \/ SkipRules \/ RulesPresent
               \/ InsertOifname \/ EndCleanLan
    BY <1>3, <2>4
    DEF NoTunnel, AddWgRouteFails, SkipRules, RulesPresent, InsertOifname,
        EndCleanLan, ModeEndsAs
  <2> QED BY <1>10, <2>2, <2>3, <2>4 DEF ModeStep
<1>11. ASSUME NEW h \in Host, Reboot(h) PROVE SetupInv'
  <2>1. SetupSteps'
    BY <1>11 DEF Reboot, GoesIdle, SetupSteps
  <2>2. ASSUME NEW g \in Host PROVE WasSetUp(g)'
    <3>1. CASE g = h
      BY <1>1, <1>11, <3>1, NoRunIsNone DEF Reboot, RunTypes, WasSetUp, Ended
    <3>2. CASE g # h
      BY <1>1, <1>11, <3>2, SetUpStays DEF Reboot, RunTypes
    <3> QED BY <3>1, <3>2
  <2> QED BY <2>1, <2>2 DEF SetupInv
<1>12. CASE HubUpByHand
  <2>1. SetupSteps'
    BY <1>12 DEF HubUpByHand, SetupSteps
  <2>2. ASSUME NEW g \in Host PROVE WasSetUp(g)'
    <3>1. CASE g = "c"
      BY <1>1, <1>12, <3>1, NoRunIsNone
      DEF HubUpByHand, RunTypes, WasSetUp, Ended
    <3>2. CASE g # "c"
      BY <1>1, <1>12, <3>2, SetUpStays, Hosts DEF HubUpByHand, RunTypes
    <3> QED BY <3>1, <3>2
  <2> QED BY <2>1, <2>2 DEF SetupInv
<1> QED
  BY <1>6, <1>7, <1>8, <1>9, <1>10, <1>11, <1>12 DEF Next

---------------------------------------------------------------------------
(* The run of pc_c_mode.sh.                                                *)

\* A route to the hub goes with its connection.
HubRoute == "hub" \in routes["c"] => hub

(* The scripts of the tunnel are no steps of the mode, and leave a hub     *)
(* route only where one was.                                               *)
LEMMA TunnelKeepsMode ==
  NetInv /\ (TunnelStep \/ Interrupt) /\ UNCHANGED modeVars => ModeInv'
<1> SUFFICES ASSUME NetInv, TunnelStep \/ Interrupt, UNCHANGED modeVars
             PROVE  ModeInv'
  OBVIOUS
<1>1. RunTypes /\ LinkTypes /\ HubRoute
  BY TypeParts DEF NetInv, ModeInv, HubRoute
<1>2. at' \notin ModeSteps
  BY DEF TunnelStep, Interrupt, KeepKeys, MakeKeys, MakeKeysUnstored,
         MakeKeysCutShort, ShowKey, RejectKey, AcceptKey, DeleteRoute,
         WriteConf, WgDown, WgUp, WgUpFails, CheckFiles, NoPrivFile, CopyConf,
         FillIn, AfterKeys, GoesOn, EndsAs, GoesIdle, ModeSteps
<1>3. HubRoute'
  <2>1. routes'["c"] \subseteq routes["c"] \cup {"wg"}
    <3>1. CASE DeleteRoute
      BY <1>1, <3>1, Hosts DEF DeleteRoute, LinkTypes, RunTypes
    <3>2. CASE WgDown
      BY ZenonT(30), <1>1, <3>2, Hosts DEF WgDown, LinkTypes, RunTypes, wgVars
    <3>3. CASE WgUp
      BY <1>1, <3>3, Hosts DEF WgUp, LinkTypes, RunTypes
    <3>4. CASE ~ (DeleteRoute \/ WgDown \/ WgUp)
      BY <3>4
      DEF TunnelStep, Interrupt, KeepKeys, MakeKeys, MakeKeysUnstored,
          MakeKeysCutShort, ShowKey, RejectKey, AcceptKey, WriteConf, WgUpFails,
          CheckFiles, NoPrivFile, CopyConf, FillIn, wgVars
    <3> QED BY <3>1, <3>2, <3>3, <3>4
  <2> QED BY <1>1, <2>1 DEF HubRoute, modeVars
<1> QED BY <1>2, <1>3 DEF ModeInv, ModeSteps, HubRoute

(* pc_c_mode.sh: each step leaves what the steps after it rely on.         *)
LEMMA ModeStepsKeepMode == NetInv /\ ModeStep => ModeInv'
<1> SUFFICES ASSUME NetInv, ModeStep PROVE ModeInv'
  OBVIOUS
<1>1. RunTypes /\ LinkTypes /\ ModeInv
  BY TypeParts DEF NetInv
<1>2. wg' = wg
  BY ModeWritesNothing
<1> USE <1>1, <1>2
    DEF ModeInv, ModeSteps, modeVars, RunTypes, LinkTypes, ModeGoesOn, GoesOn,
        runVars
<1>3. CASE HasTunnel
  BY <1>3 DEF HasTunnel
<1>4. CASE HubDown
  BY <1>4, Hosts DEF HubDown
<1>5. CASE DropHubRoute
  BY <1>5, Hosts DEF DropHubRoute
<1>6. CASE AddWgRoute
  <2>1. routes'["c"] = routes["c"] \cup {"wg"}
    BY <1>6, Hosts DEF AddWgRoute, WgRoutePresent
  <2> QED BY <1>6, <2>1, Hosts DEF AddWgRoute
<1>7. CASE EnsureForward("forward", "rules")
  BY <1>7 DEF EnsureForward
<1>8. CASE InsertIifname
  BY <1>8 DEF InsertIifname
<1>9. CASE RemoveWgRoute
  BY <1>9, Hosts DEF RemoveWgRoute
<1>10. CASE HubUp
  <2>1. /\ "wg" \notin routes'["c"]
        /\ "hub" \in routes'["c"] => hub'
    BY ZenonT(30), <1>10, Hosts DEF HubUp
  <2> QED BY <1>10, <2>1 DEF HubUp
<1>11. CASE HubNotFound
  BY <1>11 DEF HubNotFound
<1>12. CASE AddHubRoute
  <2>1. routes'["c"] = IF hub THEN {"hub"} ELSE {}
    BY <1>12, Hosts DEF AddHubRoute
  <2> QED BY <1>12, <2>1 DEF AddHubRoute
<1>13. CASE EnsureForward("forward 2", "end")
  BY <1>13 DEF EnsureForward
<1>14. CASE NoTunnel \/ AddWgRouteFails \/ SkipRules \/ RulesPresent
             \/ EndCleanLan
  BY <1>14
  DEF NoTunnel, AddWgRouteFails, SkipRules, RulesPresent, EndCleanLan,
      ModeEndsAs, EndsAs, GoesIdle
<1>15. CASE InsertOifname
  BY <1>15 DEF InsertOifname, ModeEndsAs, EndsAs, GoesIdle
<1> QED
  BY <1>3, <1>4, <1>5, <1>6, <1>7, <1>8, <1>9, <1>10, <1>11, <1>12, <1>13,
     <1>14, <1>15
  DEF ModeStep

(* ... and so does every other step.                                       *)
LEMMA ModeInvStep == NetInv /\ Next => ModeInv'
<1> SUFFICES ASSUME NetInv, Next PROVE ModeInv'
  OBVIOUS
<1>1. RunTypes /\ LinkTypes /\ ModeInv
  BY TypeParts DEF NetInv
<1>2. ASSUME NEW h \in Host, CallSetup(h) \/ CallApply(h),
             UNCHANGED << modeVars, reboots >>
      PROVE  ModeInv'
  BY <1>1, <1>2
  DEF CallSetup, CallApply, Begin, ModeInv, ModeSteps, modeVars, wgVars
<1>3. CASE CallAbcd \/ CallCleanLan
  BY <1>1, <1>3
  DEF CallAbcd, CallCleanLan, CallMode, Begin, ModeInv, modeVars, wgVars
<1>4. ASSUME NEW h \in Host, Reboot(h) PROVE ModeInv'
  <2>1. CASE h = "c"
    <3>1. hub' /\ at' = "idle"
      BY <1>4, <2>1 DEF Reboot, GoesIdle
    <3> QED BY <3>1 DEF ModeInv, ModeSteps
  <2>2. CASE h # "c"
    <3>1. routes'["c"] = routes["c"] /\ hub' = hub /\ at' = "idle"
      BY <1>1, <1>4, <2>2, Hosts DEF Reboot, GoesIdle, LinkTypes
    <3> QED BY <1>1, <3>1 DEF ModeInv, ModeSteps
  <2> QED BY <2>1, <2>2
<1>5. CASE HubUpByHand
  BY <1>5 DEF HubUpByHand, ModeInv, ModeSteps
<1> QED
  BY <1>2, <1>3, <1>4, <1>5, TunnelKeepsMode, ModeStepsKeepMode DEF Next

---------------------------------------------------------------------------
(* What is left when a script has ended.                                   *)

(* While nothing runs on a host, nothing of it changes: a script or a      *)
(* reboot forgets how the last one ended.                                  *)
LEMMA LinksStay ==
  ASSUME NetInv, Next, NEW g \in Host, last[g] # NoRun, last'[g] = last[g]
  PROVE  /\ priv'[g] = priv[g] /\ conf'[g] = conf[g]
         /\ wg'[g] = wg[g] /\ routes'[g] = routes[g]
         /\ g = "c" => UNCHANGED modeVars
<1>1. RunTypes /\ FileTypes /\ LinkTypes /\ SetupSteps /\ ModeInv
  BY TypeParts DEF NetInv, SetupInv
<1>2. at # "idle" => g # host
  BY <1>1 DEF SetupSteps
<1>3. ASSUME NEW h \in Host, CallSetup(h) \/ CallApply(h),
             UNCHANGED << modeVars, reboots >>
      PROVE  UNCHANGED << priv, conf, wg, routes, modeVars >>
  BY <1>3 DEF CallSetup, CallApply, Begin, diskVars, wgVars
<1>4. CASE CallAbcd \/ CallCleanLan
  BY <1>4 DEF CallAbcd, CallCleanLan, CallMode, Begin, diskVars, wgVars
<1>5. CASE TunnelStep /\ UNCHANGED << modeVars, reboots >>
  <2>1. g # host
    BY <1>2, <1>5
    DEF TunnelStep, KeepKeys, MakeKeys, MakeKeysUnstored, MakeKeysCutShort,
        ShowKey, RejectKey, AcceptKey, DeleteRoute, WriteConf, WgDown, WgUp,
        WgUpFails, CheckFiles, NoPrivFile, CopyConf, FillIn, GoesOn, EndsAs
  <2> USE <1>1, <1>5, <2>1 DEF RunTypes, FileTypes, LinkTypes, diskVars, wgVars
  <2>2. CASE Makes
    BY <2>2 DEF Makes, MakeKeys, MakeKeysUnstored, MakeKeysCutShort
  <2>3. CASE WriteConf \/ CopyConf \/ FillIn
    BY <2>3 DEF WriteConf, CopyConf, FillIn
  <2>4. CASE DeleteRoute
    BY <2>4 DEF DeleteRoute
  <2>5. CASE WgDown
    BY <2>5 DEF WgDown
  <2>6. CASE WgUp
    BY <2>6 DEF WgUp
  <2>7. CASE KeepKeys \/ ShowKey \/ RejectKey \/ AcceptKey \/ WgUpFails
               \/ CheckFiles \/ NoPrivFile
    BY <2>7
    DEF KeepKeys, ShowKey, RejectKey, AcceptKey, WgUpFails, CheckFiles,
        NoPrivFile
  <2> QED
    BY <2>2, <2>3, <2>4, <2>5, <2>6, <2>7 DEF TunnelStep, Makes
<1>6. CASE Interrupt /\ UNCHANGED << modeVars, reboots >>
  BY <1>6 DEF Interrupt, diskVars, wgVars
<1>7. CASE ModeStep
  <2>1. at \in ModeSteps
    BY <1>7
    DEF ModeStep, HasTunnel, NoTunnel, HubDown, DropHubRoute, AddWgRoute,
        AddWgRouteFails, EnsureForward, SkipRules, RulesPresent,
        InsertIifname, InsertOifname, RemoveWgRoute, HubUp, HubNotFound,
        AddHubRoute, EndCleanLan, ModeGoesOn, ModeEndsAs, GoesOn, EndsAs,
        ModeSteps
  <2>2. g # "c"
    BY <1>1, <1>2, <2>1 DEF ModeInv, ModeSteps
  <2>3. UNCHANGED << fileVars, wg >>
    BY <1>7, ModeWritesNothing
  <2>4. routes'[g] = routes[g]
    <3> USE <1>1, <2>2, Hosts DEF LinkTypes
    <3>1. CASE HubDown \/ DropHubRoute \/ AddWgRoute
      BY <3>1 DEF HubDown, DropHubRoute, AddWgRoute
    <3>2. CASE RemoveWgRoute \/ HubUp \/ AddHubRoute
      BY <3>2 DEF RemoveWgRoute, HubUp, AddHubRoute
    <3>3. CASE ~ (HubDown \/ DropHubRoute \/ AddWgRoute \/ RemoveWgRoute
                    \/ HubUp \/ AddHubRoute)
      BY <1>7, <3>3
      DEF ModeStep, HasTunnel, NoTunnel, AddWgRouteFails, EnsureForward,
          SkipRules, RulesPresent, InsertIifname, InsertOifname, HubNotFound,
          EndCleanLan
    <3> QED BY <3>1, <3>2, <3>3
  <2> QED BY <2>2, <2>3, <2>4 DEF fileVars
<1>8. ASSUME NEW h \in Host, Reboot(h)
      PROVE  /\ UNCHANGED << priv, conf >>
             /\ wg'[g] = wg[g] /\ routes'[g] = routes[g]
             /\ g = "c" => UNCHANGED modeVars
  <2>1. g # h
    BY <1>1, <1>8 DEF Reboot, RunTypes
  <2>2. g = "c" => h # "c"
    BY <2>1
  <2> QED BY <1>1, <1>8, <2>1, <2>2 DEF Reboot, LinkTypes, diskVars, modeVars
<1>9. CASE HubUpByHand
  <2>1. g # "c"
    BY <1>1, <1>9, Hosts DEF HubUpByHand, RunTypes
  <2> QED BY <1>1, <1>9, <2>1 DEF HubUpByHand, LinkTypes, diskVars
<1> QED BY <1>3, <1>4, <1>5, <1>6, <1>7, <1>8, <1>9 DEF Next

\* The steps with which a script ends.
Ending ==
  \/ /\ \/ Interrupt \/ MakeKeysCutShort \/ ShowKey \/ RejectKey \/ WgUp
        \/ WgUpFails \/ NoPrivFile
     /\ UNCHANGED modeVars
  \/ NoTunnel \/ AddWgRouteFails \/ SkipRules \/ RulesPresent
  \/ InsertOifname \/ EndCleanLan

(* An end is forgotten, or it is a new one on the host of the script.      *)
LEMMA EndIsNew ==
  ASSUME NetInv, Next, NEW g \in Host, last'[g] # last[g]
  PROVE  last'[g] = NoRun \/ (g = host /\ Ending)
<1>1. RunTypes
  BY TypeParts DEF NetInv
<1>2. ASSUME NEW h \in Host, CallSetup(h) \/ CallApply(h)
      PROVE  last'[g] = NoRun
  BY <1>1, <1>2 DEF CallSetup, CallApply, Begin, RunTypes
<1>3. CASE CallAbcd \/ CallCleanLan
  BY <1>1, <1>3, Hosts DEF CallAbcd, CallCleanLan, CallMode, Begin, RunTypes
<1>4. CASE (TunnelStep \/ Interrupt) /\ UNCHANGED << modeVars, reboots >>
  <2>1. CASE Ending
    BY <1>1, <1>4, <2>1
    DEF TunnelStep, Interrupt, KeepKeys, MakeKeys, MakeKeysUnstored,
        MakeKeysCutShort, ShowKey, RejectKey, AcceptKey, DeleteRoute, WriteConf,
        WgDown, WgUp, WgUpFails, CheckFiles, NoPrivFile, CopyConf, FillIn,
        GoesOn, EndsAs, RunTypes
  <2>2. CASE ~ Ending
    BY <1>4, <2>2
    DEF Ending, TunnelStep, KeepKeys, MakeKeys, MakeKeysUnstored, AcceptKey,
        DeleteRoute, WriteConf, WgDown, CheckFiles, CopyConf, FillIn, GoesOn
  <2> QED BY <2>1, <2>2
<1>5. CASE ModeStep
  <2>1. CASE NoTunnel \/ AddWgRouteFails \/ SkipRules \/ RulesPresent
               \/ InsertOifname \/ EndCleanLan
    BY <1>1, <2>1
    DEF NoTunnel, AddWgRouteFails, SkipRules, RulesPresent, InsertOifname,
        EndCleanLan, ModeEndsAs, EndsAs, RunTypes, Ending
  <2>2. CASE ~ (NoTunnel \/ AddWgRouteFails \/ SkipRules \/ RulesPresent
                  \/ InsertOifname \/ EndCleanLan)
    BY <1>5, <2>2
    DEF ModeStep, HasTunnel, HubDown, DropHubRoute, AddWgRoute,
        EnsureForward, InsertIifname, RemoveWgRoute, HubUp, HubNotFound,
        AddHubRoute, ModeGoesOn, GoesOn
  <2> QED BY <2>1, <2>2
<1>6. ASSUME NEW h \in Host, Reboot(h) PROVE last'[g] = NoRun
  BY <1>1, <1>6 DEF Reboot, RunTypes
<1>7. CASE HubUpByHand
  BY <1>1, <1>7, Hosts DEF HubUpByHand, RunTypes
<1> QED BY <1>2, <1>3, <1>4, <1>5, <1>6, <1>7 DEF Next

(* What an ending step has recorded.                                       *)
LEMMA EndingSays ==
  ASSUME NetInv, Ending
  PROVE  /\ last'[host].arg = arg /\ last'[host].calm = calm
         /\ last'[host].script = "setup" => WgUp /\ at = "up"
         /\ last'[host].script = "failed" =>
              \/ ~ calm \/ AddWgRouteFails
              \/ WgUpFails /\ at = "up"
         /\ last'[host].script = "abcd" =>
              SkipRules \/ RulesPresent \/ InsertOifname
         /\ last'[host].script = "clean_lan" => EndCleanLan
<1>1. RunTypes
  BY TypeParts DEF NetInv
<1> USE <1>1, EndsSets DEF ModeEndsAs
<1>2. CASE Interrupt \/ MakeKeysCutShort \/ ShowKey \/ RejectKey \/ NoPrivFile
  BY <1>2 DEF Interrupt, MakeKeysCutShort, ShowKey, RejectKey, NoPrivFile
<1>3. CASE WgUp
  <2>1. CASE at = "up"
    BY <1>3, <2>1 DEF WgUp
  <2>2. CASE at # "up"
    <3>1. EndsAs(at, "applied")
      BY <1>3, <2>2 DEF WgUp
    <3> QED BY <3>1
  <2> QED BY <2>1, <2>2
<1>4. CASE WgUpFails
  <2>1. CASE at = "up"
    <3>1. EndsAs(at, "failed")
      BY <1>4, <2>1 DEF WgUpFails
    <3> QED BY <1>4, <2>1, <3>1
  <2>2. CASE at # "up"
    <3>1. EndsAs(at, "not applied")
      BY <1>4, <2>2 DEF WgUpFails
    <3>2. last'[host].script = "not applied"
      BY <3>1
    <3> QED BY <3>1, <3>2
  <2> QED BY <2>1, <2>2
<1>5. CASE NoTunnel \/ AddWgRouteFails
  BY <1>5 DEF NoTunnel, AddWgRouteFails
<1>6. CASE SkipRules \/ RulesPresent \/ InsertOifname
  <2>1. EndsAs("rules", "abcd") \/ EndsAs("rule 2", "abcd")
    BY <1>6 DEF SkipRules, RulesPresent, InsertOifname
  <2>2. last'[host].script = "abcd"
    BY <2>1
  <2> QED BY <1>6, <2>1, <2>2
<1>7. CASE EndCleanLan
  <2>1. EndsAs("end", "clean_lan")
    BY <1>7 DEF EndCleanLan
  <2> QED BY <1>7, <2>1
<1> QED BY <1>2, <1>3, <1>4, <1>5, <1>6, <1>7 DEF Ending

(* A setup that has ended well has the interface it was asked for.         *)
LEMMA UpAsAskedStep == NetInv /\ Next => UpAsAsked'
<1> SUFFICES ASSUME NetInv, Next, NEW g \in Host, last'[g].script = "setup"
             PROVE  /\ wg'[g] = [priv |-> priv'[g], peer |-> last'[g].arg]
                    /\ wg'[g] = conf'[g]
                    /\ "wg" \in routes'[g]
  BY DEF UpAsAsked, Ended
<1>1. CASE last'[g] = last[g]
  <2>1. last[g] # NoRun
    BY <1>1, NoRunIsNone
  <2> QED BY <1>1, <2>1, LinksStay DEF NetInv, UpAsAsked, Ended
<1>2. CASE last'[g] # last[g]
  <2>1. g = host /\ Ending
    BY <1>2, EndIsNew, NoRunIsNone
  <2>2. WgUp /\ at = "up" /\ last'[g].arg = arg
    BY <2>1, EndingSays
  <2>3. conf[host] = [priv |-> priv[host], peer |-> arg]
    BY <2>2 DEF NetInv, SetupInv, SetupSteps
  <2>4. wg \in [Host -> Config] /\ routes \in [Host -> SUBSET {"wg", "hub"}]
    BY DEF NetInv, TypeOK
  <2> QED BY <2>1, <2>2, <2>3, <2>4 DEF WgUp, diskVars
<1> QED BY <1>1, <1>2

(* A setup that was left alone does not fail.                              *)
LEMMA RerunRepairsStep == NetInv /\ Next => RerunRepairs'
<1> SUFFICES ASSUME NetInv, Next, NEW g \in Host, last'[g].script = "failed"
             PROVE  ~ last'[g].calm
  BY DEF RerunRepairs, Ended
<1>1. CASE last'[g] = last[g]
  BY <1>1 DEF NetInv, RerunRepairs, Ended
<1>2. CASE last'[g] # last[g]
  <2>1. g = host /\ Ending
    BY <1>2, EndIsNew, NoRunIsNone
  <2>2. /\ last'[g].calm = calm
        /\ ~ calm \/ AddWgRouteFails \/ (WgUpFails /\ at = "up")
    BY <2>1, EndingSays
  <2>3. AddWgRouteFails => ~ calm
    BY DEF NetInv, ModeInv, AddWgRouteFails, ModeEndsAs, EndsAs
  <2>4. WgUpFails /\ at = "up" => ~ calm
    <3> SUFFICES ASSUME at = "up", calm PROVE CanComeUp
      BY DEF WgUpFails
    <3>1. /\ wg[host] = NoConf /\ HasKeys(host) /\ host \in Host
          /\ arg \in shown[Other(host)]
          /\ conf[host] = [priv |-> priv[host], peer |-> arg]
      BY DEF NetInv, SetupInv, SetupSteps, TypeOK
    <3>2. arg \in ProperKey
      BY <3>1, Hosts DEF NetInv, KeysInv
    <3> QED BY <3>1, <3>2 DEF CanComeUp, HasKeys
  <2> QED BY <2>2, <2>3, <2>4
<1> QED BY <1>1, <1>2

(* What abcd ends with.                                                    *)
LEMMA AbcdReadyStep == NetInv /\ Next => AbcdReady'
<1> SUFFICES ASSUME NetInv, Next, last'["c"].script = "abcd" PROVE AbcdReady'
  BY DEF AbcdReady, Ended
<1>1. CASE last'["c"] = last["c"]
  <2>1. last["c"] # NoRun
    BY <1>1, NoRunIsNone
  <2> QED
    BY <1>1, <2>1, LinksStay, Hosts DEF NetInv, AbcdReady, Ended, modeVars
<1>2. CASE last'["c"] # last["c"]
  <2>1. host = "c" /\ Ending
    BY <1>2, EndIsNew, NoRunIsNone, Hosts
  <2>2. /\ SkipRules \/ RulesPresent \/ InsertOifname
        /\ last'["c"].calm = calm
    BY <2>1, EndingSays
  <2>3. /\ at \in {"rules", "rule 2"}
        /\ UNCHANGED << routes, wg, forward, chain >>
    BY <2>2
    DEF SkipRules, RulesPresent, InsertOifname, ModeEndsAs, EndsAs, modeVars
  <2>4. /\ wg["c"] # NoConf /\ forward /\ "wg" \in routes["c"]
        /\ calm => routes["c"] = {"wg"}
    BY <2>3 DEF NetInv, ModeInv
  <2>5. calm /\ chain => "iifname" \in rules'
    BY <2>2
    DEF NetInv, ModeInv, SkipRules, RulesPresent, InsertOifname, ModeEndsAs,
        EndsAs, modeVars
  <2> QED BY <2>2, <2>3, <2>4, <2>5 DEF AbcdReady
<1> QED BY <1>1, <1>2

(* What clean_lan ends with.                                               *)
LEMMA CleanLanReadyStep == NetInv /\ Next => CleanLanReady'
<1> SUFFICES ASSUME NetInv, Next, last'["c"].script = "clean_lan"
             PROVE  CleanLanReady'
  BY DEF CleanLanReady, Ended
<1>1. CASE last'["c"] = last["c"]
  <2>1. last["c"] # NoRun
    BY <1>1, NoRunIsNone
  <2>2. UNCHANGED modeVars /\ routes'["c"] = routes["c"]
    BY <1>1, <2>1, LinksStay, Hosts
  <2>3. Ended("c", "clean_lan")
    BY <1>1 DEF Ended
  <2> QED BY <2>2, <2>3 DEF NetInv, CleanLanReady, modeVars
<1>2. CASE last'["c"] # last["c"]
  <2>1. EndCleanLan
    BY <1>2, EndIsNew, EndingSays, NoRunIsNone, Hosts
  <2> QED
    BY <2>1
    DEF EndCleanLan, ModeEndsAs, EndsAs, NetInv, ModeInv, CleanLanReady,
        modeVars
<1> QED BY <1>1, <1>2

(* Every step of every script, every reboot and the operator keep it.      *)
LEMMA NetStep == NetInv /\ [Next]_vars => NetInv'
<1>1. NetInv /\ Next => NetInv'
  BY TypesStep, KeysStep, SetupStep, ModeInvStep, UpAsAskedStep,
     RerunRepairsStep, AbcdReadyStep, CleanLanReadyStep
  DEF NetInv
<1>2. NetInv /\ UNCHANGED vars => NetInv'
  <2> SUFFICES ASSUME NetInv, UNCHANGED vars PROVE NetInv'
    OBVIOUS
  <2> USE DEF vars, tunnelVars, diskVars, wgVars, runVars, modeVars, Ended
  <2>1. TypeOK'
    BY TypesStep DEF NetInv
  <2>2. KeysInv' /\ SetupInv'
    BY DEF NetInv, KeysInv, SetupInv, SetupSteps, WasSetUp, HasKeys,
           KeyUnstored
  <2>3. ModeInv'
    BY DEF NetInv, ModeInv
  <2>4. UpAsAsked' /\ RerunRepairs'
    BY DEF NetInv, UpAsAsked, RerunRepairs
  <2>5. AbcdReady' /\ CleanLanReady'
    BY DEF NetInv, AbcdReady, CleanLanReady
  <2> QED BY <2>1, <2>2, <2>3, <2>4, <2>5 DEF NetInv
<1> QED BY <1>1, <1>2

---------------------------------------------------------------------------
(* The types of files, interfaces, routes and runs.                        *)
THEOREM NetworkTypes == Spec => []TypeOK
<1>1. NetInv => TypeOK
  BY DEF NetInv
<1> QED BY <1>1, NetInit, NetStep, PTL DEF Spec

(* Keys once stored and shown stay, and two tunnels that setup_wg.sh       *)
(* brought up with them belong together, after any history of runs,        *)
(* reboots and key pairs stored by half.                                   *)
THEOREM TunnelsAgree == Spec => []TunnelAgrees
<1>1. NetInv => TunnelAgrees
  <2> SUFFICES ASSUME NetInv PROVE TunnelAgrees
    OBVIOUS
  <2>1. ASSUME NEW h \in Host, NEW k \in shown[h] \ unstored
        PROVE  priv[h] = k /\ pub[h] = k
    BY <2>1 DEF NetInv, KeysInv, HasKeys
  <2>2. ASSUME \A h \in Host : Ended(h, "setup") /\ last[h].arg \notin unstored,
               NEW h \in Host
        PROVE  wg[h].peer = wg[Other(h)].priv
    <3>1. Other(h) \in Host
      BY Hosts
    <3>2. /\ wg[h] = [priv |-> priv[h], peer |-> last[h].arg]
          /\ wg[Other(h)] =
               [priv |-> priv[Other(h)], peer |-> last[Other(h)].arg]
      BY <2>2, <3>1 DEF NetInv, UpAsAsked
    <3>3. last[h].arg \in shown[Other(h)] \ unstored
      BY <2>2 DEF NetInv, SetupInv, WasSetUp
    <3> QED BY <2>1, <3>1, <3>2, <3>3
  <2> QED BY <2>1, <2>2 DEF TunnelAgrees
<1> QED BY <1>1, NetInit, NetStep, PTL DEF Spec

(* A setup that ends well has put the tunnel up as it was asked to.        *)
THEOREM TunnelIsUpAsAsked == Spec => []UpAsAsked
<1>1. NetInv => UpAsAsked
  BY DEF NetInv
<1> QED BY <1>1, NetInit, NetStep, PTL DEF Spec

(* Whatever earlier runs left, a run of setup_wg.sh or pc_c_mode.sh in     *)
(* which nothing fails by itself does not end as failed.  apply_wg.sh is   *)
(* not meant: it may end as not applied.                                   *)
THEOREM RerunsRepair == Spec => []RerunRepairs
<1>1. NetInv => RerunRepairs
  BY DEF NetInv
<1> QED BY <1>1, NetInit, NetStep, PTL DEF Spec

(* After abcd PC c forwards into the tunnel.                               *)
THEOREM AbcdIsReady == Spec => []AbcdReady
<1>1. NetInv => AbcdReady
  BY DEF NetInv
<1> QED BY <1>1, NetInit, NetStep, PTL DEF Spec

(* After clean_lan nothing of PC c leads into the tunnel.                  *)
THEOREM CleanLanIsReady == Spec => []CleanLanReady
<1>1. NetInv => CleanLanReady
  BY DEF NetInv
<1> QED BY <1>1, NetInit, NetStep, PTL DEF Spec
=============================================================================
