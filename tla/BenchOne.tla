------------------------------ MODULE BenchOne ------------------------------
(***************************************************************************)
(* scripts/bench_one.sh: one call of the script on one machine.  It checks *)
(* its arguments, chooses the middleware, writes the flags of the          *)
(* transport and starts bench_a or bench_b.  A call is a record of the     *)
(* arguments, "" for one that is left out, and the caller's                *)
(* RMW_IMPLEMENTATION.  The address is one word: the script does not quote *)
(* it, so one with a blank would be several.                               *)
(***************************************************************************)
EXTENDS Launch

CONSTANTS
  Calls,
  DefaultCsv   \* bench_<role>_<transport>.csv in the home directory

(* The numerals of the script are numbers, and its ports fit a port.       *)
ASSUME NumeralsAssumption ==
  /\ {"500", "18000", "18001"} \subseteq DOMAIN NumberOf
  /\ NumberOf["18000"] = 18000 /\ NumberOf["18001"] = 18001
  /\ PortRange > 18001

VARIABLE call   \* the calls of the script, if it was used

Unset == ""

ASSUME CallsAssumption ==
  /\ {"30", "500", "18000", "18001"} \subseteq Word
  /\ \A c \in Calls :
       /\ {c.role, c.transport, c.peer, c.duration, c.csv} \subseteq Word
       /\ c.rmw \in Rmw \cup {Unset}
  /\ DefaultCsv \in [{"a", "b"} \X TransportKind -> Word]

\* Variant: an empty address is passed on.
RefusedIfUnknown(c) ==
  c.role \notin {"a", "b"} \/ c.transport \notin TransportKind

\* The script prints what is wrong and starts nothing.
Refused(c) ==
  \/ c.role \notin {"a", "b"} \/ c.peer = ""
  \/ c.transport \notin TransportKind

Duration(c) == IF c.duration = "" THEN "30" ELSE c.duration

Csv(c) ==
  IF c.csv = "" THEN DefaultCsv[c.role, c.transport] ELSE c.csv

DefaultRmw(transport) ==
  IF transport = "dds_unicast" THEN "rmw_fastrtps_cpp" ELSE "rmw_zenoh_cpp"

\* Variant: the caller's middleware is kept, whatever the transport.
ScriptRmwAsCalled(c) ==
  IF c.rmw = Unset THEN DefaultRmw(c.transport) ELSE c.rmw

\* The caller's middleware is kept, except that dds_unicast has only one.
ScriptRmw(c) ==
  IF c.rmw = Unset \/ c.transport = "dds_unicast"
  THEN DefaultRmw(c.transport) ELSE c.rmw

\* Variant: the ports do not depend on the role.
UdpPortsOfA(c) == << "--local-port", "18000", "--peer-port", "18001" >>

UdpPorts(c) ==
  IF c.role = "a" THEN << "--local-port", "18000", "--peer-port", "18001" >>
                  ELSE << "--local-port", "18001", "--peer-port", "18000" >>

Extra(c) ==
  CASE c.transport = "raw_udp" -> << "--peer-ip", c.peer >> \o UdpPorts(c)
    [] c.transport \in {"zenoh_p2p", "dds_unicast"} ->
         << "--peer-ip", c.peer >>
    [] c.transport = "zenoh_router" -> << "--router-ip", c.peer >>
    [] OTHER -> << >>

ScriptArgs(c) ==
  << "--transport", c.transport >> \o Extra(c) \o
  << "--rate-hz", "500", "--duration-sec", Duration(c), "--csv", Csv(c) >>

\* BIN: bench_a or bench_b.
Program(c) == IF c.role = "a" THEN "A" ELSE "B"

NotCalled == << >>

\* One call for each program, of one transport, neither of them refused.
CallPairs ==
  { pair \in [Role -> {c \in Calls : ~ Refused(c)}] :
      /\ \A r \in Role : Program(pair[r]) = r
      /\ pair["A"].transport = pair["B"].transport }

\* The programs are started by the script, or by hand.
ScriptInit ==
  \/ /\ call \in CallPairs
     /\ Begin([r \in Role |-> ScriptArgs(call[r])],
              [r \in Role |-> ScriptRmw(call[r])])
  \/ /\ call = NotCalled
     /\ Init

ScriptNext == Next /\ UNCHANGED call

ScriptSpec == ScriptInit /\ [][ScriptNext]_<< vars, call >>

---------------------------------------------------------------------------
Called == call # NotCalled

TakesPeer == {"raw_udp", "zenoh_p2p", "dds_unicast"}

(* What the script takes is not turned down by the program, but for a      *)
(* duration that is no number; and the transport, the address, the         *)
(* duration and the CSV the program runs with are those of the call.       *)
ScriptIsTaken ==
  \A r \in Role : Called /\ Ended(r) =>
    IF Duration(call[r]) \in DOMAIN NumberOf
    THEN /\ at[r] \in {"up", "no ros"}
         /\ cfg[r].transport = call[r].transport
         /\ cfg[r].number["--duration-sec"] = NumberOf[Duration(call[r])]
         /\ cfg[r].text["--csv"] = Csv(call[r])
         /\ call[r].transport \in TakesPeer =>
              cfg[r].text["--peer-ip"] = call[r].peer
         /\ call[r].transport = "zenoh_router" =>
              cfg[r].text["--router-ip"] = call[r].peer
    ELSE at[r] = "failed"

(* "Per-transport flags": two calls for one transport, one per role, give  *)
(* two ends that send to each other, over one middleware unless the two    *)
(* callers chose different ones.                                           *)
ScriptEndsMeet ==
  Called /\ (\A r \in Role : at[r] = "up") =>
    /\ MeetEachOther
    /\ call["A"].transport = "dds_unicast" \/ call["A"].rmw = call["B"].rmw
         => rmw["A"] = rmw["B"]

(* "dds_unicast requires Fast DDS RMW to honor the XML profile we write;   *)
(* other transports default to Zenoh": a run started by the script, with   *)
(* no other middleware asked for, uses the session of its transport and    *)
(* the address it was called with.                                         *)
ScriptHonoursSession ==
  \A r \in Role :
    /\ Called /\ at[r] = "up" /\ session[r] # Unwritten
    /\ call[r].rmw = Unset \/ call[r].transport = "dds_unicast"
    => /\ ros_session[r] = SessionFile(cfg[r])
       /\ ros_session[r] # NoConfig => ros_session[r].connect = call[r].peer
=============================================================================
