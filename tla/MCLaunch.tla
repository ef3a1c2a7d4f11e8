------------------------------ MODULE MCLaunch ------------------------------
(***************************************************************************)
(* BenchOne for TLC.  Typed starts: every command line of up to MaxPhrases *)
(* phrases, the same on both machines, and either middleware.  Most        *)
(* phrases are a flag and its value; the others end the line early, lack   *)
(* their value or are a value by themselves, so that what follows them is  *)
(* read as something else.  Scripted starts: pairs of MCCalls.             *)
(***************************************************************************)
EXTENDS BenchOne, TLC

CONSTANTS MaxPhrases, Phrases

\* A phrase per way through the loop, and both answers of each check.
AllPhrases ==
  { << "--transport", "raw_udp" >>, << "--transport", "zenoh_p2p" >>,
    << "--transport", "zenoh_router" >>, << "--transport", "ros2_be" >>,
    << "--transport", "dds_unicast" >>, << "--transport", "tcp" >>,
    << "--router-ip", "10.0.0.1" >>, << "--router-ip", "" >>,
    << "--peer-ip", "" >>, << "--peer-port", "18001" >>,
    << "--local-port", "65536" >>, << "--rate-hz", "fast" >>,
    << "--num-threads", "18001" >>, << "--csv" >>, << "--busy-poll" >>,
    << "--help" >>, << "--verbose" >>, << "stray" >>, << "--role", "a" >>,
    << "--role", "b" >> }

Lines[n \in Nat] ==
  IF n = 0 THEN {<< >>}
  ELSE Lines[n - 1] \cup {l \o p : l \in Lines[n - 1], p \in Phrases}

\* Typed by hand, or prepared by somebody else.
MCStarts ==
  { [args |-> [r \in Role |-> line], rmw |-> [r \in Role |-> middleware]] :
      line \in Lines[MaxPhrases], middleware \in Rmw }

Call(role, transport, peer, duration, csv, middleware) ==
  [ role |-> role, transport |-> transport, peer |-> peer,
    duration |-> duration, csv |-> csv, rmw |-> middleware ]

\* Each middleware for each transport; each other argument given, left out
\* or wrong.
MCCalls ==
  { Call(role, transport, "10.0.0.2", "", "", middleware) :
      role \in {"a", "b", "c"}, transport \in TransportKind \cup {"tcp"},
      middleware \in Rmw \cup {Unset} }
  \cup
  { Call(role, "zenoh_p2p", peer, duration, "own.csv", Unset) :
      role \in {"a", "b"}, peer \in {"10.0.0.2", ""},
      duration \in {"", "5", "long"} }

MCWord == STRING

MCDefaultCsv ==
  [ <<role, transport>> \in {"a", "b"} \X TransportKind |->
      "bench_" \o role \o "_" \o transport \o ".csv" ]

MCNumberOf ==
  ("0" :> 0) @@ ("5" :> 5) @@ ("30" :> 30) @@ ("500" :> 500)
    @@ ("18000" :> 18000) @@ ("18001" :> 18001) @@ ("65536" :> 65536)

MCDashed == (Known \ {"-h"}) \cup {"--verbose"}
=============================================================================
