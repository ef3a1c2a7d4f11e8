-------------------------- MODULE TransportContract --------------------------
(***************************************************************************)
(* class Transport (transport.hpp) as its user sees it.  The threads of a  *)
(* transport are inside the receive callback only between the call of      *)
(* start() and the return of stop(): run() gives the callback references   *)
(* to its own local variables, so a callback outside this time would use   *)
(* them after their end.                                                   *)
(*                                                                         *)
(* RawUdpTransport and Ros2Transport implement this module; Bench relies   *)
(* on it.                                                                  *)
(***************************************************************************)
CONSTANT Thread

VARIABLES
  phase,    \* "down", "up", or "stopping" while stop() runs
  inside    \* the threads that are inside the receive callback

contractVars == << phase, inside >>

Init ==
  /\ phase = "down"
  /\ inside = {}

\* start(); when it fails nothing is to be seen of it.
Start ==
  /\ phase = "down"
  /\ phase' = "up"
  /\ UNCHANGED inside

EnterCallback ==
  /\ phase # "down"
  /\ \E t \in Thread \ inside : inside' = inside \cup {t}
  /\ UNCHANGED phase

LeaveCallback ==
  /\ \E t \in inside : inside' = inside \ {t}
  /\ UNCHANGED phase

StopBegins ==
  /\ phase = "up"
  /\ phase' = "stopping"
  /\ UNCHANGED inside

StopReturns ==
  /\ phase = "stopping"
  /\ inside = {}
  /\ phase' = "down"
  /\ UNCHANGED inside

Next == Start \/ EnterCallback \/ LeaveCallback \/ StopBegins \/ StopReturns

Spec == Init /\ [][Next]_contractVars
=============================================================================
