------------------------------- MODULE MCStats -------------------------------
(***************************************************************************)
(* StatsReport for TLC, in three scenarios that share their first    *)
(* states: many sends and few rows; one send and every order of a few peer *)
(* numbers; one send and many samples.                                     *)
(***************************************************************************)
EXTENDS StatsReport

MCCsvOutcomes == {TRUE, FALSE}

\* The ring of RingSize slots is overwritten, the numbers wrap.
RingScenario ==
  /\ Len(recv_log) <= 2
  /\ \A i \in DOMAIN recv_log : recv_log[i].peer_seq = 1

LossScenario ==
  /\ Len(send_log) <= 1
  /\ clock <= 1
  /\ \A i \in DOMAIN recv_log : recv_log[i].acked <= 1

\* Up to MaxRows samples, with every order of 0, 1 and 2 nanoseconds.
ReportScenario ==
  /\ Len(send_log) <= 1
  /\ \A i \in DOMAIN recv_log :
       recv_log[i].peer_seq = 1 /\ recv_log[i].acked <= 1

MCNext == Next /\ (RingScenario' \/ LossScenario' \/ ReportScenario')

MCSpec == Init /\ [][MCNext]_vars
=============================================================================
