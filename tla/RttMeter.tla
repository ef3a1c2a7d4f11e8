------------------------------ MODULE RttMeter ------------------------------
(***************************************************************************)
(* What a StatsRecorder promises about round trips, stated without its     *)
(* ring: of everything ever sent, the latest Window sends can still be     *)
(* acknowledged (stats.hpp: "a small ring of {own_seq -> send_ts_ns}       *)
(* entries ... without unbounded memory growth"), and an inbound message   *)
(* yields one sample, measured from that very send, exactly when the       *)
(* sequence number it acknowledges is one of those.  Sequence number 0     *)
(* acknowledges nothing.                                                   *)
(*                                                                         *)
(* StatsCallers implements this module with a ring of Window slots.        *)
(***************************************************************************)
EXTENDS Integers, Sequences

CONSTANT Window

VARIABLES
  sends,    \* every send so far, as [own_seq, send_ts_ns]
  recvs,    \* every inbound message so far, as [recv_ts_ns, peer_seq, acked]
  samples   \* the round-trip samples taken so far

meterVars == << sends, recvs, samples >>

Init ==
  /\ sends = << >>
  /\ recvs = << >>
  /\ samples = << >>

\* Positions in the log s of the sends that can still be acknowledged.
Acknowledgeable(s) == {k \in 1 .. Len(s) : k + Window > Len(s)}

\* Those of them that carry the sequence number acked.
Acknowledged(s, acked) ==
  {k \in Acknowledgeable(s) : acked # 0 /\ s[k].own_seq = acked}

Send ==
  /\ Len(sends') = Len(sends) + 1
  /\ sends' = Append(sends, sends'[Len(sends) + 1])
  /\ UNCHANGED << recvs, samples >>

Recv ==
  /\ Len(recvs') = Len(recvs) + 1
  /\ LET m == recvs'[Len(recvs) + 1]
     IN  /\ recvs' = Append(recvs, m)
         /\ \/ /\ Acknowledged(sends, m.acked) = {}
               /\ UNCHANGED samples
            \/ \E k \in Acknowledged(sends, m.acked) :
                 /\ Acknowledged(sends, m.acked) = {k}
                 /\ samples' =
                      Append(samples, m.recv_ts_ns - sends[k].send_ts_ns)
  /\ UNCHANGED sends

Next == Send \/ Recv

Spec == Init /\ [][Next]_meterVars
=============================================================================
