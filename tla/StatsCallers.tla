---------------------------- MODULE StatsCallers ----------------------------
(***************************************************************************)
(* One StatsRecorder and everything its callers can do to it: the send     *)
(* loop of run() records consecutive sequence numbers with the time of the *)
(* send, and the receive callback reports whatever the network delivers -  *)
(* any peer sequence number, in any order, lost or repeated, acknowledging *)
(* any of our sequence numbers.  The time stamp of an inbound message is   *)
(* taken before the recorder is locked, so it may lag behind the clock and *)
(* even behind a send that the recorder already knows.                     *)
(*                                                                         *)
(* stats and my_seq are the program's state.  clock stands for the         *)
(* monotonic clock.  send_log and recv_log are histories: they record the  *)
(* calls, no action reads them, and the properties compare the recorder    *)
(* with them.                                                              *)
(***************************************************************************)
EXTENDS StatsRecorder, FiniteSets

CONSTANTS
  MaxSends,    \* bound: sends recorded
  MaxRows,     \* bound: inbound messages
  MaxClock,    \* bound: time
  MaxPeerSeq,  \* bound: the peer's sequence numbers are 1..MaxPeerSeq
  MaxAcked,    \* bound: those they acknowledge are 0..MaxAcked
  CsvOutcomes  \* which results of opening the CSV file are considered

ASSUME CallersAssumption ==
  /\ MaxSends \in Nat /\ MaxRows \in Nat /\ MaxClock \in Nat
  /\ MaxPeerSeq \in Seqs /\ MaxAcked \in Seqs
  /\ CsvOutcomes \subseteq BOOLEAN

VARIABLES stats, my_seq, clock, send_log, recv_log

vars == << stats, my_seq, clock, send_log, recv_log >>

PeerSeqs == 1 .. MaxPeerSeq

Inbound == [recv_ts_ns : Int, peer_seq : PeerSeqs, acked : Seqs]

Init ==
  /\ stats \in {NewRecorder(opened) : opened \in CsvOutcomes}
  /\ my_seq = 0
  /\ clock = 0
  /\ send_log = << >>
  /\ recv_log = << >>

Tick ==
  /\ clock < MaxClock
  /\ clock' = clock + 1
  /\ UNCHANGED << stats, my_seq, send_log, recv_log >>

(* The send loop: ++my_seq, then on_send(my_seq, now).                     *)
RecordSend ==
  /\ Len(send_log) < MaxSends
  /\ my_seq' = NextSeq(my_seq)
  /\ stats' = OnSend(stats, my_seq', clock)
  /\ send_log' = Append(send_log, [own_seq |-> my_seq', send_ts_ns |-> clock])
  /\ UNCHANGED << clock, recv_log >>

(* The receive callback: on_recv for one delivered message.                *)
RecordRecv(m) ==
  /\ Len(recv_log) < MaxRows
  /\ stats' = OnRecv(stats, m.recv_ts_ns, m.peer_seq, m.acked)
  /\ recv_log' = Append(recv_log, m)
  /\ UNCHANGED << my_seq, clock, send_log >>

Deliverable ==
  [recv_ts_ns : 0 .. clock, peer_seq : PeerSeqs, acked : 0 .. MaxAcked]

Next ==
  \/ Tick
  \/ RecordSend
  \/ \E m \in Deliverable : RecordRecv(m)

Spec == Init /\ [][Next]_vars

---------------------------------------------------------------------------
TypeOK ==
  /\ stats \in Recorder
  /\ my_seq \in Seqs
  /\ clock \in Nat
  /\ send_log \in Seq(SendRecord)
  /\ recv_log \in Seq(Inbound)

---------------------------------------------------------------------------
(* The ring against the log of sends.                                      *)

\* How many sends the ring still holds.
Kept == IF Len(send_log) < RingSize THEN Len(send_log) ELSE RingSize

\* The send of age 0 is the latest one; older ones lie behind the head.
SlotOfAge(a) ==
  IF a < stats.ring_head THEN stats.ring_head - 1 - a
                         ELSE stats.ring_head - 1 - a + RingSize

\* The sequence number that was sent a sends ago.
SeqOfAge(a) == IF a <= my_seq THEN my_seq - a ELSE my_seq - a + NumSeqs

(* The ring is a sliding window: going back from the head its slots hold   *)
(* the latest sends, latest first, and the slots not yet written hold the  *)
(* record {0, 0} of the constructor.  The sequence numbers of the window   *)
(* count down from my_seq, across the wrap of uint32_t too.  This is what  *)
(* ring_[ring_head_] = ... and the % of on_send are meant to keep.         *)
RingHoldsWindow ==
  /\ \A a \in 0 .. Kept - 1 :
       /\ stats.ring[SlotOfAge(a)] = send_log[Len(send_log) - a]
       /\ send_log[Len(send_log) - a].own_seq = SeqOfAge(a)
  /\ \A a \in Kept .. RingSize - 1 :
       stats.ring[SlotOfAge(a)] = [own_seq |-> 0, send_ts_ns |-> 0]
  /\ Len(send_log) < RingSize => my_seq = Len(send_log)

\* The latest send that carried the sequence number s, within the window.
SentInWindow(s) ==
  {k \in 1 .. Len(send_log) :
     k + RingSize > Len(send_log) /\ send_log[k].own_seq = s}

(* The lookup of on_recv answers as if the recorder had kept every send:   *)
(* an acknowledged number is found exactly when one of the latest RingSize *)
(* sends carried it, and the slot found is the record of the only such     *)
(* send.  A slot overwritten too early, a stale one that survives, or two  *)
(* live slots with one number (a ring longer than the number space) break  *)
(* it.                                                                     *)
LookupExact ==
  \A s \in Seqs \ {0} :
    /\ Found(stats, s) <=> SentInWindow(s) # {}
    /\ \A k \in SentInWindow(s) :
         /\ SentInWindow(s) = {k}
         /\ stats.ring[FirstMatch(stats, s)] = send_log[k]

---------------------------------------------------------------------------
(* Loss against the log of deliveries.                                     *)

Arrived == {recv_log[i].peer_seq : i \in DOMAIN recv_log}

\* The peer's numbers up to s, from the first one heard, that never came.
MissingUpTo(s) ==
  IF recv_log = << >> THEN {}
  ELSE (recv_log[1].peer_seq .. s) \ Arrived

InOrder ==
  \A i \in DOMAIN recv_log :
    i > 1 => recv_log[i - 1].peer_seq < recv_log[i].peer_seq

(* However messages are lost, repeated or reordered, the loss total never  *)
(* falls below the number of messages that are really missing between the  *)
(* first number heard and any later one that arrived.  It may exceed it: a *)
(* late message moves last_peer_seq_seen_ back and the gap is counted      *)
(* again.                                                                  *)
LossNeverUnderReported ==
  \A s \in Arrived : Cardinality(MissingUpTo(s)) <= stats.loss_count

(* On a stream that loses messages and does nothing worse, the total is    *)
(* exact.                                                                  *)
LossExactInOrder ==
  InOrder /\ recv_log # << >> =>
    stats.loss_count =
      Cardinality(MissingUpTo(recv_log[Len(recv_log)].peer_seq))

---------------------------------------------------------------------------
(* The recorder implements the abstract meter: its ring forgets nothing    *)
(* that the meter still needs and remembers nothing it must not.           *)
Meter == INSTANCE RttMeter WITH Window <- RingSize, sends <- send_log,
                                recvs <- recv_log, samples <- stats.rtts_ns

MeterSpec == Meter!Spec
=============================================================================
