--------------------------- MODULE StatsRecorder ---------------------------
(***************************************************************************)
(* class StatsRecorder (stats.hpp, stats.cpp) as a value.  Every method    *)
(* holds mtx_ for its whole body, so a call is one atomic step and is      *)
(* written here as an operator from the recorder before the call to the    *)
(* recorder after it.  StatsCallers lets arbitrary callers drive one       *)
(* recorder, Bench gives one to each of the two processes.                 *)
(*                                                                         *)
(* Left out: the text of the CSV and of the summary line, and the column   *)
(* peer_send_ts_ns, which is copied and never used.                        *)
(***************************************************************************)
EXTENDS Integers, Sequences

CONSTANTS
  RingSize,   \* ring_size, 65536 unless the constructor is told otherwise
  NumSeqs     \* 2^32: sequence numbers are uint32_t

ASSUME RingAssumption ==
  /\ RingSize \in Nat \ {0}
  /\ NumSeqs \in Nat
  /\ RingSize < NumSeqs

Slots == 0 .. RingSize - 1

Seqs == 0 .. NumSeqs - 1

NextSeq(s) == (s + 1) % NumSeqs

SendRecord == [own_seq : Seqs, send_ts_ns : Int]

\* computed_rtt_ns of a row whose acknowledgement matches no ring slot.
NoRtt == -1

CsvRow == [ peer_seq : Seqs, peer_acked_own_seq : Seqs,
            computed_rtt_ns : Int, inferred_loss : Nat ]

Recorder ==
  [ ring : [Slots -> SendRecord], ring_head : Slots,
    row_count : Nat, rtts_ns : Seq(Int),
    last_peer_seq_seen : Seqs, any_peer_seq : BOOLEAN, loss_count : Nat,
    csv_open : BOOLEAN, csv : Seq(CsvRow) ]

(* The constructor.  A CSV file that cannot be opened only disables the    *)
(* CSV; the recorder works without it.                                     *)
NewRecorder(csv_open) ==
  [ ring |-> [i \in Slots |-> [own_seq |-> 0, send_ts_ns |-> 0]],
    ring_head |-> 0,
    row_count |-> 0, rtts_ns |-> << >>,
    last_peer_seq_seen |-> 0, any_peer_seq |-> FALSE, loss_count |-> 0,
    csv_open |-> csv_open, csv |-> << >> ]

---------------------------------------------------------------------------
(* on_send: overwrite the oldest slot.                                     *)

\* Variant: the head wraps one slot early.
OnSendWrapEarly(st, own_seq, send_ts_ns) ==
  [st EXCEPT !.ring[st.ring_head] =
               [own_seq |-> own_seq, send_ts_ns |-> send_ts_ns],
             !.ring_head = IF @ + 2 >= RingSize THEN 0 ELSE @ + 1]

\* Variant: the ring sticks once its last slot is written.
OnSendSticks(st, own_seq, send_ts_ns) ==
  [st EXCEPT !.ring[st.ring_head] =
               [own_seq |-> own_seq, send_ts_ns |-> send_ts_ns],
             !.ring_head = IF @ + 1 = RingSize THEN @ ELSE @ + 1]

OnSend(st, own_seq, send_ts_ns) ==
  [st EXCEPT !.ring[st.ring_head] =
               [own_seq |-> own_seq, send_ts_ns |-> send_ts_ns],
             !.ring_head = (@ + 1) % RingSize]

---------------------------------------------------------------------------
(* on_recv: gap in the inbound stream, then the RTT lookup, then the row.  *)

\* Variant: the first arrival is measured against sequence number 0.
InferredLossFromZero(st, peer_seq) ==
  LET expected == NextSeq(st.last_peer_seq_seen)
  IN  IF peer_seq > expected THEN peer_seq - expected ELSE 0

\* Variant: a gap counts as one loss however wide it is.
InferredLossOnce(st, peer_seq) ==
  IF st.any_peer_seq /\ peer_seq > NextSeq(st.last_peer_seq_seen)
  THEN 1 ELSE 0

InferredLoss(st, peer_seq) ==
  LET expected == NextSeq(st.last_peer_seq_seen)
  IN  IF st.any_peer_seq /\ peer_seq > expected
      THEN peer_seq - expected
      ELSE 0

Matches(st, acked) == {i \in Slots : st.ring[i].own_seq = acked}

\* Variant: sequence number 0, "nothing received yet", is looked up too.
FoundZero(st, acked) == Matches(st, acked) # {}

\* Sequence number 0 means that the peer has received nothing yet.
Found(st, acked) == acked # 0 /\ Matches(st, acked) # {}

\* The scan of ring_ stops at the first match.
FirstMatch(st, acked) ==
  CHOOSE i \in Matches(st, acked) : \A j \in Matches(st, acked) : i <= j

ComputedRtt(st, recv_ts_ns, acked) ==
  IF Found(st, acked)
  THEN recv_ts_ns - st.ring[FirstMatch(st, acked)].send_ts_ns
  ELSE NoRtt

\* Variant: the row carries the running total instead of its own gap.
OnRecvRowHasTotal(st, recv_ts_ns, peer_seq, acked) ==
  LET loss_now == InferredLoss(st, peer_seq)
      rtt      == ComputedRtt(st, recv_ts_ns, acked)
      row      == [ peer_seq |-> peer_seq, peer_acked_own_seq |-> acked,
                    computed_rtt_ns |-> rtt,
                    inferred_loss |-> st.loss_count + loss_now ]
  IN  [st EXCEPT
         !.loss_count = @ + loss_now,
         !.last_peer_seq_seen = peer_seq,
         !.any_peer_seq = TRUE,
         !.rtts_ns = IF Found(st, acked) THEN Append(@, rtt) ELSE @,
         !.csv = IF st.csv_open THEN Append(@, row) ELSE @,
         !.row_count = @ + 1]

OnRecv(st, recv_ts_ns, peer_seq, acked) ==
  LET loss_now == InferredLoss(st, peer_seq)
      rtt      == ComputedRtt(st, recv_ts_ns, acked)
      row      == [ peer_seq |-> peer_seq, peer_acked_own_seq |-> acked,
                    computed_rtt_ns |-> rtt, inferred_loss |-> loss_now ]
  IN  [st EXCEPT
         !.loss_count = @ + loss_now,
         !.last_peer_seq_seen = peer_seq,
         !.any_peer_seq = TRUE,
         !.rtts_ns = IF Found(st, acked) THEN Append(@, rtt) ELSE @,
         !.csv = IF st.csv_open THEN Append(@, row) ELSE @,
         !.row_count = @ + 1]
=============================================================================
