------------------------ MODULE StatsRecorderProofs ------------------------
(***************************************************************************)
(* Facts about the operators of StatsRecorder, for every ring size: the    *)
(* arithmetic of the ring, and what each method of the class returns.      *)
(* StatsCallersProofs and BenchProofs rest on them.                        *)
(***************************************************************************)
EXTENDS StatsRecorder, WellFoundedInduction, TLAPS

---------------------------------------------------------------------------
(* The ring.                                                               *)

\* The ages of the sends that the ring has room for.
Age == 0 .. RingSize - 1

\* The slot that was written a sends before the latest, the head being at h.
SlotBehind(h, a) == IF a < h THEN h - 1 - a ELSE h - 1 - a + RingSize

(* A sequence number is followed by the next one, and the last one by 0:   *)
(* the ++my_seq of a uint32_t.                                             *)
LEMMA NextSeqWraps ==
  ASSUME NEW s \in Seqs
  PROVE  NextSeq(s) = IF s + 1 = NumSeqs THEN 0 ELSE s + 1
PROOF BY RingAssumption DEF Seqs, NextSeq

(* The head moves to the next slot, and from the last one to the first.    *)
LEMMA NextSlot ==
  ASSUME NEW h \in Slots
  PROVE  (h + 1) % RingSize = IF h + 1 = RingSize THEN 0 ELSE h + 1
PROOF BY RingAssumption DEF Slots

(* Every slot is behind the head by exactly one age.                       *)
LEMMA SlotsAreAges ==
  ASSUME NEW h \in Slots
  PROVE  /\ \A a \in Age : SlotBehind(h, a) \in Slots
         /\ \A a, b \in Age : SlotBehind(h, a) = SlotBehind(h, b) => a = b
         /\ \A i \in Slots : \E a \in Age : SlotBehind(h, a) = i
<1>1. RingSize \in Nat \ {0}
  BY RingAssumption
<1>2. ASSUME NEW i \in Slots PROVE \E a \in Age : SlotBehind(h, a) = i
  <2>1. CASE i < h
    <3>1. h - 1 - i \in Age /\ SlotBehind(h, h - 1 - i) = i
      BY <1>1, <2>1 DEF Age, Slots, SlotBehind
    <3> QED BY <3>1
  <2>2. CASE i >= h
    <3>1. /\ h - 1 - i + RingSize \in Age
          /\ SlotBehind(h, h - 1 - i + RingSize) = i
      BY <1>1, <2>2 DEF Age, Slots, SlotBehind
    <3> QED BY <3>1
  <2> QED BY <2>1, <2>2 DEF Slots
<1> QED BY <1>1, <1>2 DEF SlotBehind, Slots, Age

(* When the head moves on, the slot under it becomes the youngest and      *)
(* every other slot one age older.                                         *)
LEMMA HeadMoves ==
  ASSUME NEW h \in Slots
  PROVE  /\ (h + 1) % RingSize \in Slots
         /\ SlotBehind((h + 1) % RingSize, 0) = h
         /\ \A a \in Age \ {0} :
              /\ a - 1 \in Age
              /\ SlotBehind((h + 1) % RingSize, a) = SlotBehind(h, a - 1)
              /\ SlotBehind(h, a - 1) \in Slots \ {h}
<1> DEFINE next == (h + 1) % RingSize
<1>1. next = IF h + 1 = RingSize THEN 0 ELSE h + 1
  BY NextSlot
<1>2. RingSize \in Nat \ {0} /\ h \in Int /\ 0 <= h /\ h < RingSize
  BY RingAssumption DEF Slots
<1> HIDE DEF next
<1>3. next \in Slots /\ SlotBehind(next, 0) = h
  BY <1>1, <1>2 DEF Slots, SlotBehind
<1>4. ASSUME NEW a \in Age \ {0}
      PROVE  /\ a - 1 \in Age
             /\ SlotBehind(next, a) = SlotBehind(h, a - 1)
             /\ SlotBehind(h, a - 1) \in Slots \ {h}
  BY <1>1, <1>2 DEF Slots, SlotBehind, Age
<1> QED BY <1>3, <1>4 DEF next

---------------------------------------------------------------------------
(* The lookup.                                                             *)

(* The slots that match have a first one.                                  *)
LEMMA FirstMatchMatches ==
  ASSUME NEW st, NEW acked, Found(st, acked)
  PROVE  FirstMatch(st, acked) \in Matches(st, acked)
<1> DEFINE M == Matches(st, acked)
<1>1. M \subseteq Nat /\ M # {}
  BY RingAssumption DEF Matches, Slots, Found
<1>2. \E i \in M : \A j \in M : ~ (<< j, i >> \in OpToRel(<, Nat))
  <2> HIDE DEF M
  <2> QED BY <1>1, NatLessThanWellFounded, WFMin
<1>3. \E i \in M : \A j \in M : i <= j
  <2> HIDE DEF M
  <2>1. PICK i \in M : \A j \in M : ~ (<< j, i >> \in OpToRel(<, Nat))
    BY <1>2
  <2>2. ASSUME NEW j \in M PROVE i <= j
    <3>1. i \in Nat /\ j \in Nat
      BY <1>1
    <3>2. ~ (j < i)
      BY <2>1, <3>1 DEF OpToRel
    <3> QED BY <3>1, <3>2
  <2> QED BY <2>2
<1> QED BY <1>3 DEF FirstMatch

---------------------------------------------------------------------------
(* The methods.                                                            *)

(* The constructor returns a recorder.                                     *)
LEMMA NewRecorderIsRecorder ==
  ASSUME NEW opened \in BOOLEAN
  PROVE  /\ NewRecorder(opened) \in Recorder
         /\ NewRecorder(opened).ring_head \in Slots
<1>1. 0 \in Slots /\ 0 \in Seqs /\ << >> \in Seq(CsvRow) /\ << >> \in Seq(Int)
  BY RingAssumption DEF Slots, Seqs
<1>2. [i \in Slots |-> [own_seq |-> 0, send_ts_ns |-> 0]] \in [Slots -> SendRecord]
  BY <1>1 DEF SendRecord
<1> QED BY <1>1, <1>2 DEF NewRecorder, Recorder

(* on_send writes the slot at the head, moves the head and leaves the rest *)
(* of the recorder alone.                                                  *)
LEMMA OnSendWrites ==
  ASSUME NEW st \in Recorder, NEW s \in Seqs, NEW t \in Int
  PROVE  /\ OnSend(st, s, t) \in Recorder
         /\ OnSend(st, s, t).ring =
              [st.ring EXCEPT ![st.ring_head] = [own_seq |-> s, send_ts_ns |-> t]]
         /\ OnSend(st, s, t).ring_head = (st.ring_head + 1) % RingSize
         /\ OnSend(st, s, t).rtts_ns = st.rtts_ns
<1>1. (st.ring_head + 1) % RingSize \in Slots
  BY HeadMoves DEF Recorder
<1>2. [own_seq |-> s, send_ts_ns |-> t] \in SendRecord
  BY DEF SendRecord
<1> QED BY <1>1, <1>2 DEF OnSend, Recorder

(* The two numbers that on_recv computes for a row.                        *)
LEMMA RowIsTyped ==
  ASSUME NEW st \in Recorder, NEW t \in Int, NEW s \in Seqs, NEW acked \in Seqs
  PROVE  ComputedRtt(st, t, acked) \in Int /\ InferredLoss(st, s) \in Nat
<1>1. ComputedRtt(st, t, acked) \in Int
  <2>1. CASE Found(st, acked)
    <3>1. FirstMatch(st, acked) \in Slots
      BY <2>1, FirstMatchMatches DEF Matches
    <3>2. st.ring[FirstMatch(st, acked)].send_ts_ns \in Int
      BY <3>1 DEF Recorder, SendRecord
    <3> QED BY <2>1, <3>2 DEF ComputedRtt
  <2>2. CASE ~ Found(st, acked)
    BY <2>2 DEF ComputedRtt, NoRtt
  <2> QED BY <2>1, <2>2
<1>2. InferredLoss(st, s) \in Nat
  BY NextSeqWraps, RingAssumption DEF InferredLoss, Recorder, Seqs
<1> QED BY <1>1, <1>2

(* on_recv leaves the ring alone and takes at most one sample, the time    *)
(* since the send in the first slot that matches.                          *)
LEMMA OnRecvTakesSample ==
  ASSUME NEW st \in Recorder, NEW t \in Int, NEW s \in Seqs, NEW acked \in Seqs
  PROVE  /\ OnRecv(st, t, s, acked) \in Recorder
         /\ OnRecv(st, t, s, acked).ring = st.ring
         /\ OnRecv(st, t, s, acked).ring_head = st.ring_head
         /\ OnRecv(st, t, s, acked).rtts_ns =
              IF Found(st, acked)
              THEN Append(st.rtts_ns,
                          t - st.ring[FirstMatch(st, acked)].send_ts_ns)
              ELSE st.rtts_ns
<1>1. ComputedRtt(st, t, acked) \in Int /\ InferredLoss(st, s) \in Nat
  BY RowIsTyped
<1>2. [ peer_seq |-> s, peer_acked_own_seq |-> acked,
        computed_rtt_ns |-> ComputedRtt(st, t, acked),
        inferred_loss |-> InferredLoss(st, s) ] \in CsvRow
  BY <1>1 DEF CsvRow
<1>3. /\ st.loss_count + InferredLoss(st, s) \in Nat
      /\ st.row_count + 1 \in Nat
  BY <1>1 DEF Recorder
<1>4. Found(st, acked) =>
        ComputedRtt(st, t, acked) =
          t - st.ring[FirstMatch(st, acked)].send_ts_ns
  BY DEF ComputedRtt
<1> DEFINE rtt  == ComputedRtt(st, t, acked)
           loss == InferredLoss(st, s)
           row  == [ peer_seq |-> s, peer_acked_own_seq |-> acked,
                     computed_rtt_ns |-> rtt, inferred_loss |-> loss ]
           rtts == IF Found(st, acked) THEN Append(st.rtts_ns, rtt)
                                       ELSE st.rtts_ns
           rows == IF st.csv_open THEN Append(st.csv, row) ELSE st.csv
<1>5. rtts \in Seq(Int) /\ rows \in Seq(CsvRow)
  BY <1>1, <1>2 DEF Recorder
<1>6. OnRecv(st, t, s, acked) =
        [st EXCEPT !.loss_count = st.loss_count + loss,
                   !.last_peer_seq_seen = s, !.any_peer_seq = TRUE,
                   !.rtts_ns = rtts, !.csv = rows,
                   !.row_count = st.row_count + 1]
  BY DEF OnRecv
<1>7. rtts = IF Found(st, acked)
             THEN Append(st.rtts_ns,
                         t - st.ring[FirstMatch(st, acked)].send_ts_ns)
             ELSE st.rtts_ns
  BY <1>4
<1> HIDE DEF rtts, rows, loss
<1>8. OnRecv(st, t, s, acked) \in Recorder
  BY <1>3, <1>5, <1>6 DEF Recorder, loss
<1>9. /\ OnRecv(st, t, s, acked).ring = st.ring
      /\ OnRecv(st, t, s, acked).ring_head = st.ring_head
      /\ OnRecv(st, t, s, acked).rtts_ns = rtts
  BY <1>6 DEF Recorder
<1> QED BY <1>7, <1>8, <1>9
=============================================================================
