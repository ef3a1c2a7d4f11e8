------------------------- MODULE StatsCallersProofs -------------------------
(***************************************************************************)
(* What holds of the StatsRecorder for every ring size, every width of the *)
(* sequence numbers and every history of calls.                            *)
(*                                                                         *)
(* The argument has one idea, the age of a send: the send of age a was     *)
(* made a sends ago.  While a is below RingSize, ages correspond one to    *)
(* one to slots (SlotOfAge) and, the ring being shorter than the number    *)
(* space, one to one to sequence numbers (SeqOfAge).  RingHoldsWindow says *)
(* that the slot of age a holds the send of age a, and it is inductive     *)
(* together with the types: on_send shifts all ages by one and on_recv     *)
(* leaves the ring alone.  That the lookup is exact, and with it that the  *)
(* recorder implements the meter, follows.  Loss has an invariant of its   *)
(* own, LossInv.                                                           *)
(***************************************************************************)
EXTENDS StatsCallers, StatsRecorderProofs, FiniteSetTheorems

(* Every slot is the slot of exactly one age.                              *)
LEMMA SlotsAndAges ==
  ASSUME TypeOK
  PROVE  /\ \A a \in Age : SlotOfAge(a) \in Slots
         /\ \A a, b \in Age : SlotOfAge(a) = SlotOfAge(b) => a = b
         /\ \A i \in Slots : \E a \in Age : SlotOfAge(a) = i
<1>1. stats.ring_head \in Slots
  BY DEF TypeOK, Recorder
<1>2. \A a : SlotOfAge(a) = SlotBehind(stats.ring_head, a)
  BY DEF SlotOfAge, SlotBehind
<1> QED BY <1>1, <1>2, SlotsAreAges

(* Sends of different age carry different sequence numbers, because the    *)
(* ring is shorter than the number space.                                  *)
LEMMA AgesHaveDistinctSeqs ==
  ASSUME TypeOK
  PROVE  \A a, b \in Age : SeqOfAge(a) = SeqOfAge(b) => a = b
PROOF BY RingAssumption DEF TypeOK, SeqOfAge, Age, Seqs

(* The written slots and the others make up all ages.                      *)
LEMMA KeptIsAge ==
  ASSUME TypeOK
  PROVE  /\ Kept \in Nat /\ Kept <= RingSize /\ Kept <= Len(send_log)
         /\ Len(send_log) \in Nat
         /\ 0 .. Kept - 1 \subseteq Age
         /\ Kept .. RingSize - 1 \subseteq Age
PROOF BY RingAssumption DEF TypeOK, Kept, Age

(* Where the window is as it should be, the linear scan of on_recv finds   *)
(* an acknowledged number exactly when a send of the window carried it,    *)
(* and it finds that send.                                                 *)
LEMMA LookupIsExact ==
  ASSUME TypeOK, RingHoldsWindow, NEW s \in Seqs \ {0}
  PROVE  /\ Found(stats, s) <=> SentInWindow(s) # {}
         /\ \A k \in SentInWindow(s) :
              /\ SentInWindow(s) = {k}
              /\ FirstMatch(stats, s) \in Slots
              /\ stats.ring[FirstMatch(stats, s)] = send_log[k]
<1>1. ASSUME NEW i \in Matches(stats, s)
      PROVE  \E k \in SentInWindow(s) : i = SlotOfAge(Len(send_log) - k)
  <2>1. PICK a \in Age : SlotOfAge(a) = i
    BY SlotsAndAges DEF Matches
  <2>2. a < Kept
    BY <2>1, KeptIsAge DEF RingHoldsWindow, Matches, Age
  <2>3. Len(send_log) - a \in SentInWindow(s)
    <3>1. a \in 0 .. Kept - 1
      BY <2>2, KeptIsAge DEF Age
    <3>2. send_log[Len(send_log) - a].own_seq = s
      BY <2>1, <3>1 DEF RingHoldsWindow, Matches
    <3>3. /\ Len(send_log) - a \in 1 .. Len(send_log)
          /\ Len(send_log) - a + RingSize > Len(send_log)
      BY <3>1, KeptIsAge, RingAssumption
    <3> QED BY <3>2, <3>3 DEF SentInWindow
  <2> QED
    BY <2>1, <2>3, KeptIsAge DEF Age
<1>2. ASSUME NEW k \in SentInWindow(s)
      PROVE  /\ Len(send_log) - k \in 0 .. Kept - 1
             /\ SeqOfAge(Len(send_log) - k) = s
             /\ stats.ring[SlotOfAge(Len(send_log) - k)] = send_log[k]
             /\ SlotOfAge(Len(send_log) - k) \in Matches(stats, s)
  <2>1. Len(send_log) - k \in 0 .. Kept - 1
    BY KeptIsAge, RingAssumption DEF SentInWindow, Kept
  <2>2. Len(send_log) - (Len(send_log) - k) = k
    BY KeptIsAge DEF SentInWindow
  <2> QED
    BY <2>1, <2>2, KeptIsAge, SlotsAndAges
    DEF RingHoldsWindow, SentInWindow, Matches
<1>3. ASSUME NEW k \in SentInWindow(s)
      PROVE  /\ SentInWindow(s) = {k}
             /\ Matches(stats, s) = {SlotOfAge(Len(send_log) - k)}
  <2>1. ASSUME NEW j \in SentInWindow(s) PROVE j = k
    <3>1. Len(send_log) - j = Len(send_log) - k
      BY <1>2, KeptIsAge, AgesHaveDistinctSeqs
    <3> QED BY <3>1, KeptIsAge DEF SentInWindow
  <2> QED BY <1>1, <1>2, <2>1
<1>4. ASSUME NEW k \in SentInWindow(s)
      PROVE  FirstMatch(stats, s) = SlotOfAge(Len(send_log) - k)
  <2>1. SlotOfAge(Len(send_log) - k) \in Int
    BY <1>2, RingAssumption DEF Matches, Slots
  <2> QED BY <1>3, <2>1 DEF FirstMatch
<1> QED
  BY <1>1, <1>2, <1>3, <1>4 DEF Found, Matches

---------------------------------------------------------------------------
(* Each call keeps the types and the window.                               *)

\* The inductive invariant of the ring.
RingInv == TypeOK /\ RingHoldsWindow

(* The constructor leaves a recorder that has sent nothing.                *)
LEMMA RingInit == Init => RingInv
<1> SUFFICES ASSUME Init PROVE RingInv
  OBVIOUS
<1>1. PICK opened \in BOOLEAN : stats = NewRecorder(opened)
  BY CallersAssumption DEF Init
<1>2. TypeOK
  <2>1. NewRecorder(opened) \in Recorder
    BY NewRecorderIsRecorder
  <2>2. 0 \in Seqs /\ << >> \in Seq(SendRecord) /\ << >> \in Seq(Inbound)
    BY RingAssumption DEF Seqs
  <2> QED BY <1>1, <2>1, <2>2 DEF Init, TypeOK
<1>3. Kept = 0
  BY RingAssumption DEF Init, Kept
<1>4. RingHoldsWindow
  <2>1. \A a \in Age : stats.ring[SlotOfAge(a)] = [own_seq |-> 0, send_ts_ns |-> 0]
    BY <1>1, <1>2, SlotsAndAges DEF NewRecorder
  <2> QED BY <1>3, <2>1, RingAssumption DEF RingHoldsWindow, Init, Age
<1> QED BY <1>2, <1>4 DEF RingInv

(* on_send writes the slot of the oldest send and moves the head: every    *)
(* send is one older, and the new one has age 0.                           *)
LEMMA SendKeepsRing == RingInv /\ RecordSend => RingInv'
<1> SUFFICES ASSUME RingInv, RecordSend PROVE RingInv'
  OBVIOUS
<1> DEFINE h   == stats.ring_head
           n   == Len(send_log)
           new == [own_seq |-> my_seq', send_ts_ns |-> clock]
<1>1. /\ h \in Slots /\ n \in Nat /\ my_seq \in Seqs /\ clock \in Int
      /\ stats.ring \in [Slots -> SendRecord]
  BY DEF RingInv, TypeOK, Recorder
<1>2. my_seq' \in Seqs /\ new \in SendRecord
  BY <1>1, NextSeqWraps, RingAssumption DEF RecordSend, Seqs, SendRecord
<1>3. /\ stats'.ring = [stats.ring EXCEPT ![h] = new]
      /\ stats'.ring_head = (h + 1) % RingSize
      /\ stats' \in Recorder
  BY <1>1, <1>2, OnSendWrites DEF RecordSend, RingInv, TypeOK
<1>4. TypeOK'
  BY <1>2, <1>3 DEF RecordSend, RingInv, TypeOK
<1>5. send_log' = Append(send_log, new) /\ Len(send_log') = n + 1
  BY DEF RecordSend, RingInv, TypeOK
<1>6. /\ SlotOfAge(0)' = h
      /\ \A a \in Age \ {0} : /\ a - 1 \in Age
                             /\ SlotOfAge(a)' = SlotOfAge(a - 1)
                             /\ SlotOfAge(a)' \in Slots \ {h}
  <2>1. /\ \A a : SlotOfAge(a) = SlotBehind(h, a)
        /\ \A a : SlotOfAge(a)' = SlotBehind((h + 1) % RingSize, a)
    BY <1>3 DEF SlotOfAge, SlotBehind
  <2> QED BY <1>1, <2>1, HeadMoves
<1>7. /\ SeqOfAge(0)' = my_seq'
      /\ \A a \in Age \ {0} : SeqOfAge(a)' = SeqOfAge(a - 1)
  <2>1. my_seq' = IF my_seq + 1 = NumSeqs THEN 0 ELSE my_seq + 1
    BY <1>1, NextSeqWraps DEF RecordSend
  <2>2. /\ my_seq \in Int /\ 0 <= my_seq /\ my_seq < NumSeqs
        /\ RingSize < NumSeqs /\ NumSeqs \in Int /\ RingSize \in Int
    BY <1>1, RingAssumption DEF Seqs
  <2>3. \A a \in Age : SeqOfAge(a)' =
          IF a <= my_seq' THEN my_seq' - a ELSE my_seq' - a + NumSeqs
    BY DEF SeqOfAge
  <2>4. \A a \in Age : SeqOfAge(a) =
          IF a <= my_seq THEN my_seq - a ELSE my_seq - a + NumSeqs
    BY DEF SeqOfAge
  <2>5. ASSUME NEW a \in Age \ {0} PROVE SeqOfAge(a)' = SeqOfAge(a - 1)
    <3>1. a \in Int /\ a > 0 /\ a < RingSize /\ a - 1 \in Age
      BY <2>2 DEF Age
    <3> QED BY <2>1, <2>2, <2>3, <2>4, <3>1
  <2>6. SeqOfAge(0)' = my_seq'
    BY <2>1, <2>2 DEF SeqOfAge
  <2> QED BY <2>5, <2>6
<1>8. Kept' = IF n < RingSize THEN n + 1 ELSE RingSize
  BY <1>1, <1>5, RingAssumption DEF Kept
<1>9. RingHoldsWindow'
  <2>1. ASSUME NEW a \in 0 .. Kept' - 1
        PROVE  /\ stats'.ring[SlotOfAge(a)'] = send_log'[Len(send_log') - a]
               /\ send_log'[Len(send_log') - a].own_seq = SeqOfAge(a)'
    <3>1. CASE a = 0
      BY <1>1, <1>3, <1>5, <1>6, <1>7, <3>1
    <3>2. CASE a # 0
      <4>1. a \in Age \ {0} /\ a - 1 \in 0 .. Kept - 1
        BY <1>1, <1>8, <3>2, RingAssumption DEF Age, Kept
      <4>2. send_log'[Len(send_log') - a] = send_log[n - (a - 1)]
        BY <1>1, <1>5, <4>1, KeptIsAge DEF RingInv, TypeOK
      <4>3. stats'.ring[SlotOfAge(a)'] = stats.ring[SlotOfAge(a - 1)]
        BY <1>1, <1>3, <1>6, <4>1
      <4> QED
        BY <1>7, <4>1, <4>2, <4>3 DEF RingInv, RingHoldsWindow
    <3> QED BY <3>1, <3>2
  <2>2. ASSUME NEW a \in Kept' .. RingSize - 1
        PROVE  stats'.ring[SlotOfAge(a)'] = [own_seq |-> 0, send_ts_ns |-> 0]
    <3>1. a \in Age \ {0} /\ a - 1 \in Kept .. RingSize - 1
      BY <1>1, <1>8, RingAssumption DEF Age, Kept
    <3> QED
      BY <1>1, <1>3, <1>6, <3>1 DEF RingInv, RingHoldsWindow
  <2>3. Len(send_log') < RingSize => my_seq' = Len(send_log')
    BY <1>1, <1>5, NextSeqWraps, RingAssumption
    DEF RecordSend, RingInv, RingHoldsWindow, Seqs
  <2> QED
    BY <2>1, <2>2, <2>3 DEF RingHoldsWindow
<1> QED BY <1>4, <1>9 DEF RingInv

(* What the network can deliver has the type of the log's entries.         *)
LEMMA DeliverableIsInbound ==
  ASSUME TypeOK, NEW m \in Deliverable
  PROVE  m \in Inbound
<1>1. clock \in Nat /\ 0 .. clock \subseteq Int /\ 0 .. MaxAcked \subseteq Seqs
  BY CallersAssumption, RingAssumption DEF TypeOK, Seqs
<1> QED BY <1>1 DEF Deliverable, Inbound

(* on_recv counts and samples but does not touch the ring.                 *)
LEMMA RecvKeepsRing ==
  ASSUME RingInv, NEW m \in Deliverable, RecordRecv(m)
  PROVE  RingInv'
<1>1. m \in Inbound
  BY DeliverableIsInbound DEF RingInv
<1>2. m.peer_seq \in Seqs /\ m.acked \in Seqs /\ m.recv_ts_ns \in Int
  BY <1>1, CallersAssumption, RingAssumption DEF Inbound, PeerSeqs, Seqs
<1>3. /\ stats' \in Recorder
      /\ stats'.ring = stats.ring /\ stats'.ring_head = stats.ring_head
  BY <1>2, OnRecvTakesSample DEF RecordRecv, RingInv, TypeOK
<1>4. TypeOK'
  BY <1>1, <1>3 DEF RecordRecv, RingInv, TypeOK
<1>5. RingHoldsWindow'
  BY <1>3
  DEF RecordRecv, RingInv, RingHoldsWindow, Kept, SlotOfAge, SeqOfAge
<1> QED BY <1>4, <1>5 DEF RingInv

(* The invariant of the ring is inductive.                                 *)
LEMMA RingStep == RingInv /\ [Next]_vars => RingInv'
<1> SUFFICES ASSUME RingInv, [Next]_vars PROVE RingInv'
  OBVIOUS
<1>1. CASE Tick
  BY <1>1, CallersAssumption
  DEF Tick, RingInv, TypeOK, RingHoldsWindow, Kept, SlotOfAge, SeqOfAge
<1>2. CASE RecordSend
  BY <1>2, SendKeepsRing
<1>3. CASE \E m \in Deliverable : RecordRecv(m)
  BY <1>3, RecvKeepsRing
<1>4. CASE UNCHANGED vars
  BY <1>4
  DEF vars, RingInv, TypeOK, RingHoldsWindow, Kept, SlotOfAge, SeqOfAge
<1> QED BY <1>1, <1>2, <1>3, <1>4 DEF Next

(* The types hold in every reachable state.                                *)
THEOREM CallersTypes == Spec => []TypeOK
<1>1. Spec => []RingInv
  BY RingInit, RingStep, PTL DEF Spec
<1> QED BY <1>1, PTL DEF RingInv

(* So does the sliding window of the ring: for every ring size below the   *)
(* number space, every number of sends, and whatever the network delivers. *)
THEOREM RingCorrect == Spec => []RingHoldsWindow
<1>1. Spec => []RingInv
  BY RingInit, RingStep, PTL DEF Spec
<1> QED BY <1>1, PTL DEF RingInv

(* The lookup of on_recv is exact.                                         *)
THEOREM LookupCorrect == Spec => []LookupExact
<1>1. RingInv => LookupExact
  BY LookupIsExact DEF RingInv, LookupExact
<1> QED BY <1>1, RingInit, RingStep, PTL DEF Spec

---------------------------------------------------------------------------
(* The recorder implements the meter.                                      *)

(* The meter and the properties of the ring mean the same sends.           *)
LEMMA AcknowledgedIsSentInWindow ==
  \A s : Meter!Acknowledged(send_log, s) = IF s = 0 THEN {} ELSE SentInWindow(s)
PROOF BY DEF Meter!Acknowledged, Meter!Acknowledgeable, SentInWindow

(* on_recv takes the sample that the meter takes, or none with it.         *)
LEMMA RecvIsMeterRecv ==
  ASSUME RingInv, NEW m \in Deliverable, RecordRecv(m)
  PROVE  Meter!Recv
<1> DEFINE n == Len(recv_log)
<1>1. m \in Inbound
  BY DeliverableIsInbound DEF RingInv
<1>2. /\ recv_log' = Append(recv_log, m) /\ n \in Nat
      /\ Len(recv_log') = n + 1 /\ recv_log'[n + 1] = m
  BY <1>1 DEF RecordRecv, RingInv, TypeOK
<1>3. stats'.rtts_ns =
        IF Found(stats, m.acked)
        THEN Append(stats.rtts_ns, ComputedRtt(stats, m.recv_ts_ns, m.acked))
        ELSE stats.rtts_ns
  BY DEF RecordRecv, OnRecv, RingInv, TypeOK, Recorder
<1>4. \/ /\ Meter!Acknowledged(send_log, m.acked) = {}
         /\ stats'.rtts_ns = stats.rtts_ns
      \/ \E k \in Meter!Acknowledged(send_log, m.acked) :
           /\ Meter!Acknowledged(send_log, m.acked) = {k}
           /\ stats'.rtts_ns =
                Append(stats.rtts_ns, m.recv_ts_ns - send_log[k].send_ts_ns)
  <2>1. CASE m.acked = 0
    BY <1>3, <2>1, AcknowledgedIsSentInWindow DEF Found
  <2>2. CASE m.acked # 0
    <3>1. m.acked \in Seqs \ {0}
      BY <1>1, <2>2 DEF Inbound
    <3>2. Meter!Acknowledged(send_log, m.acked) = SentInWindow(m.acked)
      BY <2>2, AcknowledgedIsSentInWindow
    <3>3. CASE SentInWindow(m.acked) = {}
      BY <1>3, <3>1, <3>2, <3>3, LookupIsExact DEF RingInv
    <3>4. CASE SentInWindow(m.acked) # {}
      <4>1. PICK k \in SentInWindow(m.acked) : TRUE
        BY <3>4
      <4>2. /\ Found(stats, m.acked) /\ SentInWindow(m.acked) = {k}
            /\ stats.ring[FirstMatch(stats, m.acked)] = send_log[k]
        BY <3>1, <4>1, LookupIsExact DEF RingInv
      <4>3. ComputedRtt(stats, m.recv_ts_ns, m.acked) =
              m.recv_ts_ns - send_log[k].send_ts_ns
        BY <4>2 DEF ComputedRtt
      <4> QED BY <1>3, <3>2, <4>1, <4>2, <4>3
    <3> QED BY <3>3, <3>4
  <2> QED BY <2>1, <2>2
<1> QED
  BY <1>2, <1>4 DEF Meter!Recv, RecordRecv

(* on_send lets the meter see one more send, and no sample.                *)
LEMMA SendIsMeterSend == RingInv /\ RecordSend => Meter!Send
<1> SUFFICES ASSUME RingInv, RecordSend PROVE Meter!Send
  OBVIOUS
<1> DEFINE new == [own_seq |-> my_seq', send_ts_ns |-> clock]
<1>1. /\ send_log' = Append(send_log, new) /\ Len(send_log) \in Nat
      /\ Len(send_log') = Len(send_log) + 1
      /\ send_log'[Len(send_log) + 1] = new
  BY DEF RecordSend, RingInv, TypeOK
<1>2. stats'.rtts_ns = stats.rtts_ns
  BY DEF RecordSend, OnSend, RingInv, TypeOK, Recorder
<1> QED
  BY <1>1, <1>2 DEF Meter!Send, RecordSend

(* With its ring of RingSize slots the recorder takes exactly the samples  *)
(* that a meter takes which keeps the whole log of sends and accepts       *)
(* acknowledgements of the latest RingSize of them.                        *)
THEOREM MeterImplemented == Spec => MeterSpec
<1>1. Init => Meter!Init
  BY DEF Init, Meter!Init, NewRecorder
<1>2. RingInv /\ [Next]_vars => [Meter!Next]_(Meter!meterVars)
  <2> SUFFICES ASSUME RingInv, [Next]_vars
               PROVE  [Meter!Next]_(Meter!meterVars)
    OBVIOUS
  <2>1. CASE Tick
    BY <2>1 DEF Tick, Meter!meterVars
  <2>2. CASE RecordSend
    BY <2>2, SendIsMeterSend DEF Meter!Next
  <2>3. CASE \E m \in Deliverable : RecordRecv(m)
    BY <2>3, RecvIsMeterRecv DEF Meter!Next
  <2>4. CASE UNCHANGED vars
    BY <2>4 DEF vars, Meter!meterVars
  <2> QED BY <2>1, <2>2, <2>3, <2>4 DEF Next
<1> QED
  BY <1>1, <1>2, RingInit, RingStep, PTL DEF Spec, MeterSpec, Meter!Spec

---------------------------------------------------------------------------
(* Loss.                                                                   *)

\* The sequence number that arrived last.
Latest == recv_log[Len(recv_log)].peer_seq

(* The inductive invariant of the loss count: the recorder remembers the   *)
(* number that arrived last, which on an in-order stream is the largest,   *)
(* and the two properties hold.                                            *)
LossInv ==
  /\ recv_log = << >> => ~ stats.any_peer_seq /\ stats.loss_count = 0
  /\ recv_log # << >> => stats.any_peer_seq /\ stats.last_peer_seq_seen = Latest
  /\ InOrder => \A s \in Arrived : s <= Latest
  /\ LossNeverUnderReported
  /\ LossExactInOrder

(* The log of deliveries holds numbers of the peer.                        *)
LEMMA LogEntries ==
  ASSUME TypeOK
  PROVE  /\ PeerSeqs \subseteq Seqs \ {0} /\ Seqs \subseteq Nat
         /\ Arrived \subseteq PeerSeqs
         /\ recv_log # << >> => /\ Len(recv_log) \in Nat /\ Len(recv_log) >= 1
                                /\ recv_log[1].peer_seq \in Arrived
                                /\ recv_log[1].peer_seq \in Nat
                                /\ Latest \in Arrived
<1>1. PeerSeqs \subseteq Seqs \ {0} /\ Seqs \subseteq Nat
  BY CallersAssumption, RingAssumption DEF PeerSeqs, Seqs
<1>2. Arrived \subseteq PeerSeqs
  <2>1. \A i \in DOMAIN recv_log : recv_log[i] \in Inbound
    BY DEF TypeOK
  <2> QED BY <2>1 DEF Arrived, Inbound
<1>3. ASSUME recv_log # << >>
      PROVE  /\ Len(recv_log) \in Nat /\ Len(recv_log) >= 1
             /\ 1 \in DOMAIN recv_log /\ Len(recv_log) \in DOMAIN recv_log
  BY <1>3 DEF TypeOK
<1> QED BY <1>1, <1>2, <1>3 DEF Arrived, Latest

(* What is missing can be counted.                                         *)
LEMMA MissingIsFinite ==
  ASSUME TypeOK, NEW s \in Int
  PROVE  /\ IsFiniteSet(MissingUpTo(s))
         /\ Cardinality(MissingUpTo(s)) \in Nat
<1>1. CASE recv_log = << >>
  BY <1>1, FS_EmptySet DEF MissingUpTo
<1>2. CASE recv_log # << >>
  <2>1. recv_log[1].peer_seq \in Int
    BY <1>2, LogEntries
  <2>2. IsFiniteSet(recv_log[1].peer_seq .. s)
    BY <2>1, FS_Interval
  <2>3. MissingUpTo(s) \in SUBSET (recv_log[1].peer_seq .. s)
    BY <1>2 DEF MissingUpTo
  <2> QED BY <2>2, <2>3, FS_Subset, FS_CardinalityType
<1> QED BY <1>1, <1>2

(* on_recv keeps LossInv.  Up to a number that has arrived before nothing  *)
(* new is missing.  A number above the last one opens the gap between the  *)
(* two, which is added to the count; a number below it adds nothing, and   *)
(* the stream is no longer in order.                                       *)
LEMMA RecvKeepsLoss ==
  ASSUME RingInv, LossInv, NEW m \in Deliverable, RecordRecv(m)
  PROVE  LossInv'
<1> DEFINE n == Len(recv_log)
           p == m.peer_seq
<1>1. /\ m \in Inbound /\ p \in PeerSeqs /\ p \in Nat /\ p \in Seqs /\ p > 0
      /\ n \in Nat /\ Arrived \subseteq PeerSeqs /\ PeerSeqs \subseteq Nat
  <2>1. m \in Inbound /\ p \in PeerSeqs
    BY DeliverableIsInbound DEF RingInv, Inbound
  <2>2. p \in Seqs /\ p \in Nat /\ p # 0 /\ PeerSeqs \subseteq Nat
        /\ Arrived \subseteq PeerSeqs
    BY <2>1, LogEntries DEF RingInv
  <2>3. n \in Nat
    BY DEF RingInv, TypeOK
  <2> QED BY <2>1, <2>2, <2>3
<1>2. /\ recv_log' = Append(recv_log, m) /\ Len(recv_log') = n + 1
      /\ recv_log' # << >> /\ recv_log'[n + 1] = m /\ Latest' = p
      /\ \A i \in 1 .. n : recv_log'[i] = recv_log[i]
      /\ DOMAIN recv_log' = 1 .. n + 1 /\ DOMAIN recv_log = 1 .. n
  BY <1>1 DEF RecordRecv, RingInv, TypeOK, Latest
<1>3. Arrived' = Arrived \cup {p}
  BY <1>1, <1>2 DEF Arrived
<1>4. /\ stats'.any_peer_seq /\ stats'.last_peer_seq_seen = p
      /\ stats'.loss_count = stats.loss_count + InferredLoss(stats, p)
      /\ stats.loss_count \in Nat
  BY DEF RecordRecv, OnRecv, RingInv, TypeOK, Recorder
<1>5. TypeOK'
  BY RecvKeepsRing DEF RingInv
<1>6. CASE recv_log = << >>
  <2>1. Arrived' = {p} /\ recv_log'[1].peer_seq = p
    BY <1>2, <1>3, <1>6 DEF Arrived
  <2>2. MissingUpTo(p)' = {} /\ Cardinality(MissingUpTo(p)') = 0
    <3>1. MissingUpTo(p)' = (p .. p) \ {p}
      BY <1>2, <2>1 DEF MissingUpTo
    <3>2. (p .. p) \ {p} = {}
      BY <1>1
    <3> QED BY <3>1, <3>2, FS_EmptySet
  <2>3. stats'.loss_count = 0
    BY <1>4, <1>6 DEF InferredLoss, LossInv
  <2>4. p <= p
    BY <1>1
  <2>5. LossNeverUnderReported'
    BY <2>1, <2>2, <2>3 DEF LossNeverUnderReported
  <2>6. LossExactInOrder'
    BY <1>2, <2>2, <2>3 DEF LossExactInOrder
  <2> QED
    BY <1>2, <1>4, <2>1, <2>4, <2>5, <2>6 DEF LossInv
<1>7. CASE recv_log # << >>
  <2> DEFINE last  == stats.last_peer_seq_seen
             first == recv_log[1].peer_seq
             gap   == (last + 1) .. (p - 1)
             loss  == InferredLoss(stats, p)
  <2>1. /\ n >= 1 /\ last = Latest /\ stats.any_peer_seq
        /\ last \in Arrived /\ last \in Nat /\ last \in Seqs
        /\ first \in Nat /\ recv_log'[1].peer_seq = first
    <3>1. /\ n >= 1 /\ first \in Nat /\ Latest \in Arrived
          /\ Latest \in Seqs /\ Latest \in Nat
      BY <1>7, LogEntries DEF RingInv
    <3>2. last = Latest /\ stats.any_peer_seq
      BY <1>7 DEF LossInv
    <3>3. recv_log'[1] = recv_log[1]
      BY <1>1, <1>2, <3>1
    <3> QED BY <3>1, <3>2, <3>3
  <2>2. /\ loss \in Nat
        /\ p > last => loss = p - last - 1
        /\ loss >= 0
    BY <1>1, <2>1, NextSeqWraps, RingAssumption DEF InferredLoss, Seqs
  <2>3. \A s \in Int : /\ MissingUpTo(s) = (first .. s) \ Arrived
                       /\ MissingUpTo(s)' = (first .. s) \ (Arrived \cup {p})
    BY <1>2, <1>3, <1>7, <2>1 DEF MissingUpTo
  <2>4. ASSUME NEW s \in Arrived
        PROVE  Cardinality(MissingUpTo(s)') <= stats'.loss_count
    <3>1. s \in Int /\ MissingUpTo(s)' \in SUBSET MissingUpTo(s)
      BY <1>1, <2>3
    <3>2. /\ Cardinality(MissingUpTo(s)') <= Cardinality(MissingUpTo(s))
          /\ Cardinality(MissingUpTo(s)) \in Nat
          /\ Cardinality(MissingUpTo(s)') \in Nat
      BY <3>1, <1>5, MissingIsFinite, FS_Subset, FS_CardinalityType DEF RingInv
    <3> QED
      BY <1>4, <2>2, <3>2 DEF LossInv, LossNeverUnderReported
  <2>5. /\ Cardinality(MissingUpTo(last)) \in Nat
        /\ Cardinality(MissingUpTo(last)) <= stats.loss_count
        /\ IsFiniteSet(MissingUpTo(last))
    BY <2>1, MissingIsFinite DEF LossInv, LossNeverUnderReported, RingInv
  <2>6. /\ IsFiniteSet(gap)
        /\ p > last => Cardinality(gap) = p - last - 1
        /\ Cardinality(gap) \in Nat
    <3>1. last + 1 \in Int /\ p - 1 \in Int
      BY <1>1, <2>1
    <3>2. /\ IsFiniteSet(gap)
          /\ Cardinality(gap) = IF last + 1 > p - 1 THEN 0
                                 ELSE (p - 1) - (last + 1) + 1
      BY <3>1, FS_Interval
    <3>3. Cardinality(gap) \in Nat
      BY <3>2, FS_CardinalityType
    <3> HIDE DEF gap, last, p
    <3> QED BY <1>1, <2>1, <3>2, <3>3
  <2>7. CASE p <= last
    <3>1. MissingUpTo(p)' \in SUBSET MissingUpTo(last)
      BY <1>1, <2>1, <2>3, <2>7
    <3>2. Cardinality(MissingUpTo(p)') <= stats'.loss_count
      <4>1. /\ Cardinality(MissingUpTo(p)') <= Cardinality(MissingUpTo(last))
            /\ Cardinality(MissingUpTo(p)') \in Nat
        BY <3>1, <2>5, FS_Subset, FS_CardinalityType
      <4> QED BY <4>1, <1>4, <2>2, <2>5
    <3>3. ~ InOrder'
      <4>1. n + 1 \in DOMAIN recv_log' /\ n + 1 > 1
        BY <1>2, <2>1
      <4>2. recv_log'[n + 1 - 1].peer_seq = last /\ recv_log'[n + 1].peer_seq = p
        BY <1>2, <2>1 DEF Latest
      <4> QED BY <4>1, <4>2, <2>7, <1>1, <2>1 DEF InOrder
    <3> QED
      BY <1>2, <1>3, <1>4, <2>4, <3>2, <3>3
      DEF LossInv, LossNeverUnderReported, LossExactInOrder
  <2>8. CASE p > last
    <3>1. MissingUpTo(p)' \in SUBSET (MissingUpTo(last) \cup gap)
      BY <1>1, <2>1, <2>3, <2>8
    <3>2. /\ IsFiniteSet(MissingUpTo(last) \cup gap)
          /\ Cardinality(MissingUpTo(last) \cup gap) =
               Cardinality(MissingUpTo(last)) + Cardinality(gap)
      <4>1. MissingUpTo(last) \cap gap = {}
        BY <1>1, <2>1, <2>3
      <4>2. /\ IsFiniteSet(MissingUpTo(last) \cup gap)
            /\ Cardinality(MissingUpTo(last) \cup gap) =
                 Cardinality(MissingUpTo(last)) + Cardinality(gap)
                   - Cardinality(MissingUpTo(last) \cap gap)
        BY <2>5, <2>6, FS_Union
      <4>3. Cardinality(MissingUpTo(last) \cap gap) = 0
        BY <4>1, FS_EmptySet
      <4>4. /\ Cardinality(MissingUpTo(last)) \in Nat
            /\ Cardinality(gap) \in Nat
        BY <2>5, <2>6, FS_CardinalityType
      <4> HIDE DEF gap, last, MissingUpTo
      <4> QED BY <4>2, <4>3, <4>4
    <3>3. Cardinality(MissingUpTo(p)') <= stats'.loss_count
      <4>1. /\ Cardinality(MissingUpTo(p)') <=
                 Cardinality(MissingUpTo(last) \cup gap)
            /\ Cardinality(MissingUpTo(p)') \in Nat
        BY <3>1, <3>2, FS_Subset, FS_CardinalityType
      <4> QED BY <4>1, <3>2, <1>1, <1>4, <2>1, <2>2, <2>5, <2>6, <2>8
    <3>4. ASSUME InOrder'
          PROVE  /\ \A s \in Arrived' : s <= Latest'
                 /\ stats'.loss_count = Cardinality(MissingUpTo(p)')
      <4>1. InOrder
        BY <3>4, <1>1, <1>2 DEF InOrder
      <4>2. \A s \in Arrived : s <= last
        BY <4>1, <2>1 DEF LossInv
      <4>3. stats.loss_count = Cardinality(MissingUpTo(last))
        BY <4>1, <1>7, <2>1 DEF LossInv, LossExactInOrder, Latest
      <4>4. first <= last
        BY <4>2, <2>1, <1>7 DEF Arrived
      <4>5. MissingUpTo(p)' = MissingUpTo(last) \cup gap
        <5>1. gap \cap Arrived = {} /\ p \notin gap
          BY <4>2, <1>1, <2>1
        <5>2. gap \subseteq first .. p /\ first .. last \subseteq first .. p
          BY <4>4, <1>1, <2>1, <2>8
        <5>3. p \notin first .. last
          BY <1>1, <2>1, <2>8
        <5> QED BY <3>1, <5>1, <5>2, <5>3, <2>1, <2>3, <1>1
      <4>6. \A s \in Arrived' : s <= Latest'
        BY <4>2, <1>1, <1>2, <1>3, <2>1, <2>8
      <4> QED
        BY <4>3, <4>5, <4>6, <3>2, <1>1, <1>4, <2>1, <2>2, <2>6, <2>8
    <3> QED
      BY <1>2, <1>3, <1>4, <2>4, <3>3, <3>4
      DEF LossInv, LossNeverUnderReported, LossExactInOrder, Latest
  <2> QED BY <1>1, <2>1, <2>7, <2>8
<1> QED BY <1>6, <1>7

(* LossInv is inductive, given the types.                                  *)
LEMMA LossStep == RingInv /\ LossInv /\ [Next]_vars => LossInv'
<1> SUFFICES ASSUME RingInv, LossInv, [Next]_vars PROVE LossInv'
  OBVIOUS
<1> USE DEF LossInv, LossNeverUnderReported, LossExactInOrder, InOrder,
            Arrived, MissingUpTo, Latest
<1>1. CASE Tick
  BY ZenonT(30), <1>1 DEF Tick
<1>2. CASE RecordSend
  <2>1. /\ stats'.any_peer_seq = stats.any_peer_seq
        /\ stats'.last_peer_seq_seen = stats.last_peer_seq_seen
        /\ stats'.loss_count = stats.loss_count
        /\ recv_log' = recv_log
    BY <1>2 DEF RecordSend, OnSend, RingInv, TypeOK, Recorder
  <2> QED BY ZenonT(30), <2>1
<1>3. CASE \E m \in Deliverable : RecordRecv(m)
  BY <1>3, RecvKeepsLoss
<1>4. CASE UNCHANGED vars
  BY ZenonT(30), <1>4 DEF vars
<1> QED BY <1>1, <1>2, <1>3, <1>4 DEF Next

(* LossInv holds in every state.                                           *)
LEMMA LossHolds == Spec => [](RingInv /\ LossInv)
<1>1. Init => LossInv
  BY DEF Init, NewRecorder, LossInv, LossNeverUnderReported, LossExactInOrder,
         InOrder, Arrived
<1> QED BY <1>1, RingInit, RingStep, LossStep, PTL DEF Spec

(* Whatever the network does, the loss total is at least the number of     *)
(* messages really missing.                                                *)
THEOREM LossBounded == Spec => []LossNeverUnderReported
<1> QED BY LossHolds, PTL DEF LossInv

(* On an in-order stream the loss total is that number.                    *)
THEOREM LossExact == Spec => []LossExactInOrder
<1> QED BY LossHolds, PTL DEF LossInv
=============================================================================
