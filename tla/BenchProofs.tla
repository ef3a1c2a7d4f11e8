---------------------------- MODULE BenchProofs ----------------------------
(***************************************************************************)
(* What holds of the two processes for every ring, all periods and         *)
(* durations, any number of worker threads and restarts, and whatever the  *)
(* network does.                                                           *)
(*                                                                         *)
(* None of the properties is inductive alone.  The argument about          *)
(* acknowledgements: a number on its way - in a message, in the hands of a *)
(* worker, in the two atomics, in the packet being put together - was      *)
(* recorded by its sender in the run that it belongs to (Carried), since   *)
(* on_send comes before the send and nothing that was recorded is taken    *)
(* back; and the ring holds the latest numbers by age (RingNumbers), which *)
(* needs that numbers do not wrap within a run (Schedule).  The argument   *)
(* about round trips adds time: a worker that holds an acknowledgement     *)
(* stamped it after the send that it names (Answered), and a send recorded *)
(* meanwhile has a number that was not recorded when the acknowledgement   *)
(* was made.                                                               *)
(***************************************************************************)
EXTENDS Bench, StatsRecorderProofs

\* The recorder of a process that has just begun.
FreshRecorder == NewRecorder(FALSE)

(* What a process begins with has the types that it needs.                 *)
LEMMA FreshValues ==
  /\ FreshRecorder \in Recorder
  /\ 0 \in Seqs /\ Seqs \subseteq Nat
  /\ NoPacket \in Packet /\ NoMessage \in Message
  /\ \A at \in {"none", "idle", "ended"} : Empty(at) \in Thread
<1>1. FreshRecorder \in Recorder
  BY NewRecorderIsRecorder, Zenon DEF FreshRecorder
<1>2. 0 \in Seqs /\ Seqs \subseteq Nat
  BY RingAssumption DEF Seqs
<1>3. NoPacket \in Packet /\ NoMessage \in Message
      /\ \A at \in {"none", "idle", "ended"} : Empty(at) \in Thread
  BY <1>2 DEF NoPacket, Packet, NoMessage, OnWire, Message, Empty, Thread
<1> QED BY <1>1, <1>2, <1>3

(* The next number is a number, the peer is a role, what is sent is a      *)
(* message.                                                                *)
LEMMA OperatorTypes ==
  /\ \A s \in Seqs : NextSeq(s) \in Seqs
  /\ \A r \in Role : Peer(r) \in Role
  /\ \A p \in Packet : OnWire(p) \in Message
<1>1. \A s \in Seqs : NextSeq(s) \in Seqs
  BY NextSeqWraps, RingAssumption DEF Seqs
<1>2. \A r \in Role : Peer(r) \in Role
  BY DEF Role, Peer
<1>3. \A p \in Packet : OnWire(p) \in Message
  BY DEF Packet, OnWire, Message
<1> QED BY <1>1, <1>2, <1>3

(* The initial values have their types.                                    *)
LEMMA TypesInit == Init => TypeOK
<1> SUFFICES ASSUME Init PROVE TypeOK
  OBVIOUS
<1>1. /\ pc \in [Role -> PcMain] /\ clock \in [Role -> Nat]
      /\ t0 \in [Role -> Nat] /\ deadline \in [Role -> Nat]
      /\ now \in [Role -> Nat] /\ my_seq \in [Role -> Seqs]
      /\ pkt \in [Role -> Packet]
      /\ peer_last_seq_recv \in [Role -> Seqs]
      /\ peer_last_recv_ts \in [Role -> Nat]
      /\ net \in [Role -> SUBSET Message]
      /\ run \in [Role -> Nat \ {0}] /\ peer_last_run \in [Role -> Nat]
      /\ taken \in [Role -> Seq(Receipt)]
  BY FreshValues DEF Init, PcMain
<1>2. worker \in [Role -> [Worker -> Thread]]
  BY FreshValues DEF Init
<1>3. stats \in [Role -> Recorder]
  BY FreshValues, Zenon DEF Init, FreshRecorder
<1>4. running \in [Role -> BOOLEAN] /\ g_stop \in [Role -> BOOLEAN]
  BY DEF Init
<1> QED BY <1>1, <1>2, <1>3, <1>4, Zenon DEF TypeOK

(* Every step keeps them.                                                  *)
LEMMA TypesStep == TypeOK /\ [Next]_vars => TypeOK'
<1> SUFFICES ASSUME TypeOK, [Next]_vars PROVE TypeOK'
  OBVIOUS
<1>1. ASSUME NEW r \in Role
      PROVE  /\ stats[r] \in Recorder /\ pkt[r] \in Packet
             /\ my_seq[r] \in Seqs /\ now[r] \in Int /\ run[r] \in Nat
             /\ peer_last_seq_recv[r] \in Seqs
             /\ peer_last_recv_ts[r] \in Nat /\ peer_last_run[r] \in Nat
             /\ \A w \in Worker : worker[r][w] \in Thread
  BY DEF TypeOK
<1> USE DEF locals, echoVars
<1>6. ASSUME NEW r \in Role, Tick(r) \/ Signal(r) PROVE TypeOK'
  <2>1. CASE Tick(r)
    <3>1. clock' \in [Role -> Nat]
      BY <2>1 DEF Tick, TypeOK
    <3> QED BY <2>1, <3>1 DEF Tick, TypeOK
  <2>2. CASE Signal(r)
    <3>1. g_stop' \in [Role -> BOOLEAN]
      BY <2>2 DEF Signal, TypeOK
    <3> QED BY <2>2, <3>1 DEF Signal, TypeOK
  <2> QED BY <1>6, <2>1, <2>2
<1>7. ASSUME NEW r \in Role, MainStep(r) PROVE TypeOK'
  <2> USE DEF Goto, Move
  <2>1. CASE Start(r)
    BY FreshValues, <2>1 DEF Start, TypeOK, PcMain
  <2>2. CASE Enter(r)
    BY <2>2 DEF Enter, TypeOK, PcMain
  <2>3. CASE LeaveLoop(r) \/ Sleep(r) \/ Wake(r) \/ JoinWorkers(r)
    BY <2>3 DEF LeaveLoop, Sleep, Wake, JoinWorkers, TypeOK, PcMain
  <2>4. CASE TakeSlot(r)
    <3>1. deadline[r] + Period[r] \in Nat
      BY BenchAssumption DEF TypeOK
    <3>2. pkt' \in [Role -> Packet]
      <4> DEFINE p == [pkt[r] EXCEPT !.own_seq = NextSeq(my_seq[r]),
                                     !.run = run[r]]
      <4>1. pkt' = [pkt EXCEPT ![r] = p]
        BY <2>4 DEF TakeSlot, DrawSlot, TypeOK
      <4>2. p \in Packet
        BY <1>1, OperatorTypes DEF Packet
      <4> QED BY <4>1, <4>2 DEF TypeOK
    <3>3. /\ pc' \in [Role -> PcMain]
          /\ now' \in [Role -> Nat] /\ deadline' \in [Role -> Nat]
          /\ my_seq' \in [Role -> Seqs]
      BY <1>1, OperatorTypes, <2>4, <3>1 DEF TakeSlot, DrawSlot, TypeOK, PcMain
    <3> QED BY <2>4, <3>2, <3>3 DEF TakeSlot, DrawSlot, TypeOK
  <2>5. CASE LoadSeq(r)
    <3>1. pkt' \in [Role -> Packet]
      <4> DEFINE p == [pkt[r] EXCEPT !.peer_last_seq = peer_last_seq_recv[r],
                                     !.ack_run = peer_last_run[r]]
      <4>1. pkt' = [pkt EXCEPT ![r] = p]
        BY <2>5 DEF LoadSeq, TypeOK
      <4>2. p \in Packet
        BY <1>1 DEF Packet
      <4> QED BY <4>1, <4>2 DEF TypeOK
    <3> QED BY <2>5, <3>1 DEF LoadSeq, TypeOK, PcMain
  <2>6. CASE LoadTs(r)
    <3>1. pkt' \in [Role -> Packet]
      <4> DEFINE p == [pkt[r] EXCEPT !.peer_recv_ts_ns = peer_last_recv_ts[r]]
      <4>1. pkt' = [pkt EXCEPT ![r] = p]
        BY <2>6 DEF LoadTs, TypeOK
      <4>2. p \in Packet
        BY <1>1 DEF Packet
      <4> QED BY <4>1, <4>2 DEF TypeOK
    <3> QED BY <2>6, <3>1 DEF LoadTs, TypeOK, PcMain
  <2>7. CASE Record(r)
    <3>1. OnSend(stats[r], my_seq[r], now[r]) \in Recorder
      BY <1>1, OnSendWrites
    <3> QED BY <2>7, <3>1 DEF Record, TypeOK, PcMain
  <2>8. CASE Send(r)
    <3>1. net' \in [Role -> SUBSET Message]
      BY <1>1, OperatorTypes, <2>8 DEF Send, TypeOK
    <3> QED BY <2>8, <3>1 DEF Send, TypeOK, PcMain
  <2>9. CASE StopTransport(r)
    BY <2>9 DEF StopTransport, TypeOK, PcMain
  <2> QED
    BY <1>7, <2>1, <2>2, <2>3, <2>4, <2>5, <2>6, <2>7, <2>8, <2>9
    DEF MainStep
<1>8. ASSUME NEW r \in Role, Restart(r) PROVE TypeOK'
  <2>1. run' \in [Role -> Nat \ {0}]
    <3>1. run[r] + 1 \in Nat \ {0}
      BY <1>1
    <3> QED BY <1>8, <3>1, Zenon DEF Restart, TypeOK
  <2>2. /\ my_seq' \in [Role -> Seqs] /\ peer_last_seq_recv' \in [Role -> Seqs]
        /\ pkt' \in [Role -> Packet] /\ stats' \in [Role -> Recorder]
    BY FreshValues, <1>8, Zenon DEF Restart, TypeOK, FreshRecorder
  <2>3. /\ worker' \in [Role -> [Worker -> Thread]]
        /\ taken' \in [Role -> Seq(Receipt)]
    <3> DEFINE none == [w \in Worker |-> Empty("none")]
    <3>1. worker' = [worker EXCEPT ![r] = none]
          /\ taken' = [taken EXCEPT ![r] = << >>]
      BY <1>8, Zenon DEF Restart
    <3>2. none \in [Worker -> Thread] /\ << >> \in Seq(Receipt)
      BY FreshValues
    <3> HIDE DEF none
    <3> QED BY <3>1, <3>2 DEF TypeOK
  <2>4. /\ pc' \in [Role -> PcMain] /\ clock' \in [Role -> Nat]
        /\ running' \in [Role -> BOOLEAN] /\ g_stop' \in [Role -> BOOLEAN]
        /\ t0' \in [Role -> Nat] /\ deadline' \in [Role -> Nat]
        /\ now' \in [Role -> Nat] /\ peer_last_recv_ts' \in [Role -> Nat]
        /\ net' \in [Role -> SUBSET Message] /\ peer_last_run' \in [Role -> Nat]
    BY <1>8 DEF Restart, TypeOK, PcMain
  <2> QED BY <2>1, <2>2, <2>3, <2>4 DEF TypeOK
<1>9. ASSUME NEW r \in Role, NEW w \in Worker, Take(r, w) PROVE TypeOK'
  <2>1. PICK m \in net[r] :
          /\ worker' = [worker EXCEPT ![r][w] =
                          [at |-> "seq", msg |-> m, recv_ts_ns |-> clock[r]]]
          /\ taken' = [taken EXCEPT ![r] =
                         Append(@, [own_seq |-> m.own_seq,
                                    recv_ts_ns |-> clock[r]])]
    BY <1>9 DEF Take
  <2>2. m \in Message /\ clock[r] \in Nat
    BY DEF TypeOK
  <2>3. [at |-> "seq", msg |-> m, recv_ts_ns |-> clock[r]] \in Thread
    BY <2>2 DEF Thread, InCallback
  <2>4. [own_seq |-> m.own_seq, recv_ts_ns |-> clock[r]] \in Receipt
    BY <2>2 DEF Receipt, Message
  <2>5. worker' \in [Role -> [Worker -> Thread]]
    BY <2>1, <2>3 DEF TypeOK
  <2>6. taken' \in [Role -> Seq(Receipt)]
    BY <2>1, <2>4 DEF TypeOK
  <2> QED BY <1>9, <2>5, <2>6 DEF Take, TypeOK
<1>10. ASSUME NEW r \in Role, NEW w \in Worker, ThreadStep(r, w) PROVE TypeOK'
  <2>1. worker[r][w] \in Thread /\ worker[r][w].msg \in Message
        /\ worker[r][w].recv_ts_ns \in Nat
    BY DEF TypeOK, Thread
  <2>2. CASE StoreSeq(r, w)
    <3>1. worker' \in [Role -> [Worker -> Thread]]
      <4> DEFINE t == [worker[r][w] EXCEPT !.at = "ts"]
      <4>1. worker' = [worker EXCEPT ![r][w] = t]
        BY <2>2 DEF StoreSeq, TypeOK
      <4>2. t \in Thread
        BY <1>1 DEF Thread, InCallback
      <4> QED BY <4>1, <4>2 DEF TypeOK
    <3>2. /\ peer_last_seq_recv' \in [Role -> Seqs]
          /\ peer_last_run' \in [Role -> Nat]
      BY <2>1, <2>2 DEF StoreSeq, TypeOK, Message
    <3> QED BY <2>2, <3>1, <3>2 DEF StoreSeq, TypeOK
  <2>3. CASE StoreTs(r, w)
    <3>1. worker' \in [Role -> [Worker -> Thread]]
      <4> DEFINE t == [worker[r][w] EXCEPT !.at = "stats"]
      <4>1. worker' = [worker EXCEPT ![r][w] = t]
        BY <2>3 DEF StoreTs, TypeOK
      <4>2. t \in Thread
        BY <1>1 DEF Thread, InCallback
      <4> QED BY <4>1, <4>2 DEF TypeOK
    <3>2. peer_last_recv_ts' \in [Role -> Nat]
      BY <2>1, <2>3 DEF StoreTs, TypeOK
    <3> QED BY <2>3, <3>1, <3>2 DEF StoreTs, TypeOK
  <2>4. CASE Report(r, w)
    <3>1. worker' \in [Role -> [Worker -> Thread]]
      BY FreshValues, <2>4 DEF Report, TypeOK
    <3>2. OnRecv(stats[r], worker[r][w].recv_ts_ns, worker[r][w].msg.own_seq,
                 worker[r][w].msg.peer_last_seq) \in Recorder
      BY <1>1, <2>1, OnRecvTakesSample DEF Message
    <3>3. stats' \in [Role -> Recorder]
      BY <2>4, <3>2 DEF Report, TypeOK
    <3> QED BY <2>4, <3>1, <3>3 DEF Report, TypeOK
  <2>5. CASE EndWorker(r, w)
    <3>1. worker' \in [Role -> [Worker -> Thread]]
      BY FreshValues, <2>5 DEF EndWorker, TypeOK
    <3> QED BY <2>5, <3>1 DEF EndWorker, TypeOK
  <2> QED BY <1>10, <2>2, <2>3, <2>4, <2>5 DEF ThreadStep
<1>11. CASE UNCHANGED vars
  BY <1>11 DEF vars, TypeOK
<1> QED BY <1>6, <1>7, <1>8, <1>9, <1>10, <1>11 DEF Next

---------------------------------------------------------------------------
(* Control.                                                                *)

(* The worker threads exist from start() to the end of stop(): they are    *)
(* told to end when running is cleared, and stop() waits until they have.  *)
Control ==
  \A r \in Role :
    /\ running[r] <=> pc[r] \notin {"start", "stopping", "done"}
    /\ \A w \in Worker :
         /\ worker[r][w].at = "none" <=> pc[r] = "start"
         /\ worker[r][w].at = "ended" => ~ running[r]
         /\ pc[r] = "done" => worker[r][w].at = "ended"

(* No process is started yet.                                              *)
LEMMA ControlInit == Init => Control
PROOF BY DEF Init, Control, Empty

(* The main thread starts and joins the workers, a worker ends only when   *)
(* it is told to, and a restart begins from scratch.                       *)
LEMMA ControlStep == TypeOK /\ Control /\ [Next]_vars => Control'
<1> SUFFICES ASSUME TypeOK, Control, [Next]_vars PROVE Control'
  OBVIOUS
<1> USE DEF locals, echoVars
<1>1. /\ pc \in [Role -> PcMain] /\ running \in [Role -> BOOLEAN]
      /\ worker \in [Role -> [Worker -> Thread]]
  BY DEF TypeOK
<1>2. ASSUME NEW r \in Role, Tick(r) \/ Signal(r) PROVE Control'
  BY <1>2 DEF Tick, Signal, Control
<1>3. ASSUME NEW r \in Role, MainStep(r) PROVE Control'
  <2> USE DEF Goto, Move
  <2>1. CASE Start(r)
    BY <1>1, <2>1 DEF Start, Control, Empty
  <2>2. CASE StopTransport(r)
    BY <1>1, <2>2 DEF StopTransport, Control
  <2>3. CASE JoinWorkers(r)
    BY <1>1, <2>3 DEF JoinWorkers, Control
  <2>4. CASE \/ Enter(r) \/ LeaveLoop(r) \/ Sleep(r) \/ Wake(r)
             \/ TakeSlot(r) \/ LoadSeq(r) \/ LoadTs(r) \/ Record(r) \/ Send(r)
    <3>1. /\ UNCHANGED << running, worker >>
          /\ pc[r] \notin {"start", "stopping", "done"}
          /\ \E to \in PcMain \ {"start", "stopping", "done"} :
               pc' = [pc EXCEPT ![r] = to]
      BY <2>4
      DEF Enter, LeaveLoop, Sleep, Wake, TakeSlot, DrawSlot, LoadSeq, LoadTs,
          Record, Send, PcMain
    <3> QED BY <1>1, <3>1 DEF Control
  <2> QED BY <1>3, <2>1, <2>2, <2>3, <2>4 DEF MainStep
<1>4. ASSUME NEW r \in Role, Restart(r) PROVE Control'
  <2>1. /\ pc' = [pc EXCEPT ![r] = "start"]
        /\ running' = [running EXCEPT ![r] = FALSE]
        /\ worker' = [worker EXCEPT ![r] = [w \in Worker |-> Empty("none")]]
    BY <1>4, Zenon DEF Restart
  <2> QED BY <1>1, <2>1 DEF Control, Empty
<1>5. ASSUME NEW r \in Role, NEW w \in Worker, Take(r, w) \/ ThreadStep(r, w)
      PROVE  Control'
  <2>1. CASE Take(r, w)
    BY <1>1, <2>1 DEF Take, Control
  <2>2. CASE StoreSeq(r, w) \/ StoreTs(r, w)
    <3>1. PICK to \in {"ts", "stats"} :
            worker' = [worker EXCEPT ![r][w].at = to]
      BY <2>2 DEF StoreSeq, StoreTs
    <3>2. /\ worker[r][w].at \in InCallback /\ UNCHANGED << pc, running >>
          /\ worker'[r][w].at = to
          /\ \A q \in Role : \A v \in Worker :
               q # r \/ v # w => worker'[q][v] = worker[q][v]
      BY <1>1, <2>2, <3>1 DEF StoreSeq, StoreTs, Thread, InCallback
    <3> QED BY <1>1, <3>2 DEF Control, InCallback
  <2>3. CASE Report(r, w)
    BY <1>1, <2>3 DEF Report, Control, Empty
  <2>4. CASE EndWorker(r, w)
    BY <1>1, <2>4 DEF EndWorker, Control, Empty
  <2> QED BY <1>5, <2>1, <2>2, <2>3, <2>4 DEF ThreadStep
<1>6. CASE UNCHANGED vars
  BY <1>6 DEF vars, Control
<1> QED BY <1>2, <1>3, <1>4, <1>5, <1>6 DEF Next

---------------------------------------------------------------------------
(* The schedule.                                                           *)

(* The plan of a run: a number is drawn only in a period that has begun    *)
(* before the end of the run, and the deadline moves by one period each.   *)
Schedule ==
  \A r \in Role :
    /\ pc[r] \in {"start", "enter"} => my_seq[r] = 0
    /\ pc[r] \notin {"start", "enter"} =>
         deadline[r] = t0[r] + my_seq[r] * Period[r]
    /\ my_seq[r] > 0 =>
         /\ (my_seq[r] - 1) * Period[r] < Duration[r]
         /\ t0[r] + (my_seq[r] - 1) * Period[r] <= now[r]

(* What multiplication and division by a period give.                      *)
LEMMA Products ==
  ASSUME NEW m \in Nat, NEW p \in Nat \ {0}
  PROVE  /\ 0 * p = 0 /\ m <= m * p /\ m * p \in Nat
         /\ (m + 1) * p = m * p + p
         /\ \A x \in Nat : m * p <= x => m <= x \div p
<1>1. 0 * p = 0 /\ m <= m * p /\ m * p \in Nat /\ (m + 1) * p = m * p + p
  OBVIOUS
<1>2. ASSUME NEW x \in Nat, m * p <= x PROVE m <= x \div p
  <2> DEFINE q == x \div p
             k == x % p
  <2>1. x = p * q + k /\ k < p /\ k \in Nat /\ q \in Nat
    OBVIOUS
  <2> HIDE DEF q, k
  <2>2. SUFFICES ASSUME m > q PROVE FALSE
    BY <2>1 DEF q
  <2>3. m - (q + 1) \in Nat
    BY <2>1, <2>2
  <2>4. m * p = (m - (q + 1)) * p + p * q + p
    BY <2>1
  <2>5. (m - (q + 1)) * p \in Nat
    BY <2>3
  <2> QED BY <1>2, <2>1, <2>4, <2>5
<1> QED BY <1>1, <1>2

(* A period that begins before the end of the run is in its plan.          *)
LEMMA PeriodsBegun ==
  ASSUME NEW r \in Role, NEW m \in Nat, m * Period[r] < Duration[r]
  PROVE  m + 1 <= Plan(r)
<1> DEFINE p == Period[r]
           d == Duration[r]
<1>1. p \in Nat \ {0} /\ d \in Nat /\ m * p < d
  BY BenchAssumption
<1> HIDE DEF p, d
<1>2. m * p \in Nat /\ (m + 1) * p = m * p + p /\ m + 1 \in Nat
  BY <1>1, Products
<1>3. (m + 1) * p <= d + p - 1 /\ d + p - 1 \in Nat
  BY <1>1, <1>2
<1>4. m + 1 <= (d + p - 1) \div p
  BY <1>1, <1>2, <1>3, Products
<1> QED BY <1>4 DEF Plan, p, d

(* No more numbers are drawn than the plan has, so none is beyond the last *)
(* one of the number space.                                                *)
LEMMA RunIsShort ==
  ASSUME TypeOK, Schedule, NEW r \in Role
  PROVE  my_seq[r] \in Nat /\ (my_seq[r] > 0 => my_seq[r] <= Plan(r))
<1>1. my_seq[r] \in Nat
  BY FreshValues DEF TypeOK
<1>2. ASSUME my_seq[r] > 0 PROVE my_seq[r] <= Plan(r)
  <2>1. my_seq[r] - 1 \in Nat /\ (my_seq[r] - 1) + 1 = my_seq[r]
    BY <1>1, <1>2
  <2>2. (my_seq[r] - 1) * Period[r] < Duration[r]
    BY <1>2 DEF Schedule
  <2> QED BY <2>1, <2>2, PeriodsBegun
<1> QED BY <1>1, <1>2

(* Drawing a number does not wrap: it is the number of a period begun.     *)
LEMMA DrawsNext ==
  ASSUME TypeOK, Schedule, NEW r \in Role, TakeSlot(r)
  PROVE  /\ NextSeq(my_seq[r]) = my_seq[r] + 1
         /\ my_seq[r] * Period[r] < Duration[r]
<1>1. /\ my_seq[r] \in Seqs /\ my_seq[r] \in Nat
      /\ Period[r] \in Nat \ {0} /\ Duration[r] \in Nat
      /\ t0[r] \in Nat /\ clock[r] \in Nat /\ deadline[r] \in Nat
      /\ NumSeqs \in Nat
  BY BenchAssumption, FreshValues, RingAssumption DEF TypeOK
<1>2. my_seq[r] * Period[r] \in Nat
  BY <1>1, Products
<1>3. /\ deadline[r] = t0[r] + my_seq[r] * Period[r]
      /\ clock[r] < t0[r] + Duration[r] /\ deadline[r] <= clock[r]
  BY DEF TakeSlot, DrawSlot, Goto, t_end, Schedule
<1>4. my_seq[r] * Period[r] < Duration[r]
  BY <1>1, <1>2, <1>3
<1>5. my_seq[r] + 1 <= Plan(r) /\ Plan(r) < NumSeqs
  BY <1>1, <1>4, PeriodsBegun, BenchAssumption
<1>6. Plan(r) \in Int
  BY <1>1 DEF Plan
<1>7. my_seq[r] + 1 # NumSeqs
  BY <1>1, <1>5, <1>6
<1> QED BY <1>1, <1>4, <1>7, NextSeqWraps

(* The packet that is being put together carries the number just drawn.    *)
OwnPacket ==
  \A r \in Role :
    pc[r] \in {"load", "load_seq", "load_ts", "record", "send"} =>
      my_seq[r] > 0 /\ pkt[r].own_seq = my_seq[r] /\ pkt[r].run = run[r]

(* No number is drawn yet.                                                 *)
LEMMA ScheduleInit == Init => Schedule /\ OwnPacket
PROOF BY DEF Init, Schedule, OwnPacket

(* Only entering the loop, drawing a number and a restart touch the plan,  *)
(* and a number is drawn before the end of the run and not ahead of its    *)
(* time.                                                                   *)
LEMMA ScheduleStep ==
  TypeOK /\ Schedule /\ OwnPacket /\ [Next]_vars => Schedule' /\ OwnPacket'
<1> SUFFICES ASSUME TypeOK, Schedule, OwnPacket, [Next]_vars
             PROVE  Schedule' /\ OwnPacket'
  OBVIOUS
<1> USE DEF locals, echoVars
<1>1. /\ pc \in [Role -> PcMain] /\ clock \in [Role -> Nat]
      /\ t0 \in [Role -> Nat] /\ deadline \in [Role -> Nat]
      /\ now \in [Role -> Nat] /\ my_seq \in [Role -> Nat]
      /\ run \in [Role -> Nat] /\ pkt \in [Role -> Packet]
      /\ Period \in [Role -> Nat \ {0}] /\ Duration \in [Role -> Nat]
  BY BenchAssumption, FreshValues DEF TypeOK
<1>2. ASSUME UNCHANGED << pc, t0, deadline, now, my_seq, pkt, run >>
      PROVE  Schedule' /\ OwnPacket'
  BY <1>2 DEF Schedule, OwnPacket
<1>3. ASSUME NEW r \in Role, MainStep(r) PROVE Schedule' /\ OwnPacket'
  <2> USE DEF Goto, Move
  <2>1. CASE Enter(r)
    <3>1. my_seq[r] = 0 /\ 0 * Period[r] = 0
      BY <1>1, <2>1, Products DEF Enter, Schedule
    <3>2. Schedule'
      BY <1>1, <2>1, <3>1 DEF Enter, Schedule
    <3>3. OwnPacket'
      BY <1>1, <2>1 DEF Enter, OwnPacket
    <3> QED BY <3>2, <3>3
  <2>2. CASE TakeSlot(r)
    <3> DEFINE n == my_seq[r]
    <3>1. /\ pc' = [pc EXCEPT ![r] = "load"] /\ pc[r] = "loop"
          /\ now' = [now EXCEPT ![r] = clock[r]]
          /\ deadline' = [deadline EXCEPT ![r] = deadline[r] + Period[r]]
          /\ my_seq' = [my_seq EXCEPT ![r] = n + 1]
          /\ UNCHANGED << t0, run >>
      BY <2>2, DrawsNext DEF TakeSlot, DrawSlot
    <3>2. /\ n \in Nat /\ Period[r] \in Nat \ {0}
          /\ (n + 1) * Period[r] = n * Period[r] + Period[r]
          /\ n * Period[r] \in Nat
      BY <1>1, Products
    <3>3. /\ deadline[r] = t0[r] + n * Period[r]
          /\ clock[r] < t0[r] + Duration[r] /\ deadline[r] <= clock[r]
      BY <1>1, <2>2, <3>1 DEF TakeSlot, t_end, Schedule
    <3>4. /\ n * Period[r] < Duration[r]
          /\ t0[r] + n * Period[r] <= clock[r]
          /\ deadline[r] + Period[r] = t0[r] + (n + 1) * Period[r]
          /\ (n + 1) - 1 = n /\ n + 1 > 0
      BY <1>1, <3>2, <3>3
    <3>5. ASSUME NEW q \in Role
          PROVE  /\ pc'[q] \in {"start", "enter"} => my_seq'[q] = 0
                 /\ pc'[q] \notin {"start", "enter"} =>
                      deadline'[q] = t0'[q] + my_seq'[q] * Period[q]
                 /\ my_seq'[q] > 0 =>
                      /\ (my_seq'[q] - 1) * Period[q] < Duration[q]
                      /\ t0'[q] + (my_seq'[q] - 1) * Period[q] <= now'[q]
      <4>1. CASE q = r
        BY <1>1, <3>1, <3>4, <4>1
      <4>2. CASE q # r
        BY <1>1, <3>1, <4>2 DEF Schedule
      <4> QED BY <4>1, <4>2
    <3>6. OwnPacket'
      <4>1. pkt' = [pkt EXCEPT ![r] = [pkt[r] EXCEPT !.own_seq = n + 1,
                                                     !.run = run[r]]]
        BY <1>1, <2>2, DrawsNext DEF TakeSlot, DrawSlot
      <4> QED BY <1>1, <3>1, <4>1 DEF OwnPacket, Packet
    <3> QED BY <3>5, <3>6 DEF Schedule
  <2>3. CASE LoadSeq(r) \/ LoadTs(r)
    <3>1. UNCHANGED << t0, deadline, now, my_seq, run >>
      BY <2>3 DEF LoadSeq, LoadTs
    <3>2. /\ \/ pc[r] = "load" /\ pc' = [pc EXCEPT ![r] = "load_ts"]
             \/ pc[r] = "load" /\ pc' = [pc EXCEPT ![r] = "load_seq"]
             \/ /\ pc[r] \in {"load_seq", "load_ts"}
                /\ pc' = [pc EXCEPT ![r] = "record"]
          /\ pkt'[r].own_seq = pkt[r].own_seq /\ pkt'[r].run = pkt[r].run
          /\ \A q \in Role : q # r => pkt'[q] = pkt[q]
      BY <1>1, <2>3 DEF LoadSeq, LoadTs, Packet
    <3> QED BY <1>1, <3>1, <3>2 DEF Schedule, OwnPacket
  <2>4. CASE Start(r)
    BY <1>1, <2>4 DEF Start, Schedule, OwnPacket
  <2>5. CASE LeaveLoop(r) \/ Sleep(r) \/ Wake(r)
    BY <1>1, <2>5 DEF LeaveLoop, Sleep, Wake, Schedule, OwnPacket
  <2>6. CASE Record(r) \/ Send(r)
    <3>1. /\ UNCHANGED << t0, deadline, now, my_seq, pkt, run >>
          /\ \/ pc[r] = "record" /\ pc' = [pc EXCEPT ![r] = "send"]
             \/ pc[r] = "send" /\ pc' = [pc EXCEPT ![r] = "loop"]
      BY <2>6 DEF Record, Send
    <3> QED BY <1>1, <3>1 DEF Schedule, OwnPacket
  <2>7. CASE StopTransport(r) \/ JoinWorkers(r)
    BY <1>1, <2>7 DEF StopTransport, JoinWorkers, Schedule, OwnPacket
  <2> QED
    BY <1>3, <2>1, <2>2, <2>3, <2>4, <2>5, <2>6, <2>7 DEF MainStep
<1>4. ASSUME NEW r \in Role, Restart(r) PROVE Schedule' /\ OwnPacket'
  <2>1. /\ pc' = [pc EXCEPT ![r] = "start"]
        /\ my_seq' = [my_seq EXCEPT ![r] = 0]
        /\ t0' = [t0 EXCEPT ![r] = 0] /\ deadline' = [deadline EXCEPT ![r] = 0]
        /\ now' = [now EXCEPT ![r] = 0]
        /\ pkt' = [pkt EXCEPT ![r] = NoPacket]
        /\ run' = [run EXCEPT ![r] = @ + 1]
    BY <1>4, Zenon DEF Restart
  <2> QED BY <1>1, <2>1 DEF Schedule, OwnPacket
<1>5. ASSUME NEW r \in Role,
             \/ Tick(r) \/ Signal(r)
             \/ \E w \in Worker : Take(r, w) \/ ThreadStep(r, w)
      PROVE  UNCHANGED << pc, t0, deadline, now, my_seq, pkt, run >>
  BY <1>5
  DEF Tick, Signal, Take, ThreadStep, StoreSeq, StoreTs, Report, EndWorker
<1>6. CASE UNCHANGED vars
  BY <1>2, <1>6 DEF vars
<1> QED BY <1>2, <1>3, <1>4, <1>5, <1>6 DEF Next

(* Delays do not accumulate: the deadline stays on the grid, whatever the  *)
(* scheduler, the network and the peer do.                                 *)
LEMMA ScheduleIsKept == TypeOK /\ Schedule => NoDrift /\ SendsWithinPlan
<1> SUFFICES ASSUME TypeOK, Schedule PROVE NoDrift /\ SendsWithinPlan
  OBVIOUS
<1>1. NoDrift
  BY DEF NoDrift, Schedule
<1>2. ASSUME NEW r \in Role, my_seq[r] > 0
      PROVE  my_seq[r] <= Plan(r)
  BY <1>2, RunIsShort
<1>3. SendsWithinPlan
  BY <1>2 DEF SendsWithinPlan, Schedule
<1> QED BY <1>1, <1>3

---------------------------------------------------------------------------
(* The ring and the numbers that are acknowledged.                         *)

\* What a step can do to the recorder of a role and to what it has recorded.
StartsAfresh(r) ==
  /\ run'[r] = run[r] + 1 /\ Recorded(r)' = 0
  /\ stats'[r] = FreshRecorder

RecordsSend(r) ==
  /\ run'[r] = run[r] /\ Recorded(r)' = Recorded(r) + 1
  /\ Recorded(r) + 1 \in Seqs
  /\ stats'[r] = OnSend(stats[r], Recorded(r) + 1, now[r])

KeepsRing(r) ==
  /\ run'[r] = run[r] /\ Recorded(r)' = Recorded(r)
  /\ stats'[r].ring = stats[r].ring
  /\ stats'[r].ring_head = stats[r].ring_head

(* A number counts as recorded from on_send on, not from the drawing on.   *)
LEMMA RecordedNumbers ==
  ASSUME TypeOK, Schedule, OwnPacket, NEW r \in Role
  PROVE  /\ Recorded(r) \in Nat
         /\ pc[r] = "record" => Recorded(r) + 1 = my_seq[r]
         /\ pc[r] = "send" => Recorded(r) = my_seq[r]
PROOF BY RunIsShort DEF Recorded, OwnPacket

(* There is no other way.                                                  *)
LEMMA RecorderSteps ==
  ASSUME TypeOK, Schedule, OwnPacket, [Next]_vars, NEW r \in Role
  PROVE  StartsAfresh(r) \/ RecordsSend(r) \/ KeepsRing(r)
<1> USE DEF locals, echoVars
<1>1. /\ pc \in [Role -> PcMain] /\ my_seq \in [Role -> Nat]
      /\ run \in [Role -> Nat] /\ stats \in [Role -> Recorder]
  BY FreshValues DEF TypeOK
<1>2. ASSUME pc'[r] = pc[r], my_seq'[r] = my_seq[r], run'[r] = run[r],
             stats'[r] = stats[r]
      PROVE  KeepsRing(r)
  BY <1>2 DEF KeepsRing, Recorded
<1>3. ASSUME NEW q \in Role, MainStep(q)
      PROVE  RecordsSend(r) \/ KeepsRing(r)
  <2> USE DEF Goto, Move
  <2>1. CASE q # r
    BY <1>1, <1>2, <1>3, <2>1
    DEF MainStep, Start, Enter, LeaveLoop, Sleep, Wake, TakeSlot, DrawSlot,
        LoadSeq, LoadTs, Record, Send, StopTransport, JoinWorkers
  <2>2. CASE q = r /\ Record(q)
    <3>1. /\ stats'[r] = OnSend(stats[r], my_seq[r], now[r])
          /\ pc[r] = "record" /\ pc'[r] = "send"
          /\ my_seq'[r] = my_seq[r] /\ run'[r] = run[r]
      BY <1>1, <2>2 DEF Record
    <3>2. /\ my_seq[r] = Recorded(r) + 1 /\ Recorded(r)' = my_seq[r]
          /\ my_seq[r] \in Seqs
      BY <3>1, RecordedNumbers DEF Recorded, TypeOK
    <3> QED BY <3>1, <3>2 DEF RecordsSend
  <2>3. CASE q = r /\ TakeSlot(q)
    <3>1. /\ my_seq'[r] = my_seq[r] + 1
          /\ pc[r] = "loop" /\ pc'[r] = "load"
          /\ stats'[r] = stats[r] /\ run'[r] = run[r]
      BY <1>1, <2>3, DrawsNext DEF TakeSlot, DrawSlot
    <3>2. Recorded(r)' = Recorded(r)
      BY <1>1, <3>1 DEF Recorded
    <3> QED BY <3>1, <3>2 DEF KeepsRing
  <2>4. CASE q = r /\ ~ Record(q) /\ ~ TakeSlot(q)
    <3>1. UNCHANGED << my_seq, run, stats >>
      BY <1>3, <2>4
      DEF MainStep, Start, Enter, LeaveLoop, Sleep, Wake, LoadSeq, LoadTs,
          Send, StopTransport, JoinWorkers
    <3>2. pc'[r] \in {"load", "load_seq", "load_ts", "record"} <=>
            pc[r] \in {"load", "load_seq", "load_ts", "record"}
      BY <1>1, <1>3, <2>4
      DEF MainStep, Start, Enter, LeaveLoop, Sleep, Wake, LoadSeq, LoadTs,
          Send, StopTransport, JoinWorkers
    <3> QED BY <3>1, <3>2 DEF KeepsRing, Recorded
  <2> QED BY <2>1, <2>2, <2>3, <2>4
<1>4. ASSUME NEW q \in Role, Restart(q)
      PROVE  StartsAfresh(r) \/ KeepsRing(r)
  <2>1. /\ pc' = [pc EXCEPT ![q] = "start"]
        /\ my_seq' = [my_seq EXCEPT ![q] = 0]
        /\ run' = [run EXCEPT ![q] = @ + 1]
        /\ stats' = [stats EXCEPT ![q] = FreshRecorder]
    BY <1>4, Zenon DEF Restart, FreshRecorder
  <2>2. CASE q = r
    BY <1>1, <2>1, <2>2 DEF StartsAfresh, Recorded
  <2>3. CASE q # r
    BY <1>1, <1>2, <2>1, <2>3
  <2> QED BY <2>2, <2>3
<1>5. ASSUME NEW q \in Role, NEW w \in Worker, Report(q, w)
      PROVE  KeepsRing(r)
  <2>1. CASE q = r
    <3> DEFINE t == worker[r][w]
    <3>1. t \in Thread
      BY DEF TypeOK
    <3>2. t.recv_ts_ns \in Int /\ t.msg.own_seq \in Seqs
          /\ t.msg.peer_last_seq \in Seqs
      BY <3>1 DEF Thread, Message
    <3>3. /\ stats'[r] = OnRecv(stats[r], t.recv_ts_ns, t.msg.own_seq,
                                t.msg.peer_last_seq)
          /\ UNCHANGED << pc, my_seq, run >>
      BY <1>1, <1>5, <2>1 DEF Report
    <3>4. stats[r] \in Recorder
      BY <1>1
    <3> HIDE DEF t
    <3>5. /\ stats'[r].ring = stats[r].ring
          /\ stats'[r].ring_head = stats[r].ring_head
      BY <3>2, <3>3, <3>4, OnRecvTakesSample
    <3> QED BY <3>3, <3>5 DEF KeepsRing, Recorded
  <2>2. CASE q # r
    BY <1>1, <1>2, <1>5, <2>2 DEF Report
  <2> QED BY <2>1, <2>2
<1>6. ASSUME NEW q \in Role,
             \/ Tick(q) \/ Signal(q)
             \/ \E w \in Worker : \/ Take(q, w) \/ StoreSeq(q, w)
                                  \/ StoreTs(q, w) \/ EndWorker(q, w)
      PROVE  KeepsRing(r)
  BY <1>2, <1>6 DEF Tick, Signal, Take, StoreSeq, StoreTs, EndWorker
<1>7. CASE UNCHANGED vars
  BY <1>2, <1>7 DEF vars
<1> QED BY <1>3, <1>4, <1>5, <1>6, <1>7 DEF Next, ThreadStep

(* The slot of age a holds the number recorded a sends ago, and 0 where    *)
(* nothing was recorded yet.  Numbers do not wrap within a run, so no two  *)
(* slots hold the same one, except 0.                                      *)
RingNumbers ==
  \A r \in Role : \A a \in Age :
    stats[r].ring[SlotBehind(stats[r].ring_head, a)].own_seq =
      IF a < Recorded(r) THEN Recorded(r) - a ELSE 0

(* Initially no slot holds a number.                                       *)
LEMMA FreshRing ==
  /\ FreshRecorder.ring_head \in Slots
  /\ \A i \in Slots : FreshRecorder.ring[i] = [own_seq |-> 0, send_ts_ns |-> 0]
  /\ FreshRecorder.rtts_ns = << >>
PROOF BY NewRecorderIsRecorder, RingAssumption
      DEF FreshRecorder, NewRecorder, Slots

(* on_send makes every recorded number one older.                          *)
LEMMA RingNumbersStep ==
  ASSUME TypeOK, Schedule, OwnPacket, RingNumbers, [Next]_vars
  PROVE  RingNumbers'
<1> SUFFICES ASSUME NEW r \in Role, NEW a \in Age
             PROVE  stats'[r].ring[SlotBehind(stats'[r].ring_head, a)].own_seq =
                      IF a < Recorded(r)' THEN Recorded(r)' - a ELSE 0
  BY DEF RingNumbers
<1>1. /\ stats[r] \in Recorder /\ stats[r].ring_head \in Slots
      /\ stats[r].ring \in [Slots -> SendRecord]
      /\ Recorded(r) \in Nat /\ a \in Nat
  <2>1. stats[r] \in Recorder
    BY DEF TypeOK
  <2> QED BY <2>1, RecordedNumbers, RingAssumption DEF Recorder, Age
<1>2. CASE StartsAfresh(r)
  <2>1. SlotBehind(stats'[r].ring_head, a) \in Slots
    BY <1>2, FreshRing, SlotsAreAges DEF StartsAfresh
  <2> QED BY <1>1, <1>2, <2>1, FreshRing DEF StartsAfresh
<1>3. CASE KeepsRing(r)
  BY <1>1, <1>3 DEF KeepsRing, RingNumbers
<1>4. CASE RecordsSend(r)
  <2> DEFINE h == stats[r].ring_head
             n == Recorded(r)
  <2>1. now[r] \in Int
    BY DEF TypeOK
  <2>2. /\ stats'[r].ring = [stats[r].ring EXCEPT
                               ![h] = [own_seq |-> n + 1, send_ts_ns |-> now[r]]]
        /\ stats'[r].ring_head = (h + 1) % RingSize
    BY <1>1, <1>4, <2>1, OnSendWrites DEF RecordsSend
  <2>3. CASE a = 0
    BY <1>1, <1>4, <2>2, <2>3, HeadMoves DEF RecordsSend
  <2>4. CASE a # 0
    <3>1. /\ a - 1 \in Age
          /\ SlotBehind(stats'[r].ring_head, a) = SlotBehind(h, a - 1)
          /\ SlotBehind(h, a - 1) \in Slots \ {h}
      BY <1>1, <2>2, <2>4, HeadMoves
    <3>2. stats[r].ring[SlotBehind(h, a - 1)].own_seq =
            IF a - 1 < n THEN n - (a - 1) ELSE 0
      BY <3>1 DEF RingNumbers
    <3>3. stats'[r].ring[SlotBehind(stats'[r].ring_head, a)] =
            stats[r].ring[SlotBehind(h, a - 1)]
      BY <1>1, <2>2, <3>1
    <3>4. a - 1 < n <=> a < n + 1
      BY <1>1
    <3> QED BY <1>1, <1>4, <3>2, <3>3, <3>4 DEF RecordsSend
  <2> QED BY <2>3, <2>4
<1> QED BY <1>2, <1>3, <1>4, RecorderSteps

(* A number of this run that was recorded, and not overwritten since, is   *)
(* found by the lookup.                                                    *)
LEMMA RecordedIsFound ==
  ASSUME TypeOK, Schedule, OwnPacket, RingNumbers, NEW r \in Role,
         NEW s \in Nat \ {0}, s <= Recorded(r), s + RingSize > Recorded(r)
  PROVE  Found(stats[r], s)
<1> DEFINE a == Recorded(r) - s
<1>1. Recorded(r) \in Nat /\ stats[r].ring_head \in Slots
  <2>1. stats[r] \in Recorder
    BY DEF TypeOK
  <2> QED BY <2>1, RecordedNumbers DEF Recorder
<1>2. a \in Age /\ a < Recorded(r) /\ Recorded(r) - a = s
  BY <1>1, RingAssumption DEF Age
<1>3. SlotBehind(stats[r].ring_head, a) \in Matches(stats[r], s)
  BY <1>1, <1>2, SlotsAreAges DEF RingNumbers, Matches
<1> QED BY <1>3 DEF Found


---------------------------------------------------------------------------
(* What is on its way.                                                     *)

(* The numbers that r has recorded so far, each with the run it was        *)
(* recorded in; of earlier runs any number will do.  Run 0 stands for      *)
(* "nothing received yet", which the program writes as number 0.           *)
Numbers(r) ==
  {n \in Nat \X Nat :
     /\ n[2] <= run[r]
     /\ n[2] = run[r] => n[1] <= Recorded(r)
     /\ n[2] = 0 => n[1] = 0}

\* Message m to r: it carries a number of the peer and answers one of r.
Genuine(r, m) ==
  /\ << m.own_seq, m.run >> \in Numbers(Peer(r))
  /\ << m.peer_last_seq, m.ack_run >> \in Numbers(r)

(* Everybody who holds a number has it from the role that recorded it.     *)
Carried ==
  \A r \in Role :
    /\ \A m \in net[r] : Genuine(r, m)
    /\ \A w \in Worker : Genuine(r, worker[r][w].msg)
    /\ << peer_last_seq_recv[r], peer_last_run[r] >> \in Numbers(Peer(r))
    /\ << pkt[r].peer_last_seq, pkt[r].ack_run >> \in Numbers(Peer(r))

(* The peer of the peer is oneself.                                        *)
LEMMA PeerOfPeer == \A r \in Role : Peer(r) \in Role /\ Peer(Peer(r)) = r
PROOF BY DEF Role, Peer

(* Having received nothing is genuine.                                     *)
LEMMA NothingIsGenuine ==
  ASSUME TypeOK, Schedule, OwnPacket
  PROVE  \A r \in Role : /\ << 0, 0 >> \in Numbers(r)
                         /\ Genuine(r, NoMessage)
<1>1. ASSUME NEW r \in Role PROVE << 0, 0 >> \in Numbers(r)
  <2>1. Recorded(r) \in Nat /\ run[r] \in Nat \ {0}
    BY RecordedNumbers DEF TypeOK
  <2> QED BY <2>1 DEF Numbers
<1>2. /\ NoMessage.own_seq = 0 /\ NoMessage.run = 0
      /\ NoMessage.peer_last_seq = 0 /\ NoMessage.ack_run = 0
  BY DEF NoMessage, NoPacket, OnWire
<1> QED BY <1>1, <1>2, PeerOfPeer DEF Genuine

(* What was recorded stays recorded; a restart only makes it the number of *)
(* an earlier run.                                                         *)
LEMMA NumbersStay ==
  ASSUME TypeOK, Schedule, OwnPacket, [Next]_vars, NEW r \in Role
  PROVE  Numbers(r) \subseteq Numbers(r)'
<1>1. Recorded(r) \in Nat /\ run[r] \in Nat
  BY RecordedNumbers DEF TypeOK
<1>2. \/ run'[r] = run[r] + 1
      \/ run'[r] = run[r] /\ Recorded(r)' \in {Recorded(r), Recorded(r) + 1}
  BY <1>1, RecorderSteps DEF StartsAfresh, RecordsSend, KeepsRing
<1>3. ASSUME NEW n \in Numbers(r) PROVE n \in Numbers(r)'
  <2>1. /\ n \in Nat \X Nat /\ n[1] \in Nat /\ n[2] \in Nat
        /\ n[2] <= run[r]
        /\ n[2] = run[r] => n[1] <= Recorded(r)
        /\ n[2] = 0 => n[1] = 0
    BY DEF Numbers
  <2>2. n[2] <= run'[r] /\ (n[2] = run'[r] => n[1] <= Recorded(r)')
    BY <1>1, <1>2, <2>1
  <2> QED BY <2>1, <2>2 DEF Numbers
<1> QED BY <1>3

(* Nobody has received anything yet.                                       *)
LEMMA CarriedInit == Init => Carried
<1> SUFFICES ASSUME Init, NEW r \in Role
             PROVE  /\ \A m \in net[r] : Genuine(r, m)
                    /\ \A w \in Worker : Genuine(r, worker[r][w].msg)
                    /\ << peer_last_seq_recv[r], peer_last_run[r] >>
                         \in Numbers(Peer(r))
                    /\ << pkt[r].peer_last_seq, pkt[r].ack_run >>
                         \in Numbers(Peer(r))
  BY DEF Carried
<1>1. \A q \in Role : << 0, 0 >> \in Numbers(q) /\ Genuine(q, NoMessage)
  BY TypesInit, ScheduleInit, NothingIsGenuine
<1>2. /\ net[r] = {} /\ \A w \in Worker : worker[r][w].msg = NoMessage
      /\ peer_last_seq_recv[r] = 0 /\ peer_last_run[r] = 0
      /\ pkt[r].peer_last_seq = 0 /\ pkt[r].ack_run = 0
  BY DEF Init, Empty, NoPacket
<1> QED BY <1>1, <1>2, PeerOfPeer

(* Every step hands on what somebody held, or sends the number that was    *)
(* just recorded.                                                          *)
LEMMA CarriedStep ==
  ASSUME TypeOK, Schedule, OwnPacket, Carried, [Next]_vars
  PROVE  Carried'
<1> USE DEF locals, echoVars
<1>1. /\ pc \in [Role -> PcMain] /\ run \in [Role -> Nat \ {0}]
      /\ my_seq \in [Role -> Nat]
      /\ pkt \in [Role -> Packet] /\ worker \in [Role -> [Worker -> Thread]]
      /\ net \in [Role -> SUBSET Message]
      /\ peer_last_seq_recv \in [Role -> Seqs]
      /\ peer_last_run \in [Role -> Nat]
  BY FreshValues DEF TypeOK
<1>2. \A r \in Role : Numbers(r) \subseteq Numbers(r)'
  BY NumbersStay
<1>3. \A r \in Role : << 0, 0 >> \in Numbers(r) /\ Genuine(r, NoMessage)
  BY NothingIsGenuine
<1> DEFINE
      NetOK == \A r \in Role : \A m \in net'[r] : Genuine(r, m)
      WorkersOK == \A r \in Role : \A w \in Worker : Genuine(r, worker'[r][w].msg)
      EchoOK == \A r \in Role :
        << peer_last_seq_recv'[r], peer_last_run'[r] >> \in Numbers(Peer(r))
      PktOK == \A r \in Role :
        << pkt'[r].peer_last_seq, pkt'[r].ack_run >> \in Numbers(Peer(r))
<1>4. net' = net => NetOK
  BY DEF Carried
<1>5. worker' = worker => WorkersOK
  BY DEF Carried
<1>6. peer_last_seq_recv' = peer_last_seq_recv /\ peer_last_run' = peer_last_run
        => EchoOK
  BY DEF Carried
<1>7. pkt' = pkt => PktOK
  BY DEF Carried
<1>8. NetOK
  <2>1. ASSUME NEW q \in Role, Send(q) PROVE NetOK
    <3>1. << my_seq[q], run[q] >> \in Numbers(q)
      <4>1. Recorded(q) = my_seq[q] /\ pc[q] = "send"
        BY <2>1, RecordedNumbers DEF Send, Goto
      <4> QED BY <1>1, <4>1 DEF Numbers
    <3>2. /\ OnWire(pkt[q]).own_seq = my_seq[q] /\ OnWire(pkt[q]).run = run[q]
          /\ OnWire(pkt[q]).peer_last_seq = pkt[q].peer_last_seq
          /\ OnWire(pkt[q]).ack_run = pkt[q].ack_run
      BY <2>1 DEF OnWire, Send, Goto, OwnPacket
    <3>3. << pkt[q].peer_last_seq, pkt[q].ack_run >> \in Numbers(Peer(q))
      BY DEF Carried
    <3>4. Genuine(Peer(q), OnWire(pkt[q]))
      BY <3>1, <3>2, <3>3, PeerOfPeer DEF Genuine
    <3>5. net' = [net EXCEPT ![Peer(q)] = net[Peer(q)] \cup {OnWire(pkt[q])}]
      BY <2>1 DEF Send
    <3> QED BY <1>1, <3>4, <3>5, PeerOfPeer DEF Carried
  <2>2. ASSUME NEW q \in Role, \/ Tick(q) \/ Signal(q) \/ Restart(q)
                               \/ MainStep(q) /\ ~ Send(q)
                               \/ \E w \in Worker : Take(q, w) \/ ThreadStep(q, w)
        PROVE  net' = net
    BY <2>2
    DEF Tick, Signal, Restart, MainStep, Start, Enter, LeaveLoop, Sleep, Wake,
        TakeSlot, DrawSlot, LoadSeq, LoadTs, Record, StopTransport,
        JoinWorkers, Move, Take, ThreadStep, StoreSeq, StoreTs, Report,
        EndWorker
  <2> QED BY <1>4, <2>1, <2>2 DEF Next, vars
<1>9. WorkersOK
  <2>1. ASSUME NEW q \in Role, Start(q) \/ Restart(q) PROVE WorkersOK
    <3>1. PICK at \in {"idle", "none"} :
            worker' = [worker EXCEPT ![q] = [w \in Worker |-> Empty(at)]]
      BY <2>1, Zenon DEF Start, Restart
    <3> QED BY <1>1, <1>3, <3>1 DEF Carried, Empty
  <2>2. ASSUME NEW q \in Role, NEW w \in Worker, Take(q, w) PROVE WorkersOK
    <3>1. PICK m \in net[q] :
            worker' = [worker EXCEPT ![q][w] =
                         [at |-> "seq", msg |-> m, recv_ts_ns |-> clock[q]]]
      BY <2>2 DEF Take
    <3>2. ASSUME NEW r \in Role, NEW v \in Worker
          PROVE  worker'[r][v].msg = IF r = q /\ v = w THEN m
                                                       ELSE worker[r][v].msg
      BY <1>1, <3>1
    <3> QED BY <3>2 DEF Carried
  <2>3. ASSUME NEW q \in Role, NEW w \in Worker, ThreadStep(q, w)
        PROVE  WorkersOK
    <3>1. ASSUME NEW r \in Role, NEW v \in Worker
          PROVE  worker'[r][v].msg \in {worker[r][v].msg, NoMessage}
      <4>1. worker[q][w] \in Thread /\ worker[r][v] \in Thread
        BY <1>1
      <4>2. CASE StoreSeq(q, w)
        <5>1. worker' = [worker EXCEPT ![q][w] = [@ EXCEPT !.at = "ts"]]
          BY <4>2 DEF StoreSeq
        <5> QED BY <1>1, <4>1, <5>1 DEF Thread
      <4>3. CASE StoreTs(q, w)
        <5>1. worker' = [worker EXCEPT ![q][w] = [@ EXCEPT !.at = "stats"]]
          BY <4>3 DEF StoreTs
        <5> QED BY <1>1, <4>1, <5>1 DEF Thread
      <4>4. CASE Report(q, w) \/ EndWorker(q, w)
        <5>1. PICK at \in {"idle", "ended"} :
                worker' = [worker EXCEPT ![q][w] = Empty(at)]
          BY <4>4 DEF Report, EndWorker
        <5> QED BY <1>1, <4>1, <5>1 DEF Empty
      <4> QED BY <2>3, <4>2, <4>3, <4>4 DEF ThreadStep
    <3> QED BY <1>3, <3>1 DEF Carried
  <2>4. ASSUME NEW q \in Role,
               Tick(q) \/ Signal(q) \/ (MainStep(q) /\ ~ Start(q))
        PROVE  worker' = worker
    BY <2>4
    DEF Tick, Signal, MainStep, Enter, LeaveLoop, Sleep, Wake, TakeSlot,
        DrawSlot, LoadSeq, LoadTs, Record, Send, StopTransport, JoinWorkers,
        Move
  <2> QED BY <1>5, <2>1, <2>2, <2>3, <2>4 DEF Next, MainStep, vars
<1>10. EchoOK
  <2>1. ASSUME NEW q \in Role, NEW w \in Worker, StoreSeq(q, w) PROVE EchoOK
    BY <1>1, <2>1 DEF StoreSeq, Carried, Genuine
  <2>2. ASSUME NEW q \in Role, Restart(q) PROVE EchoOK
    <3>1. /\ peer_last_seq_recv' = [peer_last_seq_recv EXCEPT ![q] = 0]
          /\ peer_last_run' = [peer_last_run EXCEPT ![q] = 0]
      BY <2>2, Zenon DEF Restart
    <3> QED BY <1>1, <1>3, <3>1, PeerOfPeer DEF Carried
  <2>3. ASSUME NEW q \in Role,
               \/ Tick(q) \/ Signal(q) \/ MainStep(q)
               \/ \E w \in Worker : \/ Take(q, w) \/ StoreTs(q, w)
                                    \/ Report(q, w) \/ EndWorker(q, w)
        PROVE  peer_last_seq_recv' = peer_last_seq_recv
               /\ peer_last_run' = peer_last_run
    BY <2>3
    DEF Tick, Signal, MainStep, Start, Enter, LeaveLoop, Sleep, Wake, TakeSlot,
        DrawSlot, LoadSeq, LoadTs, Record, Send, StopTransport, JoinWorkers,
        Move, Take, StoreTs, Report, EndWorker
  <2> QED BY <1>6, <2>1, <2>2, <2>3 DEF Next, ThreadStep, vars
<1>11. PktOK
  <2>1. ASSUME NEW q \in Role, TakeSlot(q) \/ LoadTs(q) PROVE PktOK
    <3>1. \A r \in Role : /\ pkt'[r].peer_last_seq = pkt[r].peer_last_seq
                          /\ pkt'[r].ack_run = pkt[r].ack_run
      <4>1. pkt[q] \in Packet
        BY <1>1
      <4>2. CASE TakeSlot(q)
        <5>1. pkt' = [pkt EXCEPT ![q] = [@ EXCEPT !.own_seq = NextSeq(my_seq[q]),
                                                  !.run = run[q]]]
          BY <4>2 DEF TakeSlot, DrawSlot
        <5> QED BY <1>1, <4>1, <5>1 DEF Packet
      <4>3. CASE LoadTs(q)
        <5>1. pkt' = [pkt EXCEPT ![q] =
                        [@ EXCEPT !.peer_recv_ts_ns = peer_last_recv_ts[q]]]
          BY <4>3 DEF LoadTs
        <5> QED BY <1>1, <4>1, <5>1 DEF Packet
      <4> QED BY <2>1, <4>2, <4>3
    <3> QED BY <3>1 DEF Carried
  <2>2. ASSUME NEW q \in Role, LoadSeq(q) PROVE PktOK
    <3>1. /\ pkt'[q].peer_last_seq = peer_last_seq_recv[q]
          /\ pkt'[q].ack_run = peer_last_run[q]
          /\ \A r \in Role : r # q => pkt'[r] = pkt[r]
      BY <1>1, <2>2 DEF LoadSeq, Packet
    <3> QED BY <3>1 DEF Carried
  <2>3. ASSUME NEW q \in Role, Restart(q) PROVE PktOK
    <3>1. pkt' = [pkt EXCEPT ![q] = NoPacket]
      BY <2>3, Zenon DEF Restart
    <3>2. NoPacket.peer_last_seq = 0 /\ NoPacket.ack_run = 0
      BY DEF NoPacket
    <3> QED BY <1>1, <1>3, <3>1, <3>2, PeerOfPeer DEF Carried
  <2>4. ASSUME NEW q \in Role,
               \/ Tick(q) \/ Signal(q)
               \/ MainStep(q) /\ ~ TakeSlot(q) /\ ~ LoadTs(q) /\ ~ LoadSeq(q)
               \/ \E w \in Worker : Take(q, w) \/ ThreadStep(q, w)
        PROVE  pkt' = pkt
    BY <2>4
    DEF Tick, Signal, MainStep, Start, Enter, LeaveLoop, Sleep, Wake, Record,
        Send, StopTransport, JoinWorkers, Move, Take, ThreadStep, StoreSeq,
        StoreTs, Report, EndWorker
  <2> QED BY <1>7, <2>1, <2>2, <2>3, <2>4 DEF Next, MainStep, vars
<1> HIDE DEF NetOK, WorkersOK, EchoOK, PktOK
<1>12. \A r \in Role : Peer(r) \in Role
  BY PeerOfPeer
<1>13. \A r \in Role : \A m : Genuine(r, m) =>
         /\ << m.own_seq, m.run >> \in Numbers(Peer(r))'
         /\ << m.peer_last_seq, m.ack_run >> \in Numbers(r)'
  BY <1>2, <1>12 DEF Genuine
<1> QED
  BY <1>2, <1>8, <1>9, <1>10, <1>11, <1>12, <1>13
  DEF NetOK, WorkersOK, EchoOK, PktOK, Carried, Genuine

(* An acknowledgement on its way names a number that was recorded in the   *)
(* run it was recorded in, so the lookup finds it unless the ring has gone *)
(* round.                                                                  *)
LEMMA CarriedIsFound ==
  TypeOK /\ Schedule /\ OwnPacket /\ RingNumbers /\ Carried => AckedSendIsFound
<1> SUFFICES ASSUME TypeOK, Schedule, OwnPacket, RingNumbers, Carried,
                    NEW r \in Role, NEW m \in Circulating(r),
                    m.peer_last_seq # 0, m.ack_run = run[r]
             PROVE  \/ Found(stats[r], m.peer_last_seq)
                    \/ m.peer_last_seq + RingSize <= Recorded(r)
  BY DEF AckedSendIsFound
<1>1. << m.peer_last_seq, m.ack_run >> \in Numbers(r)
  BY DEF Circulating, Carried, Genuine
<1>2. m.peer_last_seq \in Nat \ {0} /\ m.peer_last_seq <= Recorded(r)
  BY <1>1 DEF Numbers
<1> QED BY <1>2, RecordedIsFound, RecordedNumbers, RingAssumption


---------------------------------------------------------------------------
(* Round trips.                                                            *)

(* Nothing in the ring was sent later than now, on the clock of its own    *)
(* machine.                                                                *)
Stamped ==
  \A r \in Role :
    /\ now[r] <= clock[r]
    /\ \A i \in Slots : stats[r].ring[i].send_ts_ns <= clock[r]

(* A message that a worker holds was stamped after the send it answers.    *)
Answered ==
  \A r \in Role : \A w \in Worker : \A i \in Slots :
    /\ worker[r][w].at \in InCallback
    /\ worker[r][w].msg.peer_last_seq # 0
    /\ worker[r][w].msg.ack_run = run[r]
    /\ stats[r].ring[i].own_seq = worker[r][w].msg.peer_last_seq
    => stats[r].ring[i].send_ts_ns <= worker[r][w].recv_ts_ns

(* Clocks do not go back, and now is read from the clock.                  *)
LEMMA ClockSteps ==
  ASSUME TypeOK, [Next]_vars, NEW r \in Role
  PROVE  /\ clock'[r] \in {clock[r], clock[r] + 1}
         /\ now'[r] \in {now[r], clock[r], 0}
<1> USE DEF locals, echoVars
<1>1. clock \in [Role -> Nat] /\ now \in [Role -> Nat]
  BY DEF TypeOK
<1>2. ASSUME NEW q \in Role, Tick(q)
      PROVE  clock'[r] \in {clock[r], clock[r] + 1} /\ now'[r] = now[r]
  BY <1>1, <1>2 DEF Tick
<1>3. ASSUME NEW q \in Role, TakeSlot(q)
      PROVE  clock'[r] = clock[r] /\ now'[r] \in {now[r], clock[r]}
  BY <1>1, <1>3 DEF TakeSlot, DrawSlot
<1>4. ASSUME NEW q \in Role, Restart(q)
      PROVE  clock'[r] = clock[r] /\ now'[r] \in {now[r], 0}
  <2>1. now' = [now EXCEPT ![q] = 0] /\ clock' = clock
    BY <1>4, Zenon DEF Restart
  <2> QED BY <1>1, <2>1
<1>5. ASSUME NEW q \in Role,
             \/ Signal(q) \/ (MainStep(q) /\ ~ TakeSlot(q))
             \/ \E w \in Worker : Take(q, w) \/ ThreadStep(q, w)
      PROVE  clock' = clock /\ now' = now
  BY <1>5
  DEF Signal, MainStep, Start, Enter, LeaveLoop, Sleep, Wake, LoadSeq, LoadTs,
      Record, Send, StopTransport, JoinWorkers, Move, Take, ThreadStep,
      StoreSeq, StoreTs, Report, EndWorker
<1>6. CASE UNCHANGED vars
  BY <1>6 DEF vars
<1> QED BY <1>2, <1>3, <1>4, <1>5, <1>6 DEF Next

(* on_send is given a time that has been read from the clock.              *)
LEMMA StampedStep ==
  ASSUME TypeOK, Schedule, OwnPacket, Stamped, [Next]_vars
  PROVE  Stamped'
<1> SUFFICES ASSUME NEW r \in Role
             PROVE  /\ now'[r] <= clock'[r]
                    /\ \A i \in Slots : stats'[r].ring[i].send_ts_ns <= clock'[r]
  BY DEF Stamped
<1>1. /\ clock[r] \in Nat /\ now[r] \in Nat /\ stats[r] \in Recorder
      /\ now[r] <= clock[r]
  BY DEF TypeOK, Stamped
<1>2. now'[r] <= clock'[r] /\ clock[r] <= clock'[r] /\ clock'[r] \in Nat
  BY <1>1, ClockSteps
<1>3. ASSUME NEW i \in Slots
      PROVE  stats'[r].ring[i].send_ts_ns <= clock'[r]
  <2>1. /\ stats[r].ring[i].send_ts_ns <= clock[r]
        /\ stats[r].ring[i].send_ts_ns \in Int
        /\ stats[r].ring \in [Slots -> SendRecord]
    BY <1>1 DEF Stamped, Recorder, SendRecord
  <2>2. CASE StartsAfresh(r)
    BY <1>1, <1>2, <2>2, FreshRing DEF StartsAfresh
  <2>3. CASE KeepsRing(r)
    BY <1>1, <1>2, <2>1, <2>3 DEF KeepsRing
  <2>4. CASE RecordsSend(r)
    <3>1. stats'[r].ring =
            [stats[r].ring EXCEPT ![stats[r].ring_head] =
               [own_seq |-> Recorded(r) + 1, send_ts_ns |-> now[r]]]
      BY <1>1, <2>4, OnSendWrites DEF RecordsSend
    <3> QED BY <1>1, <1>2, <2>1, <3>1
  <2> QED BY <2>2, <2>3, <2>4, RecorderSteps
<1> QED BY <1>2, <1>3

(* A worker is outside the callback, has just stamped a message, or holds  *)
(* the one that it held before.                                            *)
LEMMA WorkerSteps ==
  ASSUME TypeOK, [Next]_vars, NEW r \in Role, NEW w \in Worker
  PROVE  \/ worker'[r][w].at \notin InCallback
         \/ worker'[r][w].recv_ts_ns = clock'[r]
         \/ /\ worker[r][w].at \in InCallback
            /\ worker'[r][w].msg = worker[r][w].msg
            /\ worker'[r][w].recv_ts_ns = worker[r][w].recv_ts_ns
<1> USE DEF locals, echoVars
<1>1. worker \in [Role -> [Worker -> Thread]]
  BY DEF TypeOK
<1>2. \A q \in Role, v \in Worker : worker[q][v] \in Thread
  BY <1>1
<1>3. worker'[r][w] = worker[r][w] =>
        \/ worker'[r][w].at \notin InCallback
        \/ /\ worker[r][w].at \in InCallback
           /\ worker'[r][w].msg = worker[r][w].msg
           /\ worker'[r][w].recv_ts_ns = worker[r][w].recv_ts_ns
  OBVIOUS
<1>4. ASSUME NEW q \in Role, Start(q) \/ Restart(q)
      PROVE  \/ worker'[r][w].at \notin InCallback
             \/ worker'[r][w] = worker[r][w]
  <2>1. PICK at \in {"idle", "none"} :
          worker' = [worker EXCEPT ![q] = [v \in Worker |-> Empty(at)]]
    BY <1>4, Zenon DEF Start, Restart
  <2> QED BY <1>1, <2>1 DEF Empty, InCallback
<1>5. ASSUME NEW q \in Role, NEW v \in Worker, Take(q, v)
      PROVE  \/ worker'[r][w].recv_ts_ns = clock'[r]
             \/ worker'[r][w] = worker[r][w]
  <2>1. PICK m \in net[q] :
          worker' = [worker EXCEPT ![q][v] =
                       [at |-> "seq", msg |-> m, recv_ts_ns |-> clock[q]]]
    BY <1>5 DEF Take
  <2>2. clock' = clock
    BY <1>5 DEF Take
  <2> QED BY <1>1, <2>1, <2>2
<1>6. ASSUME NEW q \in Role, NEW v \in Worker, Report(q, v) \/ EndWorker(q, v)
      PROVE  \/ worker'[r][w].at \notin InCallback
             \/ worker'[r][w] = worker[r][w]
  <2>1. PICK at \in {"idle", "ended"} :
          worker' = [worker EXCEPT ![q][v] = Empty(at)]
    BY <1>6 DEF Report, EndWorker
  <2> QED BY <1>1, <2>1 DEF Empty, InCallback
<1>7. ASSUME NEW q \in Role, NEW v \in Worker, StoreSeq(q, v) \/ StoreTs(q, v)
      PROVE  \/ worker'[r][w] = worker[r][w]
             \/ /\ worker[r][w].at \in InCallback
                /\ worker'[r][w].msg = worker[r][w].msg
                /\ worker'[r][w].recv_ts_ns = worker[r][w].recv_ts_ns
  <2>1. PICK to \in {"ts", "stats"} :
          worker' = [worker EXCEPT ![q][v] = [@ EXCEPT !.at = to]]
    BY <1>7 DEF StoreSeq, StoreTs
  <2>2. worker[q][v].at \in InCallback
    BY <1>7 DEF StoreSeq, StoreTs, InCallback
  <2> QED BY <1>1, <1>2, <2>1, <2>2 DEF Thread
<1>8. ASSUME NEW q \in Role, Tick(q) \/ Signal(q) \/ (MainStep(q) /\ ~ Start(q))
      PROVE  worker' = worker
  BY <1>8
  DEF Tick, Signal, MainStep, Enter, LeaveLoop, Sleep, Wake, TakeSlot,
      DrawSlot, LoadSeq, LoadTs, Record, Send, StopTransport, JoinWorkers,
      Move
<1>9. CASE UNCHANGED vars
  BY <1>3, <1>9 DEF vars
<1> QED
  BY <1>3, <1>4, <1>5, <1>6, <1>7, <1>8, <1>9
  DEF Next, MainStep, ThreadStep

(* A send recorded while a worker holds an acknowledgement has a number    *)
(* that was not yet recorded when the acknowledgement was made.            *)
LEMMA AnsweredStep ==
  ASSUME TypeOK, Schedule, OwnPacket, Carried, Stamped, Answered, [Next]_vars
  PROVE  Answered'
<1> SUFFICES ASSUME NEW r \in Role, NEW w \in Worker, NEW i \in Slots,
                    worker'[r][w].at \in InCallback,
                    worker'[r][w].msg.peer_last_seq # 0,
                    worker'[r][w].msg.ack_run = run'[r],
                    stats'[r].ring[i].own_seq = worker'[r][w].msg.peer_last_seq
             PROVE  stats'[r].ring[i].send_ts_ns <= worker'[r][w].recv_ts_ns
  BY DEF Answered
<1>1. CASE worker'[r][w].recv_ts_ns = clock'[r]
  BY <1>1, StampedStep DEF Stamped
<1>2. CASE /\ worker[r][w].at \in InCallback
           /\ worker'[r][w].msg = worker[r][w].msg
           /\ worker'[r][w].recv_ts_ns = worker[r][w].recv_ts_ns
  <2> DEFINE m == worker[r][w].msg
  <2>1. << m.peer_last_seq, m.ack_run >> \in Numbers(r)
    BY DEF Carried, Genuine
  <2>2. /\ m.ack_run \in Nat /\ m.peer_last_seq \in Nat
        /\ m.ack_run <= run[r]
        /\ m.ack_run = run[r] => m.peer_last_seq <= Recorded(r)
    BY <2>1 DEF Numbers
  <2>3. run[r] \in Nat /\ Recorded(r) \in Nat /\ stats[r] \in Recorder
    BY RecordedNumbers DEF TypeOK
  <2>4. CASE StartsAfresh(r)
    BY <1>2, <2>2, <2>3, <2>4 DEF StartsAfresh
  <2>5. CASE KeepsRing(r)
    BY <1>2, <2>5 DEF KeepsRing, Answered
  <2>6. CASE RecordsSend(r)
    <3>1. stats'[r].ring =
            [stats[r].ring EXCEPT ![stats[r].ring_head] =
               [own_seq |-> Recorded(r) + 1, send_ts_ns |-> now[r]]]
      <4>1. now[r] \in Int
        BY DEF TypeOK
      <4> QED BY <2>3, <2>6, <4>1, OnSendWrites DEF RecordsSend
    <3>2. m.ack_run = run[r] /\ m.peer_last_seq # Recorded(r) + 1
      BY <1>2, <2>2, <2>3, <2>6 DEF RecordsSend
    <3>3. stats'[r].ring[i] = stats[r].ring[i]
      BY <1>2, <2>3, <3>1, <3>2 DEF Recorder
    <3> QED BY <1>2, <3>2, <3>3 DEF Answered
  <2> QED BY <2>4, <2>5, <2>6, RecorderSteps
<1> QED BY <1>1, <1>2, WorkerSteps


(* Where nobody is started again, all that happens is of run 1.            *)
LEMMA NoRestart ==
  ASSUME TypeOK, MaxRestarts = 0, NEW r \in Role
  PROVE  ~ Restart(r)
<1>1. run["A"] \in Nat \ {0} /\ run["B"] \in Nat \ {0}
  BY DEF TypeOK, Role
<1>2. Restart(r) => run["A"] + run["B"] < 2 + MaxRestarts
  BY Zenon DEF Restart
<1> QED BY <1>1, <1>2

OneRun == \A r \in Role : run[r] = 1

(* The number of the run changes in a restart only.                        *)
LEMMA OneRunStep ==
  ASSUME TypeOK, OneRun, MaxRestarts = 0, [Next]_vars
  PROVE  OneRun'
<1> USE DEF locals, echoVars
<1>1. run' = run
  <2>1. ASSUME NEW q \in Role,
               \/ Tick(q) \/ Signal(q) \/ MainStep(q)
               \/ \E w \in Worker : Take(q, w) \/ ThreadStep(q, w)
        PROVE  run' = run
    BY <2>1
    DEF Tick, Signal, MainStep, Start, Enter, LeaveLoop, Sleep, Wake, TakeSlot,
        DrawSlot, LoadSeq, LoadTs, Record, Send, StopTransport, JoinWorkers,
        Move, Take, ThreadStep, StoreSeq, StoreTs, Report, EndWorker
  <2> QED BY <2>1, NoRestart DEF Next, vars
<1> QED BY <1>1 DEF OneRun

(* The sample that Report takes is the difference of two readings of the   *)
(* same clock, and the later one is the receipt.                           *)
LEMMA RttStep ==
  ASSUME TypeOK, Carried, Answered, OneRun, MaxRestarts = 0, RttNonNegative,
         [Next]_vars
  PROVE  RttNonNegative'
<1> USE DEF locals, echoVars
<1>1. stats \in [Role -> Recorder]
  BY DEF TypeOK
<1>2. SUFFICES ASSUME NEW r \in Role
               PROVE  \A i \in DOMAIN stats'[r].rtts_ns : stats'[r].rtts_ns[i] >= 0
  BY DEF RttNonNegative
<1>3. stats'[r].rtts_ns = stats[r].rtts_ns =>
        \A i \in DOMAIN stats'[r].rtts_ns : stats'[r].rtts_ns[i] >= 0
  BY DEF RttNonNegative
<1>4. ASSUME NEW q \in Role, Record(q)
      PROVE  stats'[r].rtts_ns = stats[r].rtts_ns
  <2>1. stats[q] \in Recorder /\ my_seq[q] \in Seqs /\ now[q] \in Int
    BY DEF TypeOK
  <2>2. OnSend(stats[q], my_seq[q], now[q]).rtts_ns = stats[q].rtts_ns
    BY ZenonT(30), <2>1, OnSendWrites
  <2>3. stats' = [stats EXCEPT ![q] = OnSend(stats[q], my_seq[q], now[q])]
    BY <1>4 DEF Record
  <2> QED BY <1>1, <2>2, <2>3
<1>5. ASSUME NEW q \in Role, NEW w \in Worker, Report(q, w)
      PROVE  \A i \in DOMAIN stats'[r].rtts_ns : stats'[r].rtts_ns[i] >= 0
  <2>1. CASE q # r
    BY <1>1, <1>3, <1>5, <2>1 DEF Report
  <2>2. CASE q = r
    <3> DEFINE t == worker[r][w]
               s == t.msg.peer_last_seq
               e == stats[r].ring[FirstMatch(stats[r], s)]
    <3>1. t \in Thread /\ stats[r] \in Recorder
      BY DEF TypeOK
    <3>2. t.recv_ts_ns \in Int /\ t.msg.own_seq \in Seqs /\ s \in Seqs
      BY <3>1 DEF Thread, Message
    <3>3. stats'[r] = OnRecv(stats[r], t.recv_ts_ns, t.msg.own_seq, s)
          /\ t.at = "stats"
      BY <1>1, <1>5, <2>2 DEF Report
    <3>4. stats'[r].rtts_ns =
            IF Found(stats[r], s)
            THEN Append(stats[r].rtts_ns, t.recv_ts_ns - e.send_ts_ns)
            ELSE stats[r].rtts_ns
      <4> HIDE DEF t, s
      <4> QED BY <3>1, <3>2, <3>3, OnRecvTakesSample
    <3>5. ASSUME Found(stats[r], s)
          PROVE  t.recv_ts_ns - e.send_ts_ns \in Nat
      <4>1. FirstMatch(stats[r], s) \in Slots /\ e.own_seq = s /\ s # 0
        BY <3>5, FirstMatchMatches DEF Matches, Found
      <4>2. t.msg.ack_run = run[r]
        <5>1. << s, t.msg.ack_run >> \in Numbers(r)
          BY DEF Carried, Genuine
        <5>2. t.msg.ack_run \in Nat /\ t.msg.ack_run <= 1 /\ t.msg.ack_run # 0
          BY <4>1, <5>1 DEF Numbers, OneRun
        <5> QED BY <5>2 DEF OneRun
      <4>3. e.send_ts_ns <= t.recv_ts_ns
        BY <3>3, <4>1, <4>2 DEF Answered, InCallback
      <4>4. e.send_ts_ns \in Int
        BY <3>1, <4>1 DEF Recorder, SendRecord
      <4> QED BY SMTT(30), <3>2, <4>3, <4>4
    <3>6. CASE Found(stats[r], s)
      <4> DEFINE d == t.recv_ts_ns - e.send_ts_ns
                 old == stats[r].rtts_ns
      <4>1. stats'[r].rtts_ns = Append(old, d) /\ d \in Nat
        BY <3>4, <3>5, <3>6
      <4>2. old \in Seq(Int) /\ \A i \in DOMAIN old : old[i] >= 0
        BY <3>1 DEF Recorder, RttNonNegative
      <4> HIDE DEF d, old
      <4> QED BY <4>1, <4>2
    <3>7. CASE ~ Found(stats[r], s)
      BY <1>3, <3>4, <3>7
    <3> QED BY <3>6, <3>7
  <2> QED BY <2>1, <2>2
<1>6. ASSUME NEW q \in Role,
             \/ Tick(q) \/ Signal(q) \/ (MainStep(q) /\ ~ Record(q))
             \/ \E w \in Worker : \/ Take(q, w) \/ StoreSeq(q, w)
                                  \/ StoreTs(q, w) \/ EndWorker(q, w)
      PROVE  stats' = stats
  BY <1>6
  DEF Tick, Signal, MainStep, Start, Enter, LeaveLoop, Sleep, Wake, TakeSlot,
      DrawSlot, LoadSeq, LoadTs, Send, StopTransport, JoinWorkers, Move, Take,
      StoreSeq, StoreTs, EndWorker
<1>7. CASE UNCHANGED vars
  BY <1>3, <1>7 DEF vars
<1> QED
  BY <1>3, <1>4, <1>5, <1>6, <1>7, NoRestart DEF Next, MainStep, ThreadStep

---------------------------------------------------------------------------
(* The echo, with one worker thread.                                       *)

(* The message that was taken last is on its way through the callback, and *)
(* what the callback has already stored is of that message.                *)
EchoInv ==
  \A r \in Role : \A w \in Worker : taken[r] # << >> =>
    LET last == taken[r][Len(taken[r])]
        t    == worker[r][w]
    IN  /\ t.at = "seq" =>
             t.msg.own_seq = last.own_seq /\ t.recv_ts_ns = last.recv_ts_ns
        /\ t.at = "ts" =>
             /\ peer_last_seq_recv[r] = last.own_seq
             /\ t.recv_ts_ns = last.recv_ts_ns
        /\ t.at \notin {"seq", "ts"} =>
             /\ peer_last_seq_recv[r] = last.own_seq
             /\ peer_last_recv_ts[r] = last.recv_ts_ns

(* A single worker finishes one message before it takes the next.          *)
LEMMA EchoStep ==
  ASSUME TypeOK, Control, EchoInv, NEW w \in Worker, Worker = {w}, [Next]_vars
  PROVE  EchoInv'
<1> USE DEF locals, echoVars
<1>1. /\ worker \in [Role -> [Worker -> Thread]]
      /\ taken \in [Role -> Seq(Receipt)]
      /\ peer_last_seq_recv \in [Role -> Seqs]
      /\ peer_last_recv_ts \in [Role -> Nat]
  BY DEF TypeOK
<1>2. ASSUME NEW q \in Role, worker[q][w] \in Thread, Take(q, w) PROVE EchoInv'
  <2>1. PICK m \in net[q] :
          /\ worker' = [worker EXCEPT ![q][w] =
                          [at |-> "seq", msg |-> m, recv_ts_ns |-> clock[q]]]
          /\ taken' = [taken EXCEPT ![q] =
                         Append(@, [own_seq |-> m.own_seq,
                                    recv_ts_ns |-> clock[q]])]
          /\ UNCHANGED << peer_last_seq_recv, peer_last_recv_ts >>
    BY <1>2 DEF Take
  <2>2. /\ worker'[q][w] = [at |-> "seq", msg |-> m, recv_ts_ns |-> clock[q]]
        /\ taken'[q][Len(taken'[q])] =
             [own_seq |-> m.own_seq, recv_ts_ns |-> clock[q]]
        /\ \A r \in Role : r # q => worker'[r] = worker[r] /\ taken'[r] = taken[r]
    <3>1. taken[q] \in Seq(Receipt)
      BY <1>1
    <3> QED BY <1>1, <2>1, <3>1
  <2> QED BY <2>1, <2>2 DEF EchoInv
<1>3. ASSUME NEW q \in Role, StoreSeq(q, w) PROVE EchoInv'
  <2>1. /\ worker[q][w].at = "seq" /\ worker[q][w] \in Thread
        /\ worker' = [worker EXCEPT ![q][w] = [@ EXCEPT !.at = "ts"]]
        /\ peer_last_seq_recv' =
             [peer_last_seq_recv EXCEPT ![q] = worker[q][w].msg.own_seq]
        /\ UNCHANGED << peer_last_recv_ts, taken >>
    BY <1>1, <1>3 DEF StoreSeq
  <2>2. /\ worker'[q][w].at = "ts"
        /\ worker'[q][w].recv_ts_ns = worker[q][w].recv_ts_ns
        /\ \A r \in Role : r # q => worker'[r] = worker[r]
    BY <1>1, <2>1 DEF Thread
  <2> QED BY <1>1, <2>1, <2>2 DEF EchoInv
<1>4. ASSUME NEW q \in Role, StoreTs(q, w) PROVE EchoInv'
  <2>1. /\ worker[q][w].at = "ts" /\ worker[q][w] \in Thread
        /\ worker' = [worker EXCEPT ![q][w] = [@ EXCEPT !.at = "stats"]]
        /\ peer_last_recv_ts' =
             [peer_last_recv_ts EXCEPT ![q] = worker[q][w].recv_ts_ns]
        /\ UNCHANGED << peer_last_seq_recv, taken >>
    BY <1>1, <1>4 DEF StoreTs
  <2>2. /\ worker'[q][w].at = "stats"
        /\ \A r \in Role : r # q => worker'[r] = worker[r]
    BY <1>1, <2>1 DEF Thread
  <2> QED BY <1>1, <2>1, <2>2 DEF EchoInv
<1>5. ASSUME NEW q \in Role,
             Report(q, w) \/ EndWorker(q, w) \/ Start(q) \/ Restart(q)
      PROVE  EchoInv'
  <2>1. CASE Report(q, w) \/ EndWorker(q, w)
    <3>1. PICK at \in {"idle", "ended"} :
            worker' = [worker EXCEPT ![q][w] = Empty(at)]
      BY <2>1 DEF Report, EndWorker
    <3>2. /\ worker[q][w].at \notin {"seq", "ts"}
          /\ UNCHANGED << peer_last_seq_recv, peer_last_recv_ts, taken >>
      BY <2>1 DEF Report, EndWorker
    <3>3. /\ worker'[q][w].at = at
          /\ \A r \in Role : r # q => worker'[r] = worker[r]
      BY <1>1, <3>1 DEF Empty
    <3> QED BY <3>2, <3>3 DEF EchoInv
  <2>2. CASE Restart(q)
    <3>1. /\ taken' = [taken EXCEPT ![q] = << >>]
          /\ worker' = [worker EXCEPT ![q] = [v \in Worker |-> Empty("none")]]
          /\ peer_last_seq_recv' = [peer_last_seq_recv EXCEPT ![q] = 0]
          /\ peer_last_recv_ts' = [peer_last_recv_ts EXCEPT ![q] = 0]
      BY <2>2, Zenon DEF Restart
    <3> QED BY <1>1, <3>1 DEF EchoInv
  <2>3. CASE Start(q)
    <3>1. /\ worker' = [worker EXCEPT ![q] = [v \in Worker |-> Empty("idle")]]
          /\ UNCHANGED << peer_last_seq_recv, peer_last_recv_ts, taken >>
          /\ worker[q][w].at = "none"
      BY <2>3 DEF Start, Goto, Control
    <3> QED BY <1>1, <3>1 DEF EchoInv, Empty
  <2> QED BY <1>5, <2>1, <2>2, <2>3
<1>6. ASSUME NEW q \in Role, Tick(q) \/ Signal(q) \/ (MainStep(q) /\ ~ Start(q))
      PROVE  UNCHANGED << worker, taken, peer_last_seq_recv, peer_last_recv_ts >>
  BY <1>6
  DEF Tick, Signal, MainStep, Enter, LeaveLoop, Sleep, Wake, TakeSlot,
      DrawSlot, LoadSeq, LoadTs, Record, Send, StopTransport, JoinWorkers,
      Move
<1>7. ASSUME UNCHANGED << worker, taken, peer_last_seq_recv, peer_last_recv_ts >>
      PROVE  EchoInv'
  BY <1>7 DEF EchoInv
<1>8. CASE UNCHANGED vars
  BY <1>7, <1>8 DEF vars
<1> QED
  BY <1>1, <1>2, <1>3, <1>4, <1>5, <1>6, <1>7, <1>8
  DEF Next, MainStep, ThreadStep


(* While no callback is between its stores, the atomics hold the message   *)
(* taken last.                                                             *)
LEMMA EchoInvIsEnough ==
  ASSUME TypeOK, EchoInv, NEW w \in Worker, Worker = {w}
  PROVE  EchoIsLatest
<1> SUFFICES ASSUME NEW r \in Role, taken[r] # << >>,
                    worker[r][w].at \notin {"seq", "ts"}
             PROVE  [ own_seq |-> peer_last_seq_recv[r],
                      recv_ts_ns |-> peer_last_recv_ts[r] ]
                      = taken[r][Len(taken[r])]
  BY DEF EchoIsLatest
<1> DEFINE last == taken[r][Len(taken[r])]
<1>1. last \in Receipt
  <2>1. taken[r] \in Seq(Receipt)
    BY DEF TypeOK
  <2> QED BY <2>1
<1>2. /\ peer_last_seq_recv[r] = last.own_seq
      /\ peer_last_recv_ts[r] = last.recv_ts_ns
  BY DEF EchoInv
<1> HIDE DEF last
<1>3. last = [own_seq |-> last.own_seq, recv_ts_ns |-> last.recv_ts_ns]
  BY <1>1 DEF Receipt
<1> QED BY <1>2, <1>3 DEF last

---------------------------------------------------------------------------
(* The theorems.                                                           *)

\* The inductive invariant for any number of threads and restarts.
BenchInv ==
  TypeOK /\ Control /\ Schedule /\ OwnPacket /\ RingNumbers /\ Carried

(* It holds initially.                                                     *)
LEMMA BenchInvInit == Init => BenchInv
<1>1. Init => RingNumbers
  <2> SUFFICES ASSUME Init, NEW r \in Role, NEW a \in Age
               PROVE  stats[r].ring[SlotBehind(stats[r].ring_head, a)].own_seq =
                        IF a < Recorded(r) THEN Recorded(r) - a ELSE 0
    BY DEF RingNumbers
  <2>1. stats[r] = FreshRecorder
    BY Zenon DEF Init, FreshRecorder
  <2>2. Recorded(r) = 0
    BY DEF Init, Recorded
  <2>3. SlotBehind(stats[r].ring_head, a) \in Slots
    BY <2>1, FreshRing, SlotsAreAges
  <2>4. ~ (a < 0)
    BY RingAssumption DEF Age
  <2> QED BY <2>1, <2>2, <2>3, <2>4, FreshRing
<1> QED
  BY <1>1, TypesInit, ControlInit, ScheduleInit, CarriedInit DEF BenchInv

(* Every step keeps it.                                                    *)
LEMMA BenchInvStep == BenchInv /\ [Next]_vars => BenchInv'
PROOF
  BY TypesStep, ControlStep, ScheduleStep, RingNumbersStep, CarriedStep
  DEF BenchInv

(* For any ring, periods, durations, number of threads and restarts:       *)
(* no acknowledgement that can still arrive has lost its send, because     *)
(* run() records a send before it lets it go.                              *)
THEOREM AckedSendsAreFound == Spec => []AckedSendIsFound
<1>1. BenchInv => AckedSendIsFound
  BY CarriedIsFound DEF BenchInv
<1> QED BY <1>1, BenchInvInit, BenchInvStep, PTL DEF Spec

(* The schedule of the send loop does not drift, however late the loop     *)
(* runs.                                                                   *)
THEOREM ScheduleDoesNotDrift == Spec => []NoDrift
<1>1. BenchInv => NoDrift
  BY ScheduleIsKept DEF BenchInv
<1> QED BY <1>1, BenchInvInit, BenchInvStep, PTL DEF Spec

(* Nor does it overshoot.                                                  *)
THEOREM SendsStayWithinPlan == Spec => []SendsWithinPlan
<1>1. BenchInv => SendsWithinPlan
  BY ScheduleIsKept DEF BenchInv
<1> QED BY <1>1, BenchInvInit, BenchInvStep, PTL DEF Spec

(* No thread is inside the callback when run() has left stop().            *)
THEOREM CallbacksEnd == Spec => []NoCallbackAfterStop
<1>1. BenchInv => NoCallbackAfterStop
  BY DEF BenchInv, Control, NoCallbackAfterStop, InCallback
<1> QED BY <1>1, BenchInvInit, BenchInvStep, PTL DEF Spec

(* The types of the two processes.                                         *)
THEOREM TypesAreKept == Spec => []TypeOK
<1>1. BenchInv => TypeOK
  BY DEF BenchInv
<1> QED BY <1>1, BenchInvInit, BenchInvStep, PTL DEF Spec

\* What is needed besides for round trips.
RttInv == OneRun /\ Stamped /\ Answered /\ RttNonNegative

(* It holds initially, and where nobody is started again every step keeps  *)
(* it.                                                                     *)
LEMMA RttInvInit == Init => RttInv
<1> SUFFICES ASSUME Init PROVE RttInv
  OBVIOUS
<1>1. \A r \in Role : stats[r] = FreshRecorder
  BY Zenon DEF Init, FreshRecorder
<1>2. OneRun
  BY DEF Init, OneRun
<1>3. Stamped
  <2>1. \A r \in Role : now[r] = 0 /\ clock[r] = 0
    BY DEF Init
  <2> QED BY <1>1, <2>1, FreshRing DEF Stamped
<1>4. Answered
  BY DEF Init, Answered, Empty, InCallback
<1>5. RttNonNegative
  BY <1>1, FreshRing DEF RttNonNegative
<1> QED BY <1>2, <1>3, <1>4, <1>5 DEF RttInv

(* A run that nobody interrupts measures no negative time, with any number *)
(* of threads and whatever the two clocks show.                            *)
THEOREM RttsAreNotNegative ==
  ASSUME MaxRestarts = 0
  PROVE  Spec => []RttNonNegative
<1>1. BenchInv /\ RttInv /\ [Next]_vars => RttInv'
  BY OneRunStep, StampedStep, AnsweredStep, RttStep DEF BenchInv, RttInv
<1>2. RttInv => RttNonNegative
  BY DEF RttInv
<1> QED
  BY <1>1, <1>2, RttInvInit, BenchInvInit, BenchInvStep, PTL DEF Spec

(* With one delivering thread the echo is the message taken last, over any *)
(* number of restarts; BenchReentrant shows that two threads break it.     *)
THEOREM EchoIsTheLatest ==
  ASSUME NEW w \in Worker, Worker = {w}
  PROVE  Spec => []EchoIsLatest
<1>1. Init => EchoInv
  BY DEF Init, EchoInv
<1>2. BenchInv /\ EchoInv /\ [Next]_vars => EchoInv'
  BY EchoStep DEF BenchInv
<1>3. BenchInv /\ EchoInv => EchoIsLatest
  BY EchoInvIsEnough DEF BenchInv
<1> QED BY <1>1, <1>2, <1>3, BenchInvInit, BenchInvStep, PTL DEF Spec
=============================================================================
