------------------------------- MODULE Bench -------------------------------
(***************************************************************************)
(* bench_a and bench_b: two processes that run run() of bench_run.cpp over *)
(* a network that may lose, repeat, delay and reorder messages.            *)
(*                                                                         *)
(* Each process has a main thread (the send loop) and Worker threads on    *)
(* which the transport calls the receive callback: one of them under       *)
(* raw_udp and the single-threaded executors, num_threads of them under    *)
(* ros2_mte, whose callback group is Reentrant.  The threads share         *)
(* peer_last_seq_recv and peer_last_recv_ts, two atomics that are written  *)
(* and read one at a time, and the StatsRecorder, whose calls are atomic.  *)
(* The clocks of the two machines are independent: nothing synchronises    *)
(* them.                                                                   *)
(*                                                                         *)
(* A transport is reduced to what TransportContract says of it: start()    *)
(* brings up threads that wait for messages, stop() asks them to end -     *)
(* each may deliver one last message - and waits for them.  The CSV is     *)
(* closed here (StatsCallers has it).  Of Payload only the fields that     *)
(* somebody reads or a property mentions are kept; run and ack_run are     *)
(* not in the program: they say in which run of the sender a sequence      *)
(* number was drawn, so that properties can tell runs apart.               *)
(***************************************************************************)
EXTENDS StatsRecorder, FiniteSets

CONSTANTS
  Worker,       \* the threads that call the receive callback
  Period,       \* per role: period_ns
  Duration,     \* per role: --duration-sec
  MaxStart,     \* bound: no loop is entered later than this on its clock
  MaxRows,      \* bound: inbound messages per run
  Disturbed,    \* bound: the roles whose process may be signalled or killed
  MaxRestarts   \* bound: how often processes are started anew, in all

Role == {"A", "B"}

Peer(r) == IF r = "A" THEN "B" ELSE "A"

\* The periods that begin before the end of a run: each has time for a send.
Plan(r) == (Duration[r] + Period[r] - 1) \div Period[r]

(* period_ns is positive up to a rate of 1 GHz; a run has fewer than 2^32  *)
(* periods, which last 99 days at 500 Hz.                                  *)
ASSUME BenchAssumption ==
  /\ IsFiniteSet(Worker)
  /\ Period \in [Role -> Nat \ {0}]
  /\ Duration \in [Role -> Nat]
  /\ Disturbed \subseteq Role
  /\ MaxStart \in Nat /\ MaxRows \in Nat /\ MaxRestarts \in Nat
  /\ \A r \in Role : Plan(r) < NumSeqs

VARIABLES
  pc,                  \* where the main thread is
  clock,               \* CLOCK_MONOTONIC
  running,             \* the transport is started
  g_stop,              \* set by the signal handler
  t0, deadline, now,   \* locals of the send loop
  my_seq, pkt,
  peer_last_seq_recv, peer_last_recv_ts,
  stats,
  worker,              \* what each worker thread is doing
  net,                 \* messages on their way to a role
  run, peer_last_run,  \* histories: number of the run, run of the last seq
  taken                \* history: the messages of this run, as workers took them

locals   == << t0, deadline, now, my_seq, pkt >>
echoVars == << peer_last_seq_recv, peer_last_recv_ts, peer_last_run >>
vars == << pc, locals, echoVars, clock, running, g_stop, stats, worker, net,
           run, taken >>

t_end(r) == t0[r] + Duration[r]

Message == [own_seq : Seqs, peer_last_seq : Seqs, run : Nat, ack_run : Nat]

NoPacket == [ own_seq |-> 0, peer_last_seq |-> 0, peer_recv_ts_ns |-> 0,
              run |-> 0, ack_run |-> 0 ]

\* peer_recv_ts_ns travels too, but no receiver reads it.
OnWire(p) == [ own_seq |-> p.own_seq, peer_last_seq |-> p.peer_last_seq,
               run |-> p.run, ack_run |-> p.ack_run ]

NoMessage == OnWire(NoPacket)

\* A worker thread that holds no message: not started, waiting, or ended.
Empty(at) == [at |-> at, msg |-> NoMessage, recv_ts_ns |-> 0]

InCallback == {"seq", "ts", "stats"}

Receipt == [own_seq : Seqs, recv_ts_ns : Nat]

Init ==
  /\ pc = [r \in Role |-> "start"]
  /\ clock = [r \in Role |-> 0]
  /\ running = [r \in Role |-> FALSE]
  /\ g_stop = [r \in Role |-> FALSE]
  /\ t0 = [r \in Role |-> 0]
  /\ deadline = [r \in Role |-> 0]
  /\ now = [r \in Role |-> 0]
  /\ my_seq = [r \in Role |-> 0]
  /\ pkt = [r \in Role |-> NoPacket]
  /\ peer_last_seq_recv = [r \in Role |-> 0]
  /\ peer_last_recv_ts = [r \in Role |-> 0]
  /\ stats = [r \in Role |-> NewRecorder(FALSE)]
  /\ worker = [r \in Role |-> [w \in Worker |-> Empty("none")]]
  /\ net = [r \in Role |-> {}]
  /\ run = [r \in Role |-> 1]
  /\ peer_last_run = [r \in Role |-> 0]
  /\ taken = [r \in Role |-> << >>]

Goto(r, from, to) == pc[r] = from /\ pc' = [pc EXCEPT ![r] = to]

\* A step of the main thread that changes nothing but where it is.
Move(r, from, to) ==
  /\ Goto(r, from, to)
  /\ UNCHANGED << locals, echoVars, clock, running, g_stop, stats, worker, net,
                  run, taken >>

---------------------------------------------------------------------------
(* The clock of a machine.  Bound: it stands still at MaxStart until the   *)
(* loop is entered, and afterwards at the end of the run, unless the loop  *)
(* sleeps beyond it.                                                       *)
ClockLimit(r) ==
  IF pc[r] \in {"start", "enter"} THEN MaxStart
  ELSE IF pc[r] = "asleep" /\ deadline[r] > t_end(r) THEN deadline[r]
  ELSE t_end(r)

Tick(r) ==
  /\ clock[r] < ClockLimit(r)
  /\ clock' = [clock EXCEPT ![r] = @ + 1]
  /\ UNCHANGED << pc, locals, echoVars, running, g_stop, stats, worker, net,
                  run, taken >>

(* SIGINT or SIGTERM, once the handlers are installed.                     *)
Signal(r) ==
  /\ r \in Disturbed
  /\ pc[r] \notin {"start", "enter", "done"}
  /\ ~ g_stop[r]
  /\ g_stop' = [g_stop EXCEPT ![r] = TRUE]
  /\ UNCHANGED << pc, locals, echoVars, clock, running, stats, worker, net,
                  run, taken >>

---------------------------------------------------------------------------
(* The main thread.                                                        *)

\* tx->start(): from here on the callback may run.
Start(r) ==
  /\ Goto(r, "start", "enter")
  /\ running' = [running EXCEPT ![r] = TRUE]
  /\ worker' = [worker EXCEPT ![r] = [w \in Worker |-> Empty("idle")]]
  /\ UNCHANGED << locals, echoVars, clock, g_stop, stats, net, run, taken >>

\* The first deadline is t0 itself.
Enter(r) ==
  /\ Goto(r, "enter", "loop")
  /\ t0' = [t0 EXCEPT ![r] = clock[r]]
  /\ deadline' = [deadline EXCEPT ![r] = clock[r]]
  /\ UNCHANGED << now, my_seq, pkt, echoVars, clock, running, g_stop, stats,
                  worker, net, run, taken >>

\* Variant: only a signal ends the loop.
LeaveLoopOnSignal(r) == g_stop[r] /\ Move(r, "loop", "final")

LeaveLoop(r) ==
  /\ g_stop[r] \/ clock[r] >= t_end(r)
  /\ Move(r, "loop", "final")

\* sleep_for until the deadline; a signal does not cut it short.
Sleep(r) ==
  /\ ~ g_stop[r] /\ clock[r] < t_end(r) /\ clock[r] < deadline[r]
  /\ Move(r, "loop", "asleep")

Wake(r) == clock[r] >= deadline[r] /\ Move(r, "asleep", "loop")

\* Advance the deadline and draw the next sequence number.
DrawSlot(r, next_deadline) ==
  /\ Goto(r, "loop", "load")
  /\ now' = [now EXCEPT ![r] = clock[r]]
  /\ deadline' = [deadline EXCEPT ![r] = next_deadline]
  /\ my_seq' = [my_seq EXCEPT ![r] = NextSeq(@)]
  /\ pkt' = [pkt EXCEPT ![r].own_seq = NextSeq(my_seq[r]), ![r].run = run[r]]
  /\ UNCHANGED << t0, echoVars, clock, running, g_stop, stats, worker, net,
                  run, taken >>

\* Variant: the next deadline counts from the send, not from the last one.
TakeSlotDrifts(r) ==
  /\ ~ g_stop[r] /\ clock[r] < t_end(r) /\ clock[r] >= deadline[r]
  /\ DrawSlot(r, clock[r] + Period[r])

\* Variant: the end of the run itself still counts as inside.
TakeSlotAtEnd(r) ==
  /\ ~ g_stop[r] /\ clock[r] <= t_end(r) /\ clock[r] >= deadline[r]
  /\ DrawSlot(r, deadline[r] + Period[r])

\* A send is due.
TakeSlot(r) ==
  /\ ~ g_stop[r] /\ clock[r] < t_end(r) /\ clock[r] >= deadline[r]
  /\ DrawSlot(r, deadline[r] + Period[r])

(* The two loads are relaxed and of different variables: either may happen *)
(* first.                                                                  *)
LoadSeq(r) ==
  /\ Goto(r, "load", "load_ts") \/ Goto(r, "load_seq", "record")
  /\ pkt' = [pkt EXCEPT ![r].peer_last_seq = peer_last_seq_recv[r],
                        ![r].ack_run = peer_last_run[r]]
  /\ UNCHANGED << t0, deadline, now, my_seq, echoVars, clock, running, g_stop,
                  stats, worker, net, run, taken >>

LoadTs(r) ==
  /\ Goto(r, "load", "load_seq") \/ Goto(r, "load_ts", "record")
  /\ pkt' = [pkt EXCEPT ![r].peer_recv_ts_ns = peer_last_recv_ts[r]]
  /\ UNCHANGED << t0, deadline, now, my_seq, echoVars, clock, running, g_stop,
                  stats, worker, net, run, taken >>

\* Variant: the message leaves before it is recorded.
RecordAfterSend(r) ==
  /\ pc[r] = "record"
  /\ IF OnWire(pkt[r]) \in net[Peer(r)]
     THEN /\ Goto(r, "record", "send")
          /\ stats' = [stats EXCEPT ![r] = OnSend(@, my_seq[r], now[r])]
          /\ UNCHANGED net
     ELSE /\ net' = [net EXCEPT ![Peer(r)] = @ \cup {OnWire(pkt[r])}]
          /\ UNCHANGED << pc, stats >>
  /\ UNCHANGED << locals, echoVars, clock, running, g_stop, worker, run,
                  taken >>

\* stats.on_send(my_seq, now): before the message leaves.
Record(r) ==
  /\ Goto(r, "record", "send")
  /\ stats' = [stats EXCEPT ![r] = OnSend(@, my_seq[r], now[r])]
  /\ UNCHANGED << locals, echoVars, clock, running, g_stop, worker, net, run,
                  taken >>

Send(r) ==
  /\ Goto(r, "send", "loop")
  /\ net' = [net EXCEPT ![Peer(r)] = @ \cup {OnWire(pkt[r])}]
  /\ UNCHANGED << locals, echoVars, clock, running, g_stop, stats, worker, run,
                  taken >>

\* The FINAL line is printed, then tx->stop() tells its threads to end ...
StopTransport(r) ==
  /\ Goto(r, "final", "stopping")
  /\ running' = [running EXCEPT ![r] = FALSE]
  /\ UNCHANGED << locals, echoVars, clock, g_stop, stats, worker, net, run,
                  taken >>

\* ... and joins them.
JoinWorkers(r) ==
  /\ \A w \in Worker : worker[r][w].at = "ended"
  /\ Move(r, "stopping", "done")

MainStep(r) ==
  \/ Start(r) \/ Enter(r) \/ LeaveLoop(r) \/ Sleep(r) \/ Wake(r)
  \/ TakeSlot(r) \/ LoadSeq(r) \/ LoadTs(r) \/ Record(r) \/ Send(r)
  \/ StopTransport(r) \/ JoinWorkers(r)

---------------------------------------------------------------------------
(* A worker thread and the receive callback.                               *)

\* Variant: the stamp is the sender's time, as own_send_ts_ns is.
TakeStampsSendersTime(r, w) ==
  /\ worker[r][w].at = "idle"
  /\ Len(taken[r]) < MaxRows
  /\ \E m \in net[r] :
       /\ worker' = [worker EXCEPT ![r][w] =
                        [ at |-> "seq", msg |-> m,
                          recv_ts_ns |-> clock[Peer(r)] ]]
       /\ taken' = [taken EXCEPT ![r] =
                       Append(@, [own_seq    |-> m.own_seq,
                                  recv_ts_ns |-> clock[Peer(r)]])]
  /\ UNCHANGED << pc, locals, echoVars, clock, running, g_stop, stats, net,
                  run >>

(* The transport takes a message and stamps it.  It may take the same      *)
(* message again, later ones first, or never.                              *)
Take(r, w) ==
  /\ worker[r][w].at = "idle"
  /\ Len(taken[r]) < MaxRows
  /\ \E m \in net[r] :
       /\ worker' = [worker EXCEPT ![r][w] =
                        [at |-> "seq", msg |-> m, recv_ts_ns |-> clock[r]]]
       /\ taken' = [taken EXCEPT ![r] =
                       Append(@, [own_seq    |-> m.own_seq,
                                  recv_ts_ns |-> clock[r]])]
  /\ UNCHANGED << pc, locals, echoVars, clock, running, g_stop, stats, net,
                  run >>

StoreSeq(r, w) ==
  /\ worker[r][w].at = "seq"
  /\ worker' = [worker EXCEPT ![r][w].at = "ts"]
  /\ peer_last_seq_recv' =
       [peer_last_seq_recv EXCEPT ![r] = worker[r][w].msg.own_seq]
  /\ peer_last_run' = [peer_last_run EXCEPT ![r] = worker[r][w].msg.run]
  /\ UNCHANGED << pc, locals, peer_last_recv_ts, clock, running, g_stop, stats,
                  net, run, taken >>

\* Variant: the callback reads the clock again.
StoreTsReadsClock(r, w) ==
  /\ worker[r][w].at = "ts"
  /\ worker' = [worker EXCEPT ![r][w].at = "stats"]
  /\ peer_last_recv_ts' = [peer_last_recv_ts EXCEPT ![r] = clock[r]]
  /\ UNCHANGED << pc, locals, peer_last_seq_recv, peer_last_run, clock,
                  running, g_stop, stats, net, run, taken >>

StoreTs(r, w) ==
  /\ worker[r][w].at = "ts"
  /\ worker' = [worker EXCEPT ![r][w].at = "stats"]
  /\ peer_last_recv_ts' =
       [peer_last_recv_ts EXCEPT ![r] = worker[r][w].recv_ts_ns]
  /\ UNCHANGED << pc, locals, peer_last_seq_recv, peer_last_run, clock,
                  running, g_stop, stats, net, run, taken >>

\* stats.on_recv(recv_ts_ns, msg.own_seq, ..., msg.peer_last_seq).
Report(r, w) ==
  LET t == worker[r][w]
  IN  /\ t.at = "stats"
      /\ stats' = [stats EXCEPT ![r] = OnRecv(@, t.recv_ts_ns, t.msg.own_seq,
                                              t.msg.peer_last_seq)]
      /\ worker' = [worker EXCEPT ![r][w] =
                       Empty(IF running[r] THEN "idle" ELSE "ended")]
      /\ UNCHANGED << pc, locals, echoVars, clock, running, g_stop, net, run,
                      taken >>

\* A waiting thread that is told to end.
EndWorker(r, w) ==
  /\ ~ running[r]
  /\ worker[r][w].at = "idle"
  /\ worker' = [worker EXCEPT ![r][w] = Empty("ended")]
  /\ UNCHANGED << pc, locals, echoVars, clock, running, g_stop, stats, net, run,
                  taken >>

ThreadStep(r, w) ==
  StoreSeq(r, w) \/ StoreTs(r, w) \/ Report(r, w) \/ EndWorker(r, w)

---------------------------------------------------------------------------
(* The process is run again: after it finished, or after it was killed at  *)
(* any point.  Everything it kept in memory is gone; what it sent is still *)
(* on its way, and the machine's clock goes on.                            *)
Restart(r) ==
  /\ r \in Disturbed
  /\ run["A"] + run["B"] < 2 + MaxRestarts
  /\ pc[r] # "start"
  /\ run' = [run EXCEPT ![r] = @ + 1]
  /\ pc' = [pc EXCEPT ![r] = "start"]
  /\ running' = [running EXCEPT ![r] = FALSE]
  /\ g_stop' = [g_stop EXCEPT ![r] = FALSE]
  /\ t0' = [t0 EXCEPT ![r] = 0]
  /\ deadline' = [deadline EXCEPT ![r] = 0]
  /\ now' = [now EXCEPT ![r] = 0]
  /\ my_seq' = [my_seq EXCEPT ![r] = 0]
  /\ pkt' = [pkt EXCEPT ![r] = NoPacket]
  /\ peer_last_seq_recv' = [peer_last_seq_recv EXCEPT ![r] = 0]
  /\ peer_last_recv_ts' = [peer_last_recv_ts EXCEPT ![r] = 0]
  /\ peer_last_run' = [peer_last_run EXCEPT ![r] = 0]
  /\ stats' = [stats EXCEPT ![r] = NewRecorder(FALSE)]
  /\ worker' = [worker EXCEPT ![r] = [w \in Worker |-> Empty("none")]]
  /\ taken' = [taken EXCEPT ![r] = << >>]
  /\ UNCHANGED << clock, net >>

Next ==
  \E r \in Role :
    \/ Tick(r) \/ Signal(r) \/ MainStep(r) \/ Restart(r)
    \/ \E w \in Worker : Take(r, w) \/ ThreadStep(r, w)

Spec == Init /\ [][Next]_vars

(* Time passes, the operating system runs every runnable thread, and a     *)
(* callback that has begun goes on.  Nothing obliges the network to        *)
(* deliver, the user to send a signal or to start the program again.       *)
Fairness ==
  \A r \in Role :
    /\ WF_vars(Tick(r))
    /\ WF_vars(MainStep(r))
    /\ \A w \in Worker : WF_vars(ThreadStep(r, w))

FairSpec == Spec /\ Fairness

---------------------------------------------------------------------------
PcMain == { "start", "enter", "loop", "asleep", "load", "load_seq", "load_ts",
            "record", "send", "final", "stopping", "done" }

Packet == [ own_seq : Seqs, peer_last_seq : Seqs, peer_recv_ts_ns : Nat,
            run : Nat, ack_run : Nat ]

Thread == [ at : {"none", "idle", "ended"} \cup InCallback, msg : Message,
            recv_ts_ns : Nat ]

TypeOK ==
  /\ pc \in [Role -> PcMain]
  /\ clock \in [Role -> Nat]
  /\ running \in [Role -> BOOLEAN]
  /\ g_stop \in [Role -> BOOLEAN]
  /\ t0 \in [Role -> Nat] /\ deadline \in [Role -> Nat] /\ now \in [Role -> Nat]
  /\ my_seq \in [Role -> Seqs]
  /\ pkt \in [Role -> Packet]
  /\ peer_last_seq_recv \in [Role -> Seqs]
  /\ peer_last_recv_ts \in [Role -> Nat]
  /\ stats \in [Role -> Recorder]
  /\ worker \in [Role -> [Worker -> Thread]]
  /\ net \in [Role -> SUBSET Message]
  /\ run \in [Role -> Nat \ {0}] /\ peer_last_run \in [Role -> Nat]
  /\ taken \in [Role -> Seq(Receipt)]

---------------------------------------------------------------------------
(* The measurement.                                                        *)

\* Messages that r may still report: in flight, or held by a worker.
Circulating(r) ==
  net[r] \cup
    {worker[r][w].msg : w \in {v \in Worker : worker[r][v].at \in InCallback}}

\* The last sequence number that r has told its recorder about.
Recorded(r) ==
  IF pc[r] \in {"load", "load_seq", "load_ts", "record"} THEN my_seq[r] - 1
                                                         ELSE my_seq[r]

(* Every acknowledgement that the peer may return finds its send: when a   *)
(* message acknowledges one of our sequence numbers of this run, the ring  *)
(* still holds that number, unless RingSize later ones have been recorded. *)
(* run() calls on_send before tx->send for this: an answer can overtake    *)
(* the thread that sent the question.                                      *)
AckedSendIsFound ==
  \A r \in Role : \A m \in Circulating(r) :
    m.peer_last_seq # 0 /\ m.ack_run = run[r] =>
      \/ Found(stats[r], m.peer_last_seq)
      \/ m.peer_last_seq + RingSize <= Recorded(r)

(* A round trip never takes negative time, although the two clocks have    *)
(* nothing to do with each other, a worker stamps the answer long before   *)
(* it reports it, and sends are recorded in between.  True of a first run: *)
(* see RttIsOfThisRun.                                                     *)
RttNonNegative ==
  \A r \in Role : \A i \in DOMAIN stats[r].rtts_ns : stats[r].rtts_ns[i] >= 0

(* README.md on computed_rtt_ns: "how long it took for our own message to  *)
(* reach the peer and for the peer to publish a packet that acknowledges   *)
(* it" - our own message, so one of this run.  A run started while the     *)
(* peer is still up receives acknowledgements of the run before.           *)
RttIsOfThisRun ==
  \A r \in Role : \A w \in Worker :
    worker[r][w].at = "stats" /\ Found(stats[r], worker[r][w].msg.peer_last_seq)
      => worker[r][w].msg.ack_run = run[r]

---------------------------------------------------------------------------
(* The echo: what a packet says it answers.                                *)

(* Payload.msg: peer_last_seq is the "peer's seq the sender most recently  *)
(* received", peer_recv_ts_ns the "sender's CLOCK_MONOTONIC at recv of     *)
(* peer_last_seq".  While no callback is between the two stores, the two   *)
(* atomics hold exactly that.                                              *)
EchoIsLatest ==
  \A r \in Role :
    /\ taken[r] # << >>
    /\ \A w \in Worker : worker[r][w].at \notin {"seq", "ts"}
    => [ own_seq |-> peer_last_seq_recv[r], recv_ts_ns |-> peer_last_recv_ts[r] ]
         = taken[r][Len(taken[r])]

---------------------------------------------------------------------------
(* The schedule.                                                           *)

(* However late the loop runs, the deadline of the next send stays on the  *)
(* grid t0 + k * period_ns: delays do not accumulate, they are caught up.  *)
NoDrift ==
  \A r \in Role : pc[r] \notin {"start", "enter"} =>
    deadline[r] = t0[r] + my_seq[r] * Period[r]

(* No catching up exceeds the plan: at most one message per started period *)
(* of the run, and the first send of each is not ahead of its slot.        *)
SendsWithinPlan ==
  \A r \in Role : my_seq[r] > 0 =>
    /\ my_seq[r] <= Plan(r)
    /\ t0[r] + (my_seq[r] - 1) * Period[r] <= now[r]

(* Once run() has left stop(), no thread is inside the receive callback,   *)
(* which holds references to locals of run().                              *)
NoCallbackAfterStop ==
  \A r \in Role : pc[r] = "done" =>
    \A w \in Worker : worker[r][w].at \notin InCallback

(* The loop of a process ends by itself and the process with it, whatever  *)
(* the peer and the network do - unless it is killed and started again.    *)
EveryRunEnds == \A r \in Role : pc[r] = "loop" ~> pc[r] \in {"done", "start"}

=============================================================================
