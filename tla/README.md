# Verification of comm_benchmark

`comm_benchmark` measures the round-trip latency between two machines.  A
process on each side (`bench_a`, `bench_b`) sends a numbered packet at a fixed
rate; every packet echoes the number of the last packet received from the other
side; from the echo each side computes round-trip times on its own clock, and
from the gaps in the numbers it infers losses.  Six transports carry the packets;
scripts start the programs, evaluate their output and prepare the network.

This directory holds TLA+ modules of that program and of its scripts, the TLC
configurations that check them and proofs checked by TLAPS.  Paths below are
relative to `src/comm_benchmark/`.

    tlc -workers 2 -config BenchMeasure.cfg MCBench.tla
    tlapm BenchProofs.tla

## 1. Inventory

| component | state | operations | talks to |
|---|---|---|---|
| **StatsRecorder** (`src/stats.cpp`) | ring of the latest sends, samples, last peer number, loss total, row count, CSV | constructor, `on_send`, `on_recv`, `summary` - each under one mutex | called by the send loop and by the receive callback |
| **run()** (`src/bench_run.cpp`) | deadline, own number, packet; two atomics with the last message received; `g_stop`; the handlers of the signals | send loop, receive callback, signal handler, the ways out | owns a transport and a recorder |
| **Transport** (`transport.hpp`) | - | `set_recv_callback`, `start`, `stop`, `send` | calls the callback on its own threads |
| **raw_udp** (`src/transports/raw_udp.cpp`) | socket descriptor, `running_`, receive thread | start, stop, receive loop, send | the kernel |
| **ros2_be, ros2_mte** (`src/transports/ros2_*.cpp`) | node, publisher, subscription, executor, spin thread, `running_` | start, stop, subscription callback, send | the rclcpp executor |
| **zenoh_p2p, zenoh_router, dds_unicast** | a configuration file, an environment variable, a `Ros2BeTransport` | constructor; everything else is passed on | the middleware, through the environment |
| **command line** (`src/cli.cpp`, `src/bench_[ab]_main.cpp`) | the configuration | `parse_cli`, `main` | hands the configuration to run() |
| **bench_one.sh** (`scripts/`) | - | one call: checks, middleware, flags | starts `bench_a` or `bench_b` |
| **analyze.py** (`scripts/`) | - | `load`, `percentile`, `report` | reads the CSV |
| **network scripts** (`network/`) | keys and configurations on disk; tunnel, routes, firewall rules | `setup_wg.sh`, `apply_wg.sh`, `pc_c_mode.sh abcd`, `clean_lan` | WireGuard, NetworkManager, nft, each other's leftovers |
| documentation, build files | - | - | not modelled |

What makes them right, and what makes that hard:

* **StatsRecorder.** A sample is taken exactly for the acknowledgements of the
  latest 65536 sends, from the right send.  Hard: the ring wraps, the numbers
  wrap, the number 0 has a meaning of its own, the stamp of an inbound message
  is older than the lock under which it is reported.  The loss total covers what
  is missing although messages arrive late or twice.  The line printed at the
  end and the table made later from the CSV describe one distribution, although
  two programs compute them in two ways.
* **run().** No sample is lost because an answer overtakes the thread that asked;
  no round trip is negative; the echo is that of the last message; the schedule
  neither drifts nor overshoots after a stall; a run ends.  The callback holds
  references to locals of `run()` and never outlives them, whether `run()` returns
  or is unwound by an exception.  Hard: three kinds of threads, relaxed atomics,
  peers that are restarted, signals that three handlers compete for.
* **Transports.** `stop()` returns wherever the transport's threads are, nothing
  is left behind by a failed `start()`, nothing is destroyed in use.
* **Command line and bench_one.sh.** Settings are what was given last, in spite of
  values that look like flags; two programs started alike, or by two calls of the
  script, find each other; the environment is prepared before ROS reads it.
* **Network scripts.** Every command may fail or be interrupted, and the scripts
  are then run again, in another mode, on another day, after a reboot.  A key that
  was shown must stay; a script that ends well has done what it says; running
  `setup_wg.sh` or `pc_c_mode.sh` again repairs what was left.

The list of hazards, each at its line, is in `PROJECT.json`.

## 2. Modules

| module | models | kind |
|---|---|---|
| `StatsRecorder` | class StatsRecorder as operators on a record | operators |
| `RttMeter` | what the recorder promises about round trips, without a ring | abstract specification |
| `StatsCallers` | one recorder and everything its callers can do; implements `RttMeter` | state machine |
| `StatsReport` | `summary()` and `analyze.py` on the state of `StatsCallers` | operators |
| `StatsRecorderProofs`, `StatsCallersProofs` | facts about the operators, theorems about the state machine | proofs |
| `StatsReportProofs` | theorems about the two reports | proofs |
| `TransportContract` | when the receive callback may run | abstract specification |
| `Bench` | two processes running run() over an unreliable network | state machine |
| `BenchProofs` | theorems about the two processes | proofs |
| `RawUdpTransport`, `Ros2Transport` | the transports with any owner; both implement `TransportContract` | state machines |
| `Runner` | the main thread of run() from its transport to the end of the process | actions |
| `UdpRun`, `RosRun` | `Runner` joined with either transport, or any other owner of it | composition |
| `RawUdpProofs`, `Ros2Proofs` | theorems about the transports, alone and inside run() | proofs |
| `Launch` | from the command line to a built transport, both programs | state machine |
| `BenchOne` | `bench_one.sh` as the author of `Launch`'s command lines | composition |
| `LaunchProofs` | theorems about both | proofs |
| `WgTunnel` | `setup_wg.sh` and `apply_wg.sh` on both hosts | actions |
| `PcCMode` | `pc_c_mode.sh` on PC c | actions |
| `Network` | the scripts together, with reboots and an operator | state machine |
| `NetworkProofs` | theorems about them | proofs |
| `MC...` | constants and scenarios for TLC | model |

`StatsCallers` and `Bench` both extend `StatsRecorder`: the first drives the
recorder with arbitrary calls, so what is proved there does not depend on
run(); the second gives one recorder to each process.  `Bench` uses its
transport by the contract that the two transport modules implement.  `Bench` and
`Runner` are two views of run(): the first has what is sent, echoed and recorded
and two processes, the second has one process with all its ways in and out.

### State and actions against the code

**StatsRecorder.**  Each method holds `mtx_` from beginning to end, so a call is
one step and is written as an operator from the recorder before to the recorder
after: `NewRecorder`, `OnSend`, `OnRecv`.  The fields have the names of the
members; `csv` holds the rows written.  Left out: the text of rows and summary,
and `peer_send_ts_ns`, which is copied and never used.

**StatsCallers, StatsReport.**  `RecordSend` is `++my_seq; stats.on_send(my_seq,
now)`.  `RecordRecv(m)` is `stats.on_recv` for a message m with any peer number,
any acknowledged number and any stamp up to now.  `send_log` and `recv_log` are
histories of the calls.  `StatsReport` adds no state: `SummaryPercentile` is
what `nth_element` leaves at the rank, the value with at most that many below it
and more up to it; `LoadedPercentiles` are entries of the sorted column that the
loop of `load()` kept (`Positive`, `Total`, `Sorted`).  Ranks are cut to an integer
in both.

**Bench.**  The main thread of role r goes through `pc[r]`:
`start` (`Start`: `tx->start()`) - `enter` (`Enter`: t0, first deadline) - `loop`
(`LeaveLoop`, `Sleep`/`Wake`, `TakeSlot`) - `load`, `load_seq`, `load_ts` (the two
relaxed loads, in either order) - `record` (`on_send`) - `send` (`tx->send`) - back
to `loop`; then `final` (`StopTransport`) - `stopping` (`JoinWorkers`) - `done`.
A worker thread takes a message and stamps it (`Take`), stores the two atomics
(`StoreSeq`, `StoreTs`) and reports it (`Report`).  The network is a set: a message
may be delivered never, late, repeatedly, in any order.  The clocks of the two
machines are unrelated; a clock advances between any two steps.  `Restart` ends a
process at any point and starts it anew, with its memory gone and its messages
still on their way.  `run`, `peer_last_run`, `taken` and the fields `run`,
`ack_run` of messages are histories.  The CSV is closed here; the padding, the
dummy sinusoid, the periodic log line and scheduling priorities are left out.

**RawUdpTransport.**  Every statement of `start()` and `stop()` that the receive
thread can observe is a step of `at`; the receive thread reads `running_` and
`sock_fd_` in steps of their own, so a stale descriptor can be passed to
`recvfrom`.  System calls may fail.  External: the kernel, reduced to which
descriptors are open, which are shut down, and that `shutdown()`, not `close()`,
wakes a blocked `recvfrom()`.

**Ros2Transport.**  The owner's steps as above, with the four parts built in
order, and a failure possible at each and after the last (`StartFails`: the
constructors, `add_node`, `std::thread`); one module for both classes, with one executor thread (`ros2_be`) or
several (`ros2_mte`).  External: the executor, reduced to its flag `spinning`, its
guard condition and the rule that one thread at a time waits; and the context,
whose shutdown makes spin() return.

**Runner, UdpRun, RosRun.**  `main` is the place of the main thread: `built` (the
transport exists) - `init` (`InitRcl`) - `ready` (`MakeLocals`) - `starting` -
`started` (`InstallHandlers`) - `loop`, `sending` - `final` - `stop` - `stopping` -
`stopped` (`ShutdownRcl`) - `return` or, from `rclcpp::init`, `start()` and
`send()`, `unwind` - `destroy` (the locals are gone) - `destroying` (the
destructor of the transport calls `stop()`) - `exited`.  `handler` says who gets a
signal: nobody (`KilledBySignal`), rclcpp, which shuts the context down
(`SignalToRcl`), or run() (`OnSignal`).  A call of `start()` or `stop()` is one step
of both modules, and so is its return.  `main = "none"` stands for any other
owner, who may call `start()` and `stop()` as often as he likes.

**Launch.**  One action per kind of flag in the loop of `parse_cli`, the checks
and default ports after it (`RejectConfig`, `Accept`), the role that `main` pins, the
switch of run() (`Build`) with the refusals of the constructors and the session
file, which may fail to be written unnoticed (`Unwritten`), and `rclcpp::init`
(`InitRos`, `InitRosFails`) reading the environment with the middleware that
`RMW_IMPLEMENTATION` names.  Words are compared, never taken apart; which words are
numbers is a constant, and they include the numerals that the programs and the script
write (`NumeralsAssumption`).  `IsValue(words, j)`, whether word j is the value of the word
before it, is what the loop's index comes to; it is used by the properties only.

**BenchOne.**  A call is a record of the arguments and the caller's middleware.
`Refused` are the checks, `ScriptRmw` the choice of the middleware, `ScriptArgs`
the line.  `ScriptSpec` starts `Launch` either with a pair of calls, one per role,
or with a line typed by hand.

**WgTunnel, PcCMode, Network.**  Per host: the key files `priv` and `pub` and the
configuration `conf` on disk, and what a reboot takes away - what `wg0` runs with
(`wg`) and the `routes` to the net in question.  PC c has the hub's connection
(`hub`), `forward` and the nft `rules`.  At most one script runs at a time (`at`,
`host`, `arg`); each action is one command of it that changes something.  `Begin`
chooses whether the run is `calm`: then nothing fails that need not fail.
Otherwise any command may be the last (`Interrupt`: `set -e`, or Ctrl-C), and one
that ends in `|| true` may fail unnoticed.  What must fail fails in a calm run too:
bringing up an interface that is up, or one with a key of 43 characters, adding a
route where one is.  `Reboot` loses the volatile state and activates the hub's
connection; `HubUpByHand` is the operator who heeds the script's warning.  `last`
and `shown` are histories: how the last script ended on each host, and the keys it
has printed.  A key pair is one number.  When the making of keys is broken off
(`MakeKeysCutShort`), both files have been emptied, and each has been written or
not.  When only `tee` fails (`MakeKeysUnstored`), the private half is missing and the
script goes on; the history `unstored` has these keys.

## 3. Runs

| run | question | bounds |
|---|---|---|
| `Stats` | is the recorder an `RttMeter`, with a ring that is the window of the latest sends; is the loss total right; do summary, CSV and `analyze.py` agree? | three scenarios: 7 sends into 3 slots with numbers 0..4, so that the ring is overwritten twice and the numbers wrap; every order of 4 arrivals of the numbers 1..4; every order of 4 samples of 0 to 2 ns |
| `BenchMeasure` | is the measurement right with one delivering thread? | A sends up to 2, with a period of 2 and a duration of 3 ticks; B sends 1; ring of 1, up to 2 messages taken per side |
| `BenchRerun` | do acknowledgements find their send across a restart, and does every run end? | one signal and one restart of A, which is B's mirror image, at any point |
| `UdpRun` | whichever way run() ends: does anything leak, does stop() return, does a callback outlive the locals, does the run end? | one run(); three lives of a transport with another owner |
| `RosRun` | ... over ROS, and is nothing destroyed in use? | two executor threads; one run(); two lives with another owner |
| `Launch` | are settings those given, do both ends meet, does ROS see its session, by hand and by script? | every line of up to 3 out of 20 phrases, with both middlewares; every pair of calls out of 75, for each transport, middleware, role and a choice of the other arguments |
| `Network` | do the scripts do what they say, and repair what was left? | 5 runs of scripts, 1 reboot, 2 keys made; two scenarios: both hosts and their tunnel, PC c with all scripts |
| `BenchReentrant` | is the echo the last message under `ros2_mte`? | violated |
| `BenchStaleAck` | is every sample of this run? | violated |
| `Ros2LostCancel` | does stop() always return? | violated |
| `NetworkHub` | does `clean_lan` bring the hub back up after `abcd`? | violated; 3 undisturbed runs of scripts on PC c, from a connected hub |
| `NetworkLostKey` | does a key that `setup_wg.sh` has shown stay? | violated; 2 runs of scripts |

Why the bounds are enough.  The ring matters through its size against the number
of sends and the size of the number space: the runs overwrite every slot, wrap
the numbers, and acknowledge numbers inside, at the edge of and outside the
window; the theorems cover every size.  Loss needs a gap wider than one, a late
and a repeated arrival, all of which four arrivals out of four numbers contain.
With four samples the ranks of the four percentiles differ, and equal samples
occur.  The races of `Bench` are between one send, one message taken and its answer;
the second send is there so that a ring of one slot is overwritten while an
acknowledgement is on its way, and its period does not divide the duration.  What two
delivering threads add is in `BenchReentrant`, and in `RttsAreNotNegative`, which
holds for any number of them.  Repeated lives of a transport can differ only in
what the previous one left, which a second life shows, and a third in `UdpRun`.  In
`Launch` a phrase affects the next one (a flag that takes it for its value) or an
earlier one of the same flag, so three phrases contain all pairs and what follows
them.  In `Network` keys shown before and after they were broken off need two keys; a
run that leaves something, one that trips over it and one that repairs it, on top of
a set-up on each host, need five.

The invariants of type (`TypeOK` of every state machine) are theorems, see below, and
are not run again.

Deadlock is not checked: a process that has ended, a transport nobody calls, a
recorder whose callers have reached their bounds and scripts that nobody runs
really stop.

Fairness.  `Bench!Fairness`: time passes, a runnable main thread runs, a callback
that has begun goes on (it stores two atomics and takes one mutex).  Nothing
obliges the network to deliver, the user to signal or to restart.  `RunFairSpec` of
`UdpRun` and `RosRun`: the main thread of run() is scheduled, time passes, a started
call of `start()` or `stop()` goes on, and so does every thread that can run.
Datagrams and messages need not arrive, so a blocked thread may stay blocked unless
it is woken; another owner need not call; signals need not come; and a killed process
stops.  Without these, no claim about ending is possible, and they are what an
operating system with preemptive threads gives.  The liveness properties are
`EveryRunEnds`, `RunEnds`, `StopReturns` and `StopReturnsOnceSpinning`.

### What the violated runs show

* **BenchReentrant.**  `ros2_mte` puts its subscription into a Reentrant group
  (`ros2_mte.cpp:41`), so two callbacks interleave their stores and the atomics
  keep an older number, or a pair of two messages, when both are done.
  `msg/Payload.msg:6` says "most recently received".
* **BenchStaleAck.**  A process restarted while its peer runs draws its numbers
  again from 1; an acknowledgement of the earlier run matches a new send
  (`stats.cpp:54`) and gives a sample that is no round trip.
* **Ros2LostCancel.**  `cancel()` before the new thread has reached `spin()` is lost,
  since `spin()` sets its flag anew, and `stop()` waits in `join()` for ever
  (`ros2_be.cpp:51`).  The same in `ros2_mte`.  `StopReturnsOnceSpinning` and
  `RunEnds` of the run `RosRun` show that this window is the only problem.
* **NetworkHub.**  `clean_lan` looks for the hub's connection by its DEVICE in
  `nmcli c show` (`pc_c_mode.sh:130`), which names devices only of active
  connections.  The run starts with the hub connected and nothing fails in it: the
  tunnel is brought up, `abcd` takes the connection down, `clean_lan` does not find it,
  and the hub stays down until a reboot or an operator.  Line 129 says "Bring hub NM
  connection back up".
* **NetworkLostKey.**  The status of `wg genkey | tee PRIV | wg pubkey > PUB`
  (`setup_wg.sh:60`) is that of `wg pubkey`.  If `tee` cannot write its file, PRIV is
  empty, PUB is written, and the run shows the key and ends well.  Run again, the
  script finds PRIV empty, makes another pair and shows another key; the peer has
  the first.  Line 11 says "Idempotent — re-runnable. Keys aren't regenerated if
  already present."  `TunnelAgrees` is stated of all other keys.

Met while modelling, and not shown by a run:

* `bench_a_main.cpp:9`: `main` pins the role after the default ports were chosen by
  `--role` (`cli.cpp:132`): `bench_a --role b --transport raw_udp` comes up as A on the
  ports of B.  `EndsMeet` leaves `--role` out.
* `bench_run.cpp:184`: when `send()` throws, the recorder and the atomics are destroyed
  before the transport, whose destructor stops the executor.  Callbacks in between
  use them after their end.  `LocalsOutliveCallbacks` of `RosRun` leaves out exactly
  this case.
* `pc_c_mode.sh:99-103`: only the first of the two rules is looked for.  Broken off
  between the two inserts, every later `abcd` takes the pair for inserted
  (97-98: "re-insert idempotently"), and the second is missing until a reboot.
  `AbcdReady` promises the first.
* `setup_wg.sh:106`, `:119`: the route deleted, or replaced by PostUp, may be that of
  the hub.  Run in `clean_lan` mode, the script leaves PC c without it.
* `wg0.b.conf:19`: the PublicKey has 43 characters.  `apply_wg.sh b` takes a running
  tunnel down and then fails.
* `bench_run.cpp:172`: the echoed pair is read in two loads, so a packet may carry the
  number of one message and the time of another (`Payload.msg:8`).  No receiver
  reads the time.
* `stats.hpp:27` says to call `on_send` after publishing; run() calls it before.
  The code is right: with the documented order `AckedSendIsFound` fails.
* `stats.hpp:41` calls `row_count()` the number of rows written; rows are counted
  with the CSV closed, too.
* `transport.hpp:25` calls `start()` idempotent; the second `start()` of `raw_udp`
  assigns to a joinable thread, and a `start()` of a ROS transport after a failed
  one returns without bringing anything up.
* `cli.cpp:121`, `:127`: `--peer-ip` is never missed, because its default is not empty;
  `cli.cpp:96`: a port above 65535 is cut, not rejected.

## 4. Proofs

All theorems hold for every value of the constants that the named assumptions
allow; the bounds of the runs play no part in them.

| theorem | says | of |
|---|---|---|
| `CallersTypes` | types | `StatsCallers` |
| `RingCorrect` | the ring is the window of the latest sends | |
| `LookupCorrect` | the lookup of `on_recv` is exact | |
| `MeterImplemented` | the recorder implements `RttMeter` | |
| `LossBounded`, `LossExact` | the loss total is at least what is missing; exact in order | |
| `TypesAreKept` | types | `Bench` |
| `AckedSendsAreFound` | an acknowledgement on its way finds its send, across restarts | |
| `ScheduleDoesNotDrift`, `SendsStayWithinPlan` | `NoDrift`, `SendsWithinPlan` | |
| `CallbacksEnd` | no callback after `stop()` | |
| `RttsAreNotNegative` | no negative sample, if nobody is restarted, with any number of worker threads | |
| `EchoIsTheLatest` | the echo is the last message, with one worker thread | |
| `RawUdpTypes`, `RawUdpReleases`, `RawUdpListens` | types; nothing is left behind; only `stop()` ends the thread | `RawUdpTransport` |
| `RawUdpIsTransport` | the contract is implemented | |
| `UdpRunIsTransport` | inside run() the transport takes no other steps | `UdpRun` |
| `UdpRunKeepsLocals`, `UdpRunExitsClean` | no callback outlives the locals; the process leaves nothing behind | |
| `Ros2Types`, `Ros2DestroysNothingInUse`, `Ros2Releases` | types; nothing destroyed in use, or left after `stop()`, wherever `start()` failed | `Ros2Transport` |
| `Ros2IsTransport` | the contract is implemented | |
| `RosRunIsTransport`, `RosRunKeepsLocals`, `RosRunExitsClean` | as for `UdpRun` | `RosRun` |
| `ReportsAgree` | summary and CSV have the same totals and positive samples | `StatsReport` |
| `PercentilesCoincide` | summary and `analyze.py` report the same maximum and percentiles | |
| `LaunchTypes`, `RosReadsItsSession` | types; ROS reads the session of its transport | `BenchOne` |
| `WordsAreParsedAsGiven` | every setting, the role included, is the last value given, or the default | |
| `BothEndsMeet` | programs started alike find each other | |
| `ScriptArgumentsAreTaken` | what the script writes is accepted and means the call | |
| `ScriptCallsMeet`, `ScriptSessionIsUsed` | `ScriptEndsMeet`, `ScriptHonoursSession` | |
| `NetworkTypes` | types | `Network` |
| `TunnelsAgree`, `TunnelIsUpAsAsked` | keys stored and shown stay and fit; the tunnel is the one asked for | |
| `RerunsRepair` | an undisturbed run of `setup_wg.sh` or `pc_c_mode.sh` does not end as failed, whatever was left | |
| `AbcdIsReady`, `CleanLanIsReady` | the routes are those of the mode | |

Assumptions.  `RingAssumption`: the ring has a slot and is shorter than the number
space (65536 against 2^32).  `CallersAssumption`: types of the bounds; the peer's
numbers do not wrap.  `BenchAssumption`: periods are positive, and fewer than 2^32
of them begin before the end of a run (`Plan`), which last 99 days at 500 Hz.  `RawUdpAssumption`, `Ros2Assumption`, `TunnelAssumption`,
`NetworkAssumption`: types of the bounds.  `LaunchAssumption`, `CallsAssumption`: types
of command lines and calls; the words the programs know and write are words.
`NumeralsAssumption`: the numerals the script writes stand for their numbers.  The
theorems with a condition state it as their ASSUME: with a restart
`BenchStaleAck` refutes the claim about samples, and with two workers
`BenchReentrant` refutes the one about the echo.

The recorder.  "The slot of age a holds the send made a sends ago" is inductive
only with the numbers: each send of the window carries the number that its age
predicts, so that different live slots have different numbers and a linear scan
cannot find a wrong one.  That is why `RingHoldsWindow` speaks of the ring, the
log and `my_seq` together.  `on_send` increases all ages by one and reuses the
slot of the oldest; `on_recv` leaves the ring alone.  The lookup, and step by step
the refinement, follow from the invariant.  For loss, `LossInv` adds what the
recorder remembers (the last number, which on an in-order stream is the largest):
a message above the last number opens exactly the gap between the two, one below
it opens none.

The processes.  `BenchInv` has five parts besides the types.  `Control`: the worker
threads exist from `start()` to the end of `stop()`, and stop() waits until they
have ended.  `Schedule`: a number is drawn only in a period that began before the
end of the run, so that numbers do not wrap.  `OwnPacket`: the packet in hand has
the number last drawn.  `RingNumbers`: the slot of age a holds the number recorded
a sends ago.  `Carried`: every number that anybody holds - a message, a worker, the
atomics, the packet - was recorded by its sender in its run; this is where the
order of `on_send` and `send` matters.  `AckedSendIsFound` is the meeting of the
last two.  For round trips `RttInv` adds the clocks: `Stamped`, nothing in the ring
is later than now, and `Answered`, the message in a worker's hands was stamped
after the send that it answers.  A send recorded in the meantime cannot be
mistaken for that one, because its number is larger than any acknowledged before.

The transports.  `RawUdpInv` says what the object holds at every place of `start()`
and `stop()`; `Ros2Inv` ties the executor's threads to the spin thread and the spin
thread to the parts that are built.  Both give the contract step by step.  Inside
run(): `UdpRunIsTransport` and `RosRunIsTransport` show that every step of the
composition is a step of the transport or leaves it alone, so that the invariants
above hold there too.  A further invariant ties the place of the main thread to
that of the transport - it is up from `started` to `stop`, and down at `exited` -
and locals and exits follow.

The reports.  `ReportInv` is the ring's invariant with `SummaryAgreesWithCsv`: on_recv
adds to the row what it adds to the members, and a row without a round trip holds -1,
which `load()` drops.  What the proof needs beyond that is what a loop over a column
computes.  `Total` and `Positive` are recursive functions of the length; that a
solution of the recursion exists, that there is only one, and that one more row changes
it by that row, is shown by the least counterexample (`LeastNat`), since a set of
numbers without a least element is empty.  For the percentiles: a sorted order exists,
because the number of values before an index, ties in their order, is a permutation
(`Sortable`); counting shows that the value a sort puts at place k is the only one that
`nth_element` can leave there (`NthIsSorted`); and a sample that `load()` drops is never
the maximum if it keeps one at all.

Start-up.  `LaunchInv` is the types and, for each stage, what exists at it: no
transport before the line is accepted, one of the kind asked for afterwards, the
session written for it before ROS is initialised.  For what the words mean, `AllRead`
says of each program what its loop has made of the words before its index, and at each
later stage of all of them.  It is stated without the loop: the settings are those that
the last values given make (`SettingsBefore` the index, `RunsWith` in the end), and a
program that ended did so because of the first word that stops it (`Outcome`).  Both
are functions of the words alone, so two programs with the same words come to the same
end, and `BothEndsMeet` is a comparison of two transports built from them.  Where the
values are is again a recursion, because a value may look like a flag: the word before it takes a value and
is none itself.  The recursion is shown to have a solution, given without recursion by
the length of the run of flags before a word (`TakenAsValue`), so that `IsValue` can be
followed word by word, again to the least counterexample.
`CallInv` adds whose words they are when the script has written them: then every
setting can be read off the call, and the three properties of `BenchOne` follow.
`AllRead` and `CallInv` were checked by TLC on the instance of `Launch` before they
were proved.

The network.  `NetInv` consists of the types, the properties themselves and three
parts.  `KeysInv`: the key files hold proper keys or nothing, two of them belong together,
and a key that was shown is the one in the files, or one whose private half was not
stored.  A run that goes on with such a key (`KeyUnstored`) is not a calm one, and
`wg-quick up` stops it.  `SetupInv` and `ModeInv`: what a script that has come to a
certain command has established - that the interface is down before it is brought
up, in a calm run that the hub's route is gone before the tunnel's is added.  No
part speaks of what earlier runs left, which is why any leftover is repaired.

Every invariant and every action property that a run checks is a theorem, some under
the conditions named above.  Only model-checked are the properties of liveness
(`EveryRunEnds`, `RunEnds`, `StopReturns`, `StopReturnsOnceSpinning`), which rest on
fairness and are out of the prover's reach.

## 5. Not modelled

* Documentation and build files: no behaviour.
* `analyze.py`: mean and standard deviation, and CSV files that something else wrote.
* `run()`: the periodic log line, and that the FINAL line is printed before `stop()`,
  so that rows may follow in the CSV; no document promises otherwise.
* `stats.cpp:43`: a gap in the peer's numbers across the wrap of uint32_t is not
  counted; the model keeps the peer's numbers below the wrap, which a run at 500 Hz
  reaches after 99 days.
* `start()` on a `raw_udp` transport that is up, which ends the process.
* `bench_one.sh`: addresses with blanks, which the script would split.
* Network scripts: installing packages, the iptables rules of PostUp, GRE
  leftovers, `pc_c_mode.sh status`, and a private key of which only a part was
  written.

## 6. Plan

Done: every component that has behaviour, each with the properties of section 1,
and proofs of all of them but liveness.  Possible next steps:

1. `Bench` with exceptions out of `send()`, joining it with `Runner`.
2. A wrap of the peer's numbers in `StatsCallers`, with the loss total as the code
   computes it across the wrap.
3. The clauses that the conditions of section 4 leave out, as theorems about fewer
   actions: which samples are of this run when only the peer is restarted.
