------------------------------- MODULE UdpRun -------------------------------
(***************************************************************************)
(* run() with a raw_udp transport: the owner of RawUdpTransport is the     *)
(* main thread of Runner, or any other owner.  A call of start() or stop() *)
(* is a step of both, and so is its return; raw_udp's send() never throws. *)
(* A killed process takes no step any more.                                *)
(***************************************************************************)
EXTENDS RawUdpTransport, Runner

allVars == << vars, mainVars >>

RunInit == Init /\ MainInit

Alone(A) == A /\ UNCHANGED mainVars

RunCallsStart == CallStart /\ Follows("ready", "starting")

RunStartStep ==
  \/ Alone(OpenSocket \/ Bind \/ SetRunning)
  \/ SocketFails /\ FollowsThrow("starting", "start")
  \/ BindFails /\ FollowsThrow("starting", "start")
  \/ SpawnFails /\ FollowsThrow("starting", "start")
  \/ Spawn /\ Follows("starting", "started")

\* Variant: the destructor does not stop the transport.
RunCallsStopOnly ==
  \/ CallStop /\ Follows("stop", "stopping")
  \/ UNCHANGED vars /\ Goes("destroy", "exited")

\* tx->stop(), or the destructor's, which mostly finds nothing to do.
RunCallsStop ==
  \/ CallStop /\ (Follows("stop", "stopping") \/ Goes("destroy", "destroying"))
  \/ at = "out" /\ ~ running /\ UNCHANGED vars /\ Goes("destroy", "exited")

RunStopStep ==
  \/ Alone(Shutdown \/ Close \/ ClearFd)
  \/ Join /\ (Follows("stopping", "stopped") \/ Goes("destroying", "exited"))

RunMainStep ==
  /\ UNCHANGED vars
  /\ MakeLocals("built") \/ MainStep \/ Goes("stopped", "return")

RunNext ==
  /\ main # "killed"
  /\ \/ RunCallsStart \/ RunStartStep \/ RunCallsStop \/ RunStopStep
     \/ RunMainStep
     \/ Alone(ThreadStep) \/ Alone(ReceivePayload) \/ Alone(ReceiveOther)
     \/ UNCHANGED vars /\ (TimeIsUp \/ KilledBySignal \/ OnSignal)

RunSpec == RunInit /\ [][RunNext]_allVars

Runs(A) == main # "killed" /\ A

(* Threads run, and the callback returns: it stores two atomics and takes  *)
(* one mutex.  The main thread of run() is scheduled and time passes.      *)
(* Nothing obliges datagrams to arrive, or another owner to call.          *)
RunFairSpec ==
  /\ RunSpec
  /\ WF_allVars(Runs(RunStartStep)) /\ WF_allVars(Runs(RunStopStep))
  /\ WF_allVars(Runs(Alone(ThreadStep)))
  /\ WF_allVars(Runs(RunMainStep)) /\ WF_allVars(UNCHANGED vars /\ TimeIsUp)
  /\ WF_allVars(main # "none" /\ Runs(RunCallsStart \/ RunCallsStop))

---------------------------------------------------------------------------
(* The receive callback refers to locals of run(): no thread is inside it  *)
(* before they are made or after they are destroyed, whichever way run()   *)
(* ends.                                                                   *)
LocalsOutliveCallbacks ==
  main # "none" /\ thread = "callback" => LocalsLive \/ main = "killed"

(* A process that has come to its end, by the return of run() or by an     *)
(* exception, has left no thread and no descriptor to the clean-up that    *)
(* follows main.                                                           *)
ExitsClean ==
  main = "exited" => ~ running /\ thread = "none" /\ open = {}

(* stop() returns, wherever the receive thread is when it is called: the   *)
(* blocked one is woken by shutdown(), the others see running_ or a closed *)
(* descriptor.                                                             *)
StopReturns ==
  at \in {"shutdown", "join"} ~> at = "out" \/ main = "killed"

(* Once its handlers are installed, run() ends after a signal or at the    *)
(* end of its time, and does so for its own part whatever arrives.         *)
RunEnds == main = "loop" ~> main \in {"exited", "killed"}
=============================================================================
