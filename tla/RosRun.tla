------------------------------- MODULE RosRun -------------------------------
(***************************************************************************)
(* run() with a ROS transport: the owner of Ros2Transport is the main      *)
(* thread of Runner, or any other owner.  A call of start() or stop() is a *)
(* step of both, and so is its return.                                     *)
(*                                                                         *)
(* Signals between rclcpp::init and the handlers of run() go to rclcpp,    *)
(* which shuts the context down.  publish() may throw, but not because the *)
(* context is gone: then it returns at once.                               *)
(***************************************************************************)
EXTENDS Ros2Transport, Runner

allVars == << vars, mainVars >>

RunInit == Init /\ MainInit

Alone(A) == A /\ UNCHANGED mainVars

RunCallsStart == CallStart /\ Follows("ready", "starting")

RunStartStep ==
  \/ Alone(Build)
  \/ StartFails /\ FollowsThrow("starting", "start")
  \/ Spawn /\ Follows("starting", "started")

\* Variant: the destructor does not stop the transport.
RunCallsStopOnly ==
  \/ CallStop /\ Follows("stop", "stopping")
  \/ UNCHANGED vars /\ Goes("destroy", "exited")

\* tx->stop(), or the destructor's, which mostly finds nothing to do.
RunCallsStop ==
  \/ CallStop /\ (Follows("stop", "stopping") \/ Goes("destroy", "destroying"))
  \/ at = "out" /\ ~ running /\ UNCHANGED vars /\ Goes("destroy", "exited")

RunStopStep ==
  \/ Alone(Cancel \/ Join)
  \/ Reset /\ (Follows("stopping", "stopped") \/ Goes("destroying", "exited"))

\* The context is shut down by run(), if a signal has not done it before.
RunShutsDown == ShutdownRcl /\ (ContextShutsDown \/ (~ ok /\ UNCHANGED vars))

RunMainStep ==
  /\ UNCHANGED vars
  /\ \/ InitRcl \/ InitRclFails \/ MakeLocals("init")
     \/ MainStep \/ SendThrows

SignalToRcl == InRun /\ handler = "rclcpp" /\ Alone(ContextShutsDown)

AnotherShutsDown == main = "none" /\ Alone(ContextShutsDown)

RunNext ==
  /\ main # "killed"
  /\ \/ RunCallsStart \/ RunStartStep \/ RunCallsStop \/ RunStopStep
     \/ RunShutsDown \/ RunMainStep \/ SignalToRcl \/ AnotherShutsDown
     \/ Alone(SpinBegins) \/ Alone(SpinReturns)
     \/ \E t \in ExecThread : Alone(ExecStep(t)) \/ Alone(Receive(t))
     \/ UNCHANGED vars /\ (TimeIsUp \/ KilledBySignal \/ OnSignal)

RunSpec == RunInit /\ [][RunNext]_allVars

Runs(A) == main # "killed" /\ A

(* As Ros2Transport!FairSpec, and the main thread of run() is scheduled    *)
(* and time passes.  Another owner need not call.                          *)
RunFairSpec ==
  /\ RunSpec
  /\ WF_allVars(Runs(RunStartStep)) /\ WF_allVars(Runs(RunStopStep))
  /\ WF_allVars(Runs(Alone(SpinBegins)))
  /\ WF_allVars(Runs(Alone(SpinReturns)))
  /\ \A t \in ExecThread : WF_allVars(Runs(Alone(ExecStep(t))))
  /\ WF_allVars(Runs(RunMainStep)) /\ WF_allVars(UNCHANGED vars /\ TimeIsUp)
  /\ WF_allVars(main # "none" /\ Runs(RunCallsStart \/ RunCallsStop))
  /\ WF_allVars(Runs(RunShutsDown))

---------------------------------------------------------------------------
(* The receive callback refers to locals of run(): no executor thread is   *)
(* inside it before they are made or after they are destroyed, except      *)
(* while an exception of send() unwinds run(): then the locals go first,   *)
(* with the executor still at work, and the destructor stops it later.     *)
LocalsOutliveCallbacks ==
  main \notin {"none", "killed"} /\ InCallback # {} =>
    LocalsLive \/ unwinding = "send"

(* A process that has come to its end, by the return of run() or by an     *)
(* exception, has left no executor and no node to the clean-up that        *)
(* follows main, where rclcpp itself is destroyed.                         *)
ExitsClean ==
  main = "exited" => ~ running /\ built = 0 /\ spin = "none" /\ InCallback = {}

(* In the loop, and with the executor spinning, run() ends after a signal  *)
(* or at the end of its time - also when rclcpp took an earlier signal.    *)
RunEnds ==
  main = "loop" /\ spin # "born" ~> main \in {"exited", "killed"}
=============================================================================
