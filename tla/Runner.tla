------------------------------- MODULE Runner -------------------------------
(***************************************************************************)
(* The main thread of run() (bench_run.cpp) from the construction of the   *)
(* transport to the end of the process: signal handlers, the send loop,    *)
(* and both ways out, the return and the exception that main catches.      *)
(* UdpRun and RosRun join it with a transport.  What is sent and when is   *)
(* the matter of Bench.                                                    *)
(*                                                                         *)
(* Locals are destroyed in the reverse order of their construction, so the *)
(* recorder and the two atomics, which the receive callback refers to, go  *)
(* before the transport, whose destructor calls stop().                    *)
(***************************************************************************)

VARIABLES
  main,       \* where run() is; "none" when the transport has another owner
  handler,    \* who handles SIGINT and SIGTERM
  g_stop,
  time_up,    \* now >= t_end
  unwinding   \* what threw: "nothing", "init", "start" or "send"

mainVars == << main, handler, g_stop, time_up, unwinding >>

\* The transport is built; any other owner of one is considered as well.
MainInit ==
  /\ main \in {"none", "built"}
  /\ handler = "default"
  /\ g_stop = FALSE
  /\ time_up = FALSE
  /\ unwinding = "nothing"

Goes(from, to) ==
  /\ main = from /\ main' = to
  /\ UNCHANGED << handler, g_stop, time_up, unwinding >>

\* The same, unless the transport has another owner.
Follows(from, to) ==
  IF main = "none" THEN UNCHANGED mainVars ELSE Goes(from, to)

Throws(from, what) ==
  /\ main = from /\ main' = "unwind"
  /\ unwinding' = what
  /\ UNCHANGED << handler, g_stop, time_up >>

\* A call that throws leaves another owner of the transport alone.
FollowsThrow(from, what) ==
  IF main = "none" THEN UNCHANGED mainVars ELSE Throws(from, what)

\* rclcpp::init installs handlers of its own.
InitRcl ==
  /\ main = "built" /\ main' = "init"
  /\ handler' = "rclcpp"
  /\ UNCHANGED << g_stop, time_up, unwinding >>

InitRclFails == Throws("built", "init")

\* The recorder, the atomics, set_recv_callback.
MakeLocals(from) == Goes(from, "ready")

InstallHandlers ==
  /\ main = "started" /\ main' = "loop"
  /\ handler' = "run"
  /\ UNCHANGED << g_stop, time_up, unwinding >>

\* Variant: the end of the run is not looked at.
LeaveLoopOnSignal == g_stop /\ Goes("loop", "final")

LeaveLoop == (g_stop \/ time_up) /\ Goes("loop", "final")

\* Sleep or not, then fill the packet, record it and send it.
CallSend == ~ g_stop /\ ~ time_up /\ Goes("loop", "sending")

SendReturns == Goes("sending", "loop")

SendThrows == Throws("sending", "send")

\* Variant: the destructor is left to stop the transport.
PrintFinalAndReturn == Goes("final", "return")

PrintFinal == Goes("final", "stop")

\* After stop(): rclcpp::shutdown puts back the handlers it found.
ShutdownRcl ==
  /\ main = "stopped" /\ main' = "return"
  /\ handler' = "default"
  /\ UNCHANGED << g_stop, time_up, unwinding >>

\* stats and the atomics end; then it is the turn of tx.
DestroyLocals == Goes("return", "destroy") \/ Goes("unwind", "destroy")

---------------------------------------------------------------------------
(* Around the main thread.                                                 *)

InRun == main \notin {"none", "exited", "killed"}

TimeIsUp ==
  /\ main \in {"loop", "sending"} /\ ~ time_up
  /\ time_up' = TRUE
  /\ UNCHANGED << main, handler, g_stop, unwinding >>

\* The default action of the signal.
KilledBySignal ==
  /\ InRun /\ handler = "default"
  /\ main' = "killed"
  /\ UNCHANGED << handler, g_stop, time_up, unwinding >>

OnSignal ==
  /\ InRun /\ handler = "run"
  /\ g_stop' = TRUE
  /\ UNCHANGED << main, handler, time_up, unwinding >>

MainStep ==
  \/ InstallHandlers \/ LeaveLoop \/ CallSend \/ SendReturns
  \/ PrintFinal \/ DestroyLocals

---------------------------------------------------------------------------
MainTypeOK ==
  /\ main \in { "none", "built", "init", "ready", "starting", "started",
                "loop", "sending", "final", "stop", "stopping", "stopped",
                "return", "unwind", "destroy", "destroying", "exited",
                "killed" }
  /\ handler \in {"default", "rclcpp", "run"}
  /\ g_stop \in BOOLEAN /\ time_up \in BOOLEAN
  /\ unwinding \in {"nothing", "init", "start", "send"}

\* stats and the atomics exist.
LocalsLive ==
  main \in { "ready", "starting", "started", "loop", "sending", "final",
             "stop", "stopping", "stopped", "return", "unwind" }
=============================================================================
