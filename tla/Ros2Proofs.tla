----------------------------- MODULE Ros2Proofs -----------------------------
(***************************************************************************)
(* Ros2Transport for any number of executor threads and of lives of the    *)
(* object: nothing is destroyed in use, stop() leaves nothing, and run()   *)
(* sees a transport - whether or not stop() returns.  Then RosRun: every   *)
(* behaviour of run() with this transport is one of the transport, the     *)
(* locals of run() outlive the callbacks, unless send() has thrown, and    *)
(* the process exits clean.                                                *)
(*                                                                         *)
(* Ros2Inv ties what the executor does to what the owner has built: its    *)
(* threads exist only inside spin(), spin() runs only on a joinable        *)
(* thread, and such a thread exists only between the end of start() and    *)
(* the join() of stop(), while all four parts exist.  RosRunInv says where *)
(* the object is at every place of run().                                  *)
(***************************************************************************)
EXTENDS RosRun, TLAPS

\* The inductive invariant.
Ros2Inv ==
  /\ TypeOK
  /\ at = "build" => running /\ spin = "none"
  /\ at \in {"cancel", "join", "reset"} => ~ running
  /\ at = "reset" => spin = "none"
  /\ spin # "none" => built = Everything
  /\ spin # "pool" => ~ spinning /\ \A t \in ExecThread : exec[t] = "none"
  /\ at = "out" /\ ~ running => built = 0 /\ spin = "none"

(* A new object holds nothing.                                             *)
LEMMA Ros2Init == Init => Ros2Inv
<1>1. Init => starts \in 0 .. MaxStarts /\ built \in 0 .. Everything
  BY Ros2Assumption DEF Init, Everything
<1> QED BY <1>1 DEF Init, Ros2Inv, TypeOK

(* Every step of the owner and of the executor keeps it.                   *)
LEMMA Ros2Step == Ros2Inv /\ [Next]_vars => Ros2Inv'
<1> SUFFICES ASSUME Ros2Inv, [Next]_vars PROVE Ros2Inv'
  OBVIOUS
<1> USE DEF Ros2Inv, TypeOK, OwnerGoes, execVars, ownVars
<1>1. CASE CallStart
  <2>1. starts' \in 0 .. MaxStarts
    BY <1>1, Ros2Assumption DEF CallStart
  <2> QED BY <1>1, <2>1 DEF CallStart
<1>2. CASE StartStep
  <2>1. built' \in 0 .. Everything
    BY <1>2 DEF StartStep, Build, StartFails, Spawn, Everything
  <2>2. CASE Build
    BY <2>1, <2>2 DEF Build
  <2>3. CASE StartFails
    BY <2>1, <2>3 DEF StartFails
  <2>4. CASE Spawn
    BY <2>1, <2>4 DEF Spawn
  <2> QED BY <1>2, <2>2, <2>3, <2>4 DEF StartStep
<1>3. CASE CallStop
  BY <1>3 DEF CallStop
<1>4. CASE StopStep
  <2>1. built' \in 0 .. Everything
    BY <1>4 DEF StopStep, Cancel, Join, Reset, Everything
  <2>2. CASE Cancel
    BY <2>1, <2>2 DEF Cancel
  <2>3. CASE Join
    BY <2>1, <2>3 DEF Join
  <2>4. CASE Reset
    BY <2>1, <2>4 DEF Reset
  <2> QED BY <1>4, <2>2, <2>3, <2>4 DEF StopStep
<1>5. CASE SpinBegins
  BY <1>5 DEF SpinBegins
<1>6. CASE SpinReturns
  BY <1>6 DEF SpinReturns
<1>7. CASE ContextShutsDown
  BY <1>7 DEF ContextShutsDown
<1>8. ASSUME NEW t \in ExecThread, ExecStep(t) \/ Receive(t)
      PROVE  Ros2Inv'
  <2>1. /\ exec[t] # "none" /\ UNCHANGED << at, ownVars, spinning, ok >>
        /\ exec' \in [ExecThread ->
                        {"none", "test", "wait", "callback", "ended"}]
        /\ kick' \in BOOLEAN
    BY <1>8
    DEF ExecStep, BeginWait, EndThread, WaitEnds, Receive, CallbackReturns,
        ExecGoes
  <2>2. spin = "pool"
    BY <2>1
  <2> QED BY <2>1, <2>2
<1>9. CASE UNCHANGED vars
  BY <1>9 DEF vars
<1> QED BY <1>1, <1>2, <1>3, <1>4, <1>5, <1>6, <1>7, <1>8, <1>9 DEF Next

(* The types of the transport's and the executor's state.                  *)
THEOREM Ros2Types == Spec => []TypeOK
<1>1. Ros2Inv => TypeOK
  BY DEF Ros2Inv
<1> QED BY <1>1, Ros2Init, Ros2Step, PTL DEF Spec

(* While a thread of the executor is at work all parts of the transport    *)
(* exist.                                                                  *)
THEOREM Ros2DestroysNothingInUse == Spec => []NothingDestroyedInUse
<1>1. Ros2Inv => NothingDestroyedInUse
  BY DEF Ros2Inv, NothingDestroyedInUse
<1> QED BY <1>1, Ros2Init, Ros2Step, PTL DEF Spec

(* After stop() no part of the transport is left, and no thread.           *)
THEOREM Ros2Releases == Spec => []StopLeavesNothing
<1>1. Ros2Inv => StopLeavesNothing
  BY DEF Ros2Inv, StopLeavesNothing, InCallback
<1> QED BY <1>1, Ros2Init, Ros2Step, PTL DEF Spec

(* Callbacks happen between start() and the end of stop() only, however    *)
(* many threads the executor has.                                          *)
THEOREM Ros2IsTransport == Spec => ImplementsContract
<1>1. Init => Contract!Init
  BY DEF Init, Contract!Init, Phase, InCallback
<1>2. Ros2Inv /\ [Next]_vars => [Contract!Next]_(Contract!contractVars)
  <2> SUFFICES ASSUME Ros2Inv, [Next]_vars
               PROVE  [Contract!Next]_(Contract!contractVars)
    OBVIOUS
  <2> USE DEF Phase, InCallback, OwnerGoes, execVars, ownVars,
              Contract!contractVars
  <2>1. CASE CallStart
    <3>1. CASE running
      BY <2>1, <3>1 DEF CallStart
    <3>2. CASE ~ running
      <4>1. Contract!Start
        BY <2>1, <3>2 DEF CallStart, Contract!Start
      <4> QED BY <4>1 DEF Contract!Next
    <3> QED BY <3>1, <3>2
  <2>2. CASE StartStep
    BY <2>2 DEF Ros2Inv, StartStep, Build, StartFails, Spawn
  <2>3. CASE CallStop
    <3>1. Contract!StopBegins
      BY <2>3 DEF CallStop, Contract!StopBegins
    <3> QED BY <3>1 DEF Contract!Next
  <2>4. CASE Cancel \/ Join
    BY <2>4 DEF Cancel, Join
  <2>5. CASE Reset
    <3>1. Contract!StopReturns
      BY <2>5 DEF Reset, Ros2Inv, Contract!StopReturns
    <3> QED BY <3>1 DEF Contract!Next
  <2>6. CASE SpinBegins
    <3>1. InCallback' = InCallback
      BY <2>6 DEF SpinBegins, Ros2Inv
    <3> QED BY <2>6, <3>1 DEF SpinBegins
  <2>7. CASE SpinReturns
    <3>1. InCallback' = InCallback
      BY <2>7 DEF SpinReturns
    <3> QED BY <2>7, <3>1 DEF SpinReturns
  <2>8. CASE ContextShutsDown
    BY <2>8 DEF ContextShutsDown
  <2>9. ASSUME NEW t \in ExecThread, BeginWait(t) \/ EndThread(t) \/ WaitEnds(t)
        PROVE  [Contract!Next]_(Contract!contractVars)
    <3>1. InCallback' = InCallback
      BY <2>9 DEF Ros2Inv, TypeOK, BeginWait, EndThread, WaitEnds, ExecGoes
    <3> QED
      BY <2>9, <3>1 DEF BeginWait, EndThread, WaitEnds, ExecGoes
  <2>10. ASSUME NEW t \in ExecThread, Receive(t)
         PROVE  [Contract!Next]_(Contract!contractVars)
    <3>1. t \in ExecThread \ InCallback /\ InCallback' = InCallback \cup {t}
      BY <2>10 DEF Ros2Inv, TypeOK, Receive, ExecGoes
    <3>2. Phase # "down" /\ Phase' = Phase
      BY <2>10 DEF Ros2Inv, TypeOK, Receive, ExecGoes
    <3>3. Contract!EnterCallback
      BY <3>1, <3>2 DEF Contract!EnterCallback
    <3> QED BY <3>3 DEF Contract!Next
  <2>11. ASSUME NEW t \in ExecThread, CallbackReturns(t)
         PROVE  [Contract!Next]_(Contract!contractVars)
    <3>1. t \in InCallback /\ InCallback' = InCallback \ {t}
      BY <2>11 DEF Ros2Inv, TypeOK, CallbackReturns, ExecGoes
    <3>2. Phase' = Phase
      BY <2>11 DEF CallbackReturns, ExecGoes
    <3>3. Contract!LeaveCallback
      BY <3>1, <3>2 DEF Contract!LeaveCallback
    <3> QED BY <3>3 DEF Contract!Next
  <2>12. CASE UNCHANGED vars
    BY <2>12 DEF vars
  <2> QED
    BY <2>1, <2>2, <2>3, <2>4, <2>5, <2>6, <2>7, <2>8, <2>9, <2>10, <2>11,
       <2>12
    DEF Next, StopStep, ExecStep
<1> QED
  BY <1>1, <1>2, Ros2Init, Ros2Step, PTL
  DEF Spec, ImplementsContract, Contract!Spec

---------------------------------------------------------------------------
(* run() with the transport.                                               *)

\* Where the transport is at each place of run().
RosRunInv ==
  /\ Ros2Inv
  /\ MainTypeOK
  /\ main \in {"built", "init", "ready"} => at = "out" /\ ~ running
  /\ main = "starting" => at = "build"
  /\ main \in {"started", "loop", "sending", "final", "stop"} =>
       at = "out" /\ running
  /\ main \in {"stopping", "destroying"} => at \in {"cancel", "join", "reset"}
  /\ main \in {"stopped", "return", "exited"} => at = "out" /\ ~ running
  /\ main \in {"unwind", "destroy"} => at = "out"
  /\ main \in {"unwind", "destroy", "destroying"} /\ unwinding # "send" =>
       spin = "none"

(* Whatever the main thread does around it, the transport makes a step of  *)
(* its own or none.                                                        *)
LEMMA RosRunStepsTransport == [RunNext]_allVars => [Next]_vars
<1> SUFFICES ASSUME RunNext PROVE [Next]_vars
  BY DEF allVars, vars
<1>1. ASSUME NEW t \in ExecThread, Alone(ExecStep(t)) \/ Alone(Receive(t))
      PROVE  Next
  BY <1>1 DEF Alone, Next
<1> QED
  BY <1>1
  DEF RunNext, RunCallsStart, RunStartStep, RunCallsStop, RunStopStep,
      RunShutsDown, RunMainStep, SignalToRcl, AnotherShutsDown, Alone, Next,
      StartStep, StopStep

(* run() with the transport is the transport, called by somebody.          *)
THEOREM RosRunIsTransport == RunSpec => Spec
<1> QED BY RosRunStepsTransport, PTL DEF RunSpec, RunInit, Spec

(* It begins with a new object.                                            *)
LEMMA RosRunInit == RunInit => RosRunInv
<1> QED BY Ros2Init DEF RunInit, MainInit, RosRunInv, MainTypeOK, Init

(* Every step of run(), of the transport, of its executor and of the       *)
(* signals keeps it.                                                       *)
LEMMA RosRunStep == RosRunInv /\ [RunNext]_allVars => RosRunInv'
<1> SUFFICES ASSUME RosRunInv, [RunNext]_allVars PROVE RosRunInv'
  OBVIOUS
<1>1. Ros2Inv /\ Ros2Inv'
  BY RosRunStepsTransport, Ros2Step DEF RosRunInv
<1> USE <1>1 DEF RosRunInv, MainTypeOK
<1>2. CASE RunCallsStart
  BY <1>2 DEF RunCallsStart, CallStart, OwnerGoes, Follows, Goes, mainVars
<1>3. CASE RunStartStep
  BY <1>3 DEF RunStartStep, Alone, Build, StartFails, Spawn, FollowsThrow,
              Throws, Follows, Goes, OwnerGoes, mainVars, ownVars, Ros2Inv
<1>4. CASE RunCallsStop
  BY <1>4 DEF RunCallsStop, CallStop, OwnerGoes, Follows, Goes, mainVars,
              vars, ownVars, Ros2Inv
<1>5. CASE RunStopStep
  BY <1>5 DEF RunStopStep, Alone, Cancel, Join, Reset, OwnerGoes, Follows,
              Goes, mainVars, ownVars, Ros2Inv
<1>6. CASE RunShutsDown
  BY <1>6 DEF RunShutsDown, ShutdownRcl, ContextShutsDown, vars, ownVars
<1>7. CASE RunMainStep
  BY <1>7 DEF RunMainStep, InitRcl, InitRclFails, MakeLocals, MainStep,
              InstallHandlers, LeaveLoop, CallSend, SendReturns, SendThrows,
              Throws, PrintFinal, DestroyLocals, Goes, vars, ownVars, Ros2Inv
<1>8. CASE SignalToRcl \/ AnotherShutsDown
  BY <1>8 DEF SignalToRcl, AnotherShutsDown, Alone, ContextShutsDown,
              ownVars, mainVars
<1>9. CASE Alone(SpinBegins) \/ Alone(SpinReturns)
  BY <1>9 DEF Alone, SpinBegins, SpinReturns, mainVars
<1>10. ASSUME NEW t \in ExecThread, Alone(ExecStep(t)) \/ Alone(Receive(t))
       PROVE  RosRunInv'
  BY <1>10 DEF Alone, ExecStep, Receive, BeginWait, EndThread, WaitEnds,
               CallbackReturns, ExecGoes, mainVars, ownVars
<1>11. CASE UNCHANGED vars /\ (TimeIsUp \/ KilledBySignal \/ OnSignal)
  BY ZenonT(30), <1>11
  DEF vars, ownVars, TimeIsUp, KilledBySignal, OnSignal, InRun
<1>12. CASE UNCHANGED allVars
  BY <1>12 DEF allVars, mainVars, vars, ownVars
<1> QED
  BY <1>2, <1>3, <1>4, <1>5, <1>6, <1>7, <1>8, <1>9, <1>10, <1>11, <1>12
  DEF RunNext

(* However run() ends, and wherever a signal or the end of time finds it,  *)
(* no callback runs without its locals, except while an exception of       *)
(* send() unwinds run().                                                   *)
THEOREM RosRunKeepsLocals == RunSpec => []LocalsOutliveCallbacks
<1>1. RosRunInv => LocalsOutliveCallbacks
  BY DEF RosRunInv, MainTypeOK, Ros2Inv, InCallback, LocalsOutliveCallbacks,
         LocalsLive
<1> QED BY <1>1, RosRunInit, RosRunStep, PTL DEF RunSpec

(* A process that exits has left nothing of the transport behind.          *)
THEOREM RosRunExitsClean == RunSpec => []ExitsClean
<1>1. RosRunInv => ExitsClean
  BY DEF RosRunInv, Ros2Inv, InCallback, ExitsClean
<1> QED BY <1>1, RosRunInit, RosRunStep, PTL DEF RunSpec
=============================================================================
