--------------------------- MODULE RawUdpProofs ---------------------------
(***************************************************************************)
(* RawUdpTransport for any number of lives of the object: stop() and a     *)
(* failed start() leave nothing behind, the receive thread listens until   *)
(* it is told to stop, and run() sees a transport.  Then UdpRun: every     *)
(* behaviour of run() with this transport is one of the transport, the     *)
(* locals of run() outlive the callbacks, and the process exits clean.     *)
(*                                                                         *)
(* None of these is inductive alone.  RawUdpInv says what the object holds *)
(* at every place of start() and stop(): the descriptor before shutdown(), *)
(* nothing after close(), and no thread while start() runs.  UdpRunInv     *)
(* says where the object is at every place of run().                       *)
(***************************************************************************)
EXTENDS UdpRun, TLAPS

Starting == {"socket", "bind", "run", "spawn"}
Stopping == {"shutdown", "close", "clear", "join"}

\* The inductive invariant.
RawUdpInv ==
  /\ TypeOK
  /\ running => at \in {"out", "spawn"}
  /\ at = "spawn" => running
  /\ at \in Starting => thread = "none"
  /\ thread = "ended" => ~ running
  /\ at \in {"bind", "run", "spawn", "shutdown", "close"} =>
       sock_fd # NoFd /\ open = {sock_fd}
  /\ at \in {"socket", "clear", "join"} => open = {}
  /\ shut # {} => at = "close"
  /\ at \in {"socket", "join"} => sock_fd = NoFd
  /\ at = "out" /\ running => sock_fd # NoFd /\ open = {sock_fd}
  /\ NothingLeftBehind

(* socket() finds a free descriptor, the lowest one, when none is open.    *)
LEMMA LowestDescriptor ==
  (CHOOSE fd \in Descriptor : \A other \in Descriptor : fd <= other)
    \in Descriptor \ {NoFd}
<1>1. \E fd \in Descriptor : \A other \in Descriptor : fd <= other
  <2>1. 0 \in Descriptor /\ \A other \in Descriptor : 0 <= other
    BY RawUdpAssumption DEF Descriptor
  <2> QED BY <2>1
<1>2. NoFd \notin Descriptor
  BY DEF NoFd, Descriptor
<1> QED BY <1>1, <1>2

(* A new object holds nothing.                                             *)
LEMMA RawUdpInit == Init => RawUdpInv
<1>1. Init => starts \in 0 .. MaxStarts
  BY RawUdpAssumption DEF Init
<1> QED BY <1>1 DEF Init, RawUdpInv, TypeOK, Starting, NothingLeftBehind

(* Every statement of the owner and of the receive thread keeps it.        *)
LEMMA RawUdpStep == RawUdpInv /\ [Next]_vars => RawUdpInv'
<1> SUFFICES ASSUME RawUdpInv, [Next]_vars PROVE RawUdpInv'
  OBVIOUS
<1> USE DEF RawUdpInv, TypeOK, Starting, NothingLeftBehind, OwnerGoes,
            threadVars, kernelVars
<1>1. CASE CallStart
  <2>1. starts' \in 0 .. MaxStarts
    BY <1>1, RawUdpAssumption DEF CallStart
  <2> QED BY <1>1, <2>1 DEF CallStart
<1>2. CASE StartStep
  <2>1. CASE OpenSocket
    <3>1. open = {} /\ shut = {} /\ at = "socket" /\ at' = "bind"
      BY <2>1 DEF OpenSocket
    <3>2. sock_fd' \in Descriptor \ {NoFd} /\ open' = {sock_fd'}
      <4>1. Descriptor \ open = Descriptor
        BY <3>1
      <4>2. sock_fd' = CHOOSE fd \in Descriptor :
                         \A other \in Descriptor : fd <= other
        BY <2>1, <4>1 DEF OpenSocket
      <4> QED BY <2>1, <3>1, <4>2, LowestDescriptor DEF OpenSocket
    <3>3. UNCHANGED << running, thread, thread_fd, shut, starts >>
      BY <2>1 DEF OpenSocket
    <3> QED BY <3>1, <3>2, <3>3
  <2>2. CASE SocketFails
    BY <2>2 DEF SocketFails
  <2>3. CASE Bind
    BY <2>3 DEF Bind
  <2>4. CASE BindFails
    BY <2>4 DEF BindFails
  <2>5. CASE SetRunning
    BY <2>5 DEF SetRunning
  <2>6. CASE Spawn
    BY <2>6 DEF Spawn
  <2>7. CASE SpawnFails
    BY <2>7 DEF SpawnFails
  <2> QED
    BY <1>2, <2>1, <2>2, <2>3, <2>4, <2>5, <2>6, <2>7 DEF StartStep
<1>3. CASE CallStop
  BY <1>3 DEF CallStop
<1>4. CASE StopStep
  <2>1. CASE Shutdown
    BY <2>1 DEF Shutdown
  <2>2. CASE Close
    BY <2>2 DEF Close
  <2>3. CASE ClearFd
    BY <2>3 DEF ClearFd
  <2>4. CASE Join
    BY <2>4 DEF Join
  <2> QED BY <1>4, <2>1, <2>2, <2>3, <2>4 DEF StopStep
<1>5. CASE ThreadStep
  BY <1>5
  DEF ThreadStep, TestRunning, ReadFd, EnterKernel, SkipShort,
      CallbackReturns, ThreadGoes
<1>6. CASE ReceivePayload \/ ReceiveOther
  BY <1>6 DEF ReceivePayload, ReceiveOther, ThreadGoes
<1>7. CASE UNCHANGED vars
  BY <1>7 DEF vars
<1> QED BY <1>1, <1>2, <1>3, <1>4, <1>5, <1>6, <1>7 DEF Next

(* The types of the transport's state.                                     *)
THEOREM RawUdpTypes == Spec => []TypeOK
<1>1. RawUdpInv => TypeOK
  BY DEF RawUdpInv
<1> QED BY <1>1, RawUdpInit, RawUdpStep, PTL DEF Spec

(* Outside start() and stop(), a transport that is not running holds no    *)
(* descriptor and no thread, whichever calls failed before.                *)
THEOREM RawUdpReleases == Spec => []NothingLeftBehind
<1>1. RawUdpInv => NothingLeftBehind
  BY DEF RawUdpInv
<1> QED BY <1>1, RawUdpInit, RawUdpStep, PTL DEF Spec

(* The receive thread has ended only if stop() was called, whatever came   *)
(* out of the socket.                                                      *)
THEOREM RawUdpListens == Spec => []ListensUntilStop
<1>1. RawUdpInv => ListensUntilStop
  BY DEF RawUdpInv, ListensUntilStop
<1> QED BY <1>1, RawUdpInit, RawUdpStep, PTL DEF Spec

(* Callbacks happen between start() and the end of stop() only: the        *)
(* statements of start(), stop() and the receive thread are steps of the   *)
(* transport contract or leave phase and callback as they are.             *)
THEOREM RawUdpIsTransport == Spec => ImplementsContract
<1>1. Init => Contract!Init
  BY DEF Init, Contract!Init, Phase
<1>2. RawUdpInv /\ [Next]_vars => [Contract!Next]_(Contract!contractVars)
  <2> SUFFICES ASSUME RawUdpInv, [Next]_vars
               PROVE  [Contract!Next]_(Contract!contractVars)
    OBVIOUS
  <2> USE DEF Phase, OwnerGoes, threadVars, kernelVars, Contract!contractVars
  <2>1. CASE CallStart
    BY <2>1 DEF CallStart
  <2>2. CASE StartStep /\ ~ SetRunning
    BY <2>2
    DEF RawUdpInv, Starting, StartStep, OpenSocket, SocketFails, Bind,
        BindFails, Spawn, SpawnFails
  <2>3. CASE SetRunning
    <3>1. Contract!Start
      BY <2>3 DEF SetRunning, RawUdpInv, Contract!Start
    <3> QED BY <3>1 DEF Contract!Next
  <2>4. CASE CallStop
    <3>1. Contract!StopBegins
      BY <2>4 DEF CallStop, Contract!StopBegins
    <3> QED BY <3>1 DEF Contract!Next
  <2>5. CASE Shutdown \/ Close \/ ClearFd
    BY <2>5 DEF Shutdown, Close, ClearFd
  <2>6. CASE Join
    <3>1. Contract!StopReturns
      BY <2>6 DEF Join, RawUdpInv, Contract!StopReturns
    <3> QED BY <3>1 DEF Contract!Next
  <2>7. CASE ThreadStep /\ ~ CallbackReturns
    BY <2>7
    DEF ThreadStep, TestRunning, ReadFd, EnterKernel, SkipShort, ThreadGoes
  <2>8. CASE CallbackReturns
    <3>1. Contract!LeaveCallback
      BY <2>8 DEF CallbackReturns, ThreadGoes, Contract!LeaveCallback
    <3> QED BY <3>1 DEF Contract!Next
  <2>9. CASE ReceivePayload
    <3>1. Contract!EnterCallback
      BY <2>9
      DEF ReceivePayload, ThreadGoes, RawUdpInv, TypeOK, Starting,
          NothingLeftBehind, Contract!EnterCallback
    <3> QED BY <3>1 DEF Contract!Next
  <2>10. CASE ReceiveOther
    BY <2>10 DEF ReceiveOther, ThreadGoes
  <2>11. CASE UNCHANGED vars
    BY <2>11 DEF vars
  <2> QED
    BY <2>1, <2>2, <2>3, <2>4, <2>5, <2>6, <2>7, <2>8, <2>9, <2>10, <2>11
    DEF Next, StopStep
<1> QED
  BY <1>1, <1>2, RawUdpInit, RawUdpStep, PTL
  DEF Spec, ImplementsContract, Contract!Spec

---------------------------------------------------------------------------
(* run() with the transport.                                               *)

\* Where the transport is at each place of run().
UdpRunInv ==
  /\ RawUdpInv
  /\ MainTypeOK /\ main # "init"
  /\ main \in {"built", "ready"} => at = "out" /\ ~ running
  /\ main = "starting" => at \in Starting
  /\ main \in {"started", "loop", "sending", "final", "stop"} =>
       at = "out" /\ running
  /\ main \in {"stopping", "destroying"} => at \in Stopping
  /\ main \in {"stopped", "return", "exited"} => at = "out" /\ ~ running
  /\ main \in {"unwind", "destroy"} => at = "out"
  /\ main \in {"unwind", "destroy", "destroying"} => thread = "none"

(* Whatever the main thread does around it, the transport makes a step of  *)
(* its own or none.                                                        *)
LEMMA UdpRunStepsTransport == [RunNext]_allVars => [Next]_vars
<1> SUFFICES ASSUME RunNext PROVE [Next]_vars
  BY DEF allVars, vars
<1> QED
  BY DEF RunNext, RunCallsStart, RunStartStep, RunCallsStop, RunStopStep,
         RunMainStep, Alone, Next, StartStep, StopStep

(* run() with the transport is the transport, called by somebody.          *)
THEOREM UdpRunIsTransport == RunSpec => Spec
<1> QED BY UdpRunStepsTransport, PTL DEF RunSpec, RunInit, Spec

(* It begins with a new object.                                            *)
LEMMA UdpRunInit == RunInit => UdpRunInv
<1> QED
  BY RawUdpInit DEF RunInit, MainInit, UdpRunInv, MainTypeOK, Init, Starting

(* Every step of run(), of the transport and of the signals keeps it.      *)
LEMMA UdpRunStep == UdpRunInv /\ [RunNext]_allVars => UdpRunInv'
<1> SUFFICES ASSUME UdpRunInv, [RunNext]_allVars PROVE UdpRunInv'
  OBVIOUS
<1>1. RawUdpInv /\ RawUdpInv'
  BY UdpRunStepsTransport, RawUdpStep DEF UdpRunInv
<1> USE <1>1 DEF UdpRunInv, MainTypeOK, Starting, Stopping
<1>2. CASE RunCallsStart
  BY <1>2 DEF RunCallsStart, CallStart, OwnerGoes, Follows, Goes, mainVars,
              threadVars
<1>3. CASE RunStartStep
  <2>1. CASE Alone(OpenSocket \/ Bind \/ SetRunning)
    BY <2>1 DEF Alone, OpenSocket, Bind, SetRunning, OwnerGoes, mainVars,
                threadVars
  <2>2. CASE (SocketFails \/ BindFails \/ SpawnFails)
               /\ FollowsThrow("starting", "start")
    BY <2>2 DEF SocketFails, BindFails, SpawnFails, FollowsThrow, Throws,
                OwnerGoes, mainVars, threadVars, RawUdpInv
  <2>3. CASE Spawn /\ Follows("starting", "started")
    BY <2>3 DEF Spawn, Follows, Goes, OwnerGoes, mainVars, RawUdpInv
  <2> QED BY <1>3, <2>1, <2>2, <2>3 DEF RunStartStep
<1>4. CASE RunCallsStop
  BY <1>4 DEF RunCallsStop, CallStop, OwnerGoes, Follows, Goes, mainVars,
              vars, threadVars, RawUdpInv, NothingLeftBehind
<1>5. CASE RunStopStep
  BY <1>5 DEF RunStopStep, Alone, Shutdown, Close, ClearFd, Join, OwnerGoes,
              Follows, Goes, mainVars, threadVars, RawUdpInv
<1>6. CASE RunMainStep
  BY <1>6 DEF RunMainStep, MakeLocals, MainStep, InstallHandlers, LeaveLoop,
              CallSend, SendReturns, PrintFinal, DestroyLocals, Goes, vars,
              threadVars, RawUdpInv, NothingLeftBehind
<1>7. CASE Alone(ThreadStep) \/ Alone(ReceivePayload) \/ Alone(ReceiveOther)
  BY <1>7 DEF Alone, ThreadStep, ReceivePayload, ReceiveOther, TestRunning,
              ReadFd, EnterKernel, SkipShort, CallbackReturns, ThreadGoes,
              mainVars
<1>8. CASE UNCHANGED vars /\ (TimeIsUp \/ KilledBySignal \/ OnSignal)
  BY ZenonT(30), <1>8
  DEF vars, threadVars, TimeIsUp, KilledBySignal, OnSignal, InRun
<1>9. CASE UNCHANGED allVars
  BY <1>9 DEF allVars, mainVars, vars, threadVars
<1> QED BY <1>2, <1>3, <1>4, <1>5, <1>6, <1>7, <1>8, <1>9 DEF RunNext

(* However run() ends, and wherever a signal or the end of time finds it,  *)
(* no callback runs without its locals.                                    *)
THEOREM UdpRunKeepsLocals == RunSpec => []LocalsOutliveCallbacks
<1>1. UdpRunInv => LocalsOutliveCallbacks
  BY DEF UdpRunInv, MainTypeOK, RawUdpInv, NothingLeftBehind,
         LocalsOutliveCallbacks, LocalsLive
<1> QED BY <1>1, UdpRunInit, UdpRunStep, PTL DEF RunSpec

(* A process that exits has left nothing of the transport behind.          *)
THEOREM UdpRunExitsClean == RunSpec => []ExitsClean
<1>1. UdpRunInv => ExitsClean
  BY DEF UdpRunInv, RawUdpInv, NothingLeftBehind, ExitsClean
<1> QED BY <1>1, UdpRunInit, UdpRunStep, PTL DEF RunSpec
=============================================================================
