---------------------------- MODULE Ros2Transport ----------------------------
(***************************************************************************)
(* class Ros2BeTransport (ros2_be.cpp) and class Ros2MteTransport          *)
(* (ros2_mte.cpp), which differ in the executor: one thread that spins, or *)
(* num_threads of them.  ZenohP2pTransport, ZenohRouterTransport and       *)
(* DdsUnicastTransport own a Ros2BeTransport and pass every call on to it. *)
(*                                                                         *)
(* The executor is rclcpp's and external: spin() sets its flag spinning,   *)
(* its threads work while the flag is set and the context is valid, one of *)
(* them at a time waits, cancel() clears the flag and triggers a guard     *)
(* condition that ends a wait at once or the next one.  spin() does not    *)
(* know of a cancel() that came before it.                                 *)
(***************************************************************************)
EXTENDS Integers, FiniteSets

CONSTANTS
  ExecThread,   \* the threads of the executor
  MaxStarts     \* bound: calls of start()

ASSUME Ros2Assumption ==
  /\ IsFiniteSet(ExecThread) /\ ExecThread # {}
  /\ MaxStarts \in Nat

VARIABLES
  at,         \* the owner: "out" of the transport, or where inside it
  running,
  built,      \* how many of node_, pub_, sub_ and exec_ exist, in this order
  spin,       \* spin_thread_; "none" when it is not joinable
  starts,     \* bound: calls of start() so far
  spinning, kick, exec,  \* executor: flag, guard condition, threads
  ok                     \* rclcpp::ok(): the context is valid

execVars == << spinning, kick, exec >>
ownVars  == << running, built, spin, starts >>
vars == << at, ownVars, execVars, ok >>

Everything == 4

Init ==
  /\ at = "out"
  /\ running = FALSE
  /\ built = 0
  /\ spin = "none"
  /\ starts = 0
  /\ spinning = FALSE
  /\ kick = FALSE
  /\ exec = [t \in ExecThread |-> "none"]
  /\ ok = TRUE

OwnerGoes(from, to) == at = from /\ at' = to

---------------------------------------------------------------------------
(* start()                                                                 *)
CallStart ==
  /\ starts < MaxStarts
  /\ starts' = starts + 1
  /\ IF running
     THEN UNCHANGED << at, running >>
     ELSE OwnerGoes("out", "build") /\ running' = TRUE
  /\ at = "out"
  /\ UNCHANGED << built, spin, execVars, ok >>

\* The node, the publisher, the subscription (ros2_mte: with its Reentrant
\* callback group), the executor.
Build ==
  /\ at = "build" /\ ok
  /\ built < Everything
  /\ built' = built + 1
  /\ UNCHANGED << at, running, spin, starts, execVars, ok >>

(* A constructor throws, or when all parts exist add_node or the thread's, *)
(* and start() with it; running_ stays set.                                *)
StartFails ==
  /\ OwnerGoes("build", "out")
  /\ UNCHANGED << ownVars, execVars, ok >>

Spawn ==
  /\ built = Everything
  /\ OwnerGoes("build", "out")
  /\ spin' = "born"
  /\ UNCHANGED << running, built, starts, execVars, ok >>

---------------------------------------------------------------------------
(* stop(): returns at once unless running_ was set.                        *)
CallStop ==
  /\ running
  /\ OwnerGoes("out", "cancel")
  /\ running' = FALSE
  /\ UNCHANGED << built, spin, starts, execVars, ok >>

\* Variant: the executor is not told.
CancelForgotten ==
  /\ OwnerGoes("cancel", "join")
  /\ UNCHANGED << ownVars, execVars, ok >>

\* if (exec_) exec_->cancel();
Cancel ==
  /\ OwnerGoes("cancel", "join")
  /\ IF built = Everything
     THEN spinning' = FALSE /\ kick' = TRUE
     ELSE UNCHANGED << spinning, kick >>
  /\ UNCHANGED << ownVars, exec, ok >>

\* Variant: the thread is detached.
DetachSpin ==
  /\ OwnerGoes("join", "reset")
  /\ spin' = "none"
  /\ UNCHANGED << running, built, starts, execVars, ok >>

Join ==
  /\ spin \in {"none", "ended"}
  /\ OwnerGoes("join", "reset")
  /\ spin' = "none"
  /\ UNCHANGED << running, built, starts, execVars, ok >>

\* sub_, pub_, exec_ and node_ are reset; a trigger dies with the executor.
Reset ==
  /\ OwnerGoes("reset", "out")
  /\ built' = 0
  /\ kick' = FALSE
  /\ UNCHANGED << running, spin, starts, spinning, exec, ok >>

---------------------------------------------------------------------------
(* The executor.                                                           *)
SpinBegins ==
  /\ spin = "born"
  /\ spin' = "pool"
  /\ spinning' = TRUE
  /\ exec' = [t \in ExecThread |-> "test"]
  /\ UNCHANGED << at, running, built, starts, kick, ok >>

ExecGoes(t, from, to) ==
  /\ exec[t] = from
  /\ exec' = [exec EXCEPT ![t] = to]
  /\ UNCHANGED << at, ownVars, spinning, ok >>

\* Under the executor's wait mutex: test once more, then wait.
BeginWait(t) ==
  /\ spinning /\ ok
  /\ \A u \in ExecThread : exec[u] # "wait"
  /\ ExecGoes(t, "test", "wait")
  /\ UNCHANGED kick

EndThread(t) ==
  /\ ~ (spinning /\ ok)
  /\ \A u \in ExecThread : exec[u] # "wait"
  /\ ExecGoes(t, "test", "ended")
  /\ UNCHANGED kick

WaitEnds(t) == kick /\ ExecGoes(t, "wait", "test") /\ kick' = FALSE

\* A message: the subscription's callback stamps it and calls cb_.
Receive(t) == ExecGoes(t, "wait", "callback") /\ UNCHANGED kick

CallbackReturns(t) == ExecGoes(t, "callback", "test") /\ UNCHANGED kick

SpinReturns ==
  /\ spin = "pool"
  /\ \A t \in ExecThread : exec[t] = "ended"
  /\ spin' = "ended"
  /\ spinning' = FALSE
  /\ exec' = [t \in ExecThread |-> "none"]
  /\ UNCHANGED << at, running, built, starts, kick, ok >>

(* rclcpp's own signal handler, installed by rclcpp::init and replaced by  *)
(* run() only after start(), shuts the context down and ends waits.        *)
ContextShutsDown ==
  /\ ok
  /\ ok' = FALSE
  /\ kick' = TRUE
  /\ UNCHANGED << at, ownVars, spinning, exec >>

---------------------------------------------------------------------------
StartStep == Build \/ StartFails \/ Spawn

StopStep == Cancel \/ Join \/ Reset

ExecStep(t) ==
  BeginWait(t) \/ EndThread(t) \/ WaitEnds(t) \/ CallbackReturns(t)

Next ==
  \/ CallStart \/ StartStep \/ CallStop \/ StopStep
  \/ SpinBegins \/ SpinReturns \/ ContextShutsDown
  \/ \E t \in ExecThread : ExecStep(t) \/ Receive(t)

Spec == Init /\ [][Next]_vars

(* Every thread that can run does, and callbacks return.  Messages need    *)
(* not arrive, the owner need not call, nobody need send a signal.         *)
FairSpec ==
  /\ Spec
  /\ WF_vars(StartStep) /\ WF_vars(StopStep)
  /\ WF_vars(SpinBegins) /\ WF_vars(SpinReturns)
  /\ \A t \in ExecThread : WF_vars(ExecStep(t))

---------------------------------------------------------------------------
TypeOK ==
  /\ at \in {"out", "build", "cancel", "join", "reset"}
  /\ running \in BOOLEAN
  /\ built \in 0 .. Everything
  /\ spin \in {"none", "born", "pool", "ended"}
  /\ starts \in 0 .. MaxStarts
  /\ spinning \in BOOLEAN
  /\ kick \in BOOLEAN
  /\ exec \in [ExecThread -> {"none", "test", "wait", "callback", "ended"}]
  /\ ok \in BOOLEAN

InCallback == {t \in ExecThread : exec[t] = "callback"}

(* The callback uses the subscription's message and cb_: nothing that the  *)
(* executor works on is destroyed while one of its threads is at work.     *)
NothingDestroyedInUse ==
  (\E t \in ExecThread : exec[t] \notin {"none", "ended"}) =>
    built = Everything

(* After stop(), also after one that follows a failed start(), nothing of  *)
(* the transport is left and a new start() begins from scratch.            *)
StopLeavesNothing ==
  at = "out" /\ ~ running =>
    built = 0 /\ spin = "none" /\ ~ spinning /\ InCallback = {}

(* stop() returns if spin() had begun when it was called.                  *)
StopReturnsOnceSpinning ==
  at = "cancel" /\ spin = "pool" ~> at = "out"

(* transport.hpp on stop(): "Tear down. Must be safe to call after start() *)
(* failed or never ran."  It does not return when cancel() comes before    *)
(* the new thread has entered spin().                                      *)
StopReturns == at = "cancel" ~> at = "out"

Phase == IF at \in {"cancel", "join", "reset"} THEN "stopping"
         ELSE IF running THEN "up" ELSE "down"

Contract == INSTANCE TransportContract
              WITH Thread <- ExecThread, phase <- Phase, inside <- InCallback

(* Seen from run(), it is a transport.                                     *)
ImplementsContract == Contract!Spec
=============================================================================
