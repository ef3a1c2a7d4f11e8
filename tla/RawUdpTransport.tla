--------------------------- MODULE RawUdpTransport ---------------------------
(***************************************************************************)
(* class RawUdpTransport (raw_udp.cpp): a socket and a thread that reads   *)
(* it.  The owner - run(), or the destructor - calls start() and stop();   *)
(* the receive thread shares running_ (atomic) and sock_fd_ (a plain int)  *)
(* with it.  Every statement of the owner that the receive thread could    *)
(* observe is a step of its own.                                           *)
(*                                                                         *)
(* The kernel is external: descriptors are the lowest free numbers;        *)
(* close() does not wake a thread blocked in recvfrom() on the descriptor, *)
(* shutdown() does.  send() reads sock_fd_ on the owner's own thread and   *)
(* changes nothing here.  A datagram is reduced to whether recvfrom()      *)
(* returns exactly sizeof(Payload); an interrupted call looks like one     *)
(* that did not.                                                           *)
(***************************************************************************)
EXTENDS Integers

CONSTANTS
  MaxStarts     \* bound: calls of start()

ASSUME RawUdpAssumption ==
  MaxStarts \in Nat

Descriptor == 0 .. MaxStarts

NoFd == -1

VARIABLES
  at,          \* the owner: "out" of the transport, or where inside it
  sock_fd, running,
  thread,      \* recv_thread_; "none" when it is not joinable
  thread_fd,   \* the descriptor that it passed to recvfrom
  open, shut,  \* kernel: open descriptors, those that were shut down
  starts       \* bound: calls of start() so far

kernelVars == << open, shut >>
threadVars == << thread, thread_fd >>
vars == << at, sock_fd, running, threadVars, kernelVars, starts >>

Init ==
  /\ at = "out"
  /\ sock_fd = NoFd
  /\ running = FALSE
  /\ thread = "none"
  /\ thread_fd = NoFd
  /\ open = {}
  /\ shut = {}
  /\ starts = 0

OwnerGoes(from, to) == at = from /\ at' = to

---------------------------------------------------------------------------
(* start().  It throws, that is returns to "out", when a call fails.  It   *)
(* is called while the transport is not running, as run() does: a second   *)
(* start() would assign to a std::thread that is joinable.                 *)
CallStart ==
  /\ starts < MaxStarts
  /\ ~ running
  /\ starts' = starts + 1
  /\ OwnerGoes("out", "socket")
  /\ UNCHANGED << sock_fd, running, threadVars, kernelVars >>

OpenSocket ==
  /\ OwnerGoes("socket", "bind")
  /\ sock_fd' = CHOOSE fd \in Descriptor \ open :
                  \A other \in Descriptor \ open : fd <= other
  /\ open' = open \cup {sock_fd'}
  /\ UNCHANGED << running, threadVars, shut, starts >>

SocketFails ==
  /\ OwnerGoes("socket", "out")
  /\ sock_fd' = NoFd
  /\ UNCHANGED << running, threadVars, kernelVars, starts >>

\* SO_REUSEADDR lets a second socket of the same port be bound as well.
Bind ==
  /\ OwnerGoes("bind", "run")
  /\ UNCHANGED << sock_fd, running, threadVars, kernelVars, starts >>

\* Variant: the socket is left open when bind() fails.
BindFailsLeaking ==
  /\ OwnerGoes("bind", "out")
  /\ sock_fd' = NoFd
  /\ UNCHANGED << running, threadVars, kernelVars, starts >>

BindFails ==
  /\ OwnerGoes("bind", "out")
  /\ open' = open \ {sock_fd}
  /\ sock_fd' = NoFd
  /\ UNCHANGED << running, threadVars, shut, starts >>

SetRunning ==
  /\ OwnerGoes("run", "spawn")
  /\ running' = TRUE
  /\ UNCHANGED << sock_fd, threadVars, kernelVars, starts >>

Spawn ==
  /\ OwnerGoes("spawn", "out")
  /\ thread' = "test"
  /\ UNCHANGED << sock_fd, running, thread_fd, kernelVars, starts >>

SpawnFails ==
  /\ OwnerGoes("spawn", "out")
  /\ UNCHANGED << sock_fd, running, threadVars, kernelVars, starts >>

---------------------------------------------------------------------------
(* stop().  It returns at once unless running_ was set.                    *)
CallStop ==
  /\ running
  /\ OwnerGoes("out", IF sock_fd # NoFd THEN "shutdown" ELSE "join")
  /\ running' = FALSE
  /\ UNCHANGED << sock_fd, threadVars, kernelVars, starts >>

\* Variant: the socket is closed without being shut down.
ShutdownForgotten ==
  /\ OwnerGoes("shutdown", "close")
  /\ UNCHANGED << sock_fd, running, threadVars, kernelVars, starts >>

\* A thread blocked on the socket comes back with 0 bytes.
Shutdown ==
  /\ OwnerGoes("shutdown", "close")
  /\ shut' = shut \cup {sock_fd}
  /\ thread' = IF thread = "blocked" /\ thread_fd = sock_fd THEN "short"
                                                             ELSE thread
  /\ UNCHANGED << sock_fd, running, thread_fd, open, starts >>

Close ==
  /\ OwnerGoes("close", "clear")
  /\ open' = open \ {sock_fd}
  /\ shut' = shut \ {sock_fd}
  /\ UNCHANGED << sock_fd, running, threadVars, starts >>

ClearFd ==
  /\ OwnerGoes("clear", "join")
  /\ sock_fd' = NoFd
  /\ UNCHANGED << running, threadVars, kernelVars, starts >>

\* Variant: the thread is detached.
Detach ==
  /\ OwnerGoes("join", "out")
  /\ thread' = "none"
  /\ UNCHANGED << sock_fd, running, thread_fd, kernelVars, starts >>

Join ==
  /\ thread \in {"none", "ended"}
  /\ OwnerGoes("join", "out")
  /\ thread' = "none"
  /\ UNCHANGED << sock_fd, running, thread_fd, kernelVars, starts >>

---------------------------------------------------------------------------
(* recv_loop_().                                                           *)
ThreadGoes(from, to) ==
  /\ thread = from
  /\ thread' = to
  /\ UNCHANGED << at, sock_fd, running, kernelVars, starts >>

TestRunning ==
  /\ ThreadGoes("test", IF running THEN "call" ELSE "ended")
  /\ UNCHANGED thread_fd

ReadFd ==
  /\ ThreadGoes("call", "enter")
  /\ thread_fd' = sock_fd

\* recvfrom() fails on a closed descriptor and returns 0 on a shut one.
EnterKernel ==
  /\ ThreadGoes("enter", IF thread_fd \in open \ shut THEN "blocked" ELSE "short")
  /\ UNCHANGED thread_fd

\* A datagram of sizeof(Payload) bytes; one queued before shutdown() counts.
ReceivePayload ==
  /\ \/ ThreadGoes("blocked", "callback")
     \/ thread_fd \in open /\ ThreadGoes("enter", "callback")
  /\ UNCHANGED thread_fd

ReceiveOther == ThreadGoes("blocked", "short") /\ UNCHANGED thread_fd

\* Variant: anything but a payload ends the loop.
GiveUpOnShort == ThreadGoes("short", "ended") /\ UNCHANGED thread_fd

\* if (!running_) break; continue;
SkipShort ==
  /\ ThreadGoes("short", IF running THEN "test" ELSE "ended")
  /\ UNCHANGED thread_fd

CallbackReturns == ThreadGoes("callback", "test") /\ UNCHANGED thread_fd

---------------------------------------------------------------------------
StartStep ==
  \/ OpenSocket \/ SocketFails \/ Bind \/ BindFails \/ SetRunning
  \/ Spawn \/ SpawnFails

StopStep == Shutdown \/ Close \/ ClearFd \/ Join

ThreadStep ==
  TestRunning \/ ReadFd \/ EnterKernel \/ SkipShort \/ CallbackReturns

Next ==
  \/ CallStart \/ StartStep \/ CallStop \/ StopStep
  \/ ThreadStep \/ ReceivePayload \/ ReceiveOther

Spec == Init /\ [][Next]_vars

---------------------------------------------------------------------------
TypeOK ==
  /\ at \in { "out", "socket", "bind", "run", "spawn", "shutdown", "close",
              "clear", "join" }
  /\ sock_fd \in Descriptor \cup {NoFd}
  /\ running \in BOOLEAN
  /\ thread \in { "none", "test", "call", "enter", "blocked", "short",
                  "callback", "ended" }
  /\ thread_fd \in Descriptor \cup {NoFd}
  /\ open \subseteq Descriptor
  /\ shut \subseteq open
  /\ starts \in 0 .. MaxStarts

(* Whenever the owner is outside and the transport is not running - never  *)
(* started, start() failed, or stop() returned - it holds nothing: no      *)
(* descriptor, no thread.                                                  *)
NothingLeftBehind ==
  at = "out" /\ ~ running =>
    /\ sock_fd = NoFd
    /\ open = {}
    /\ thread = "none"

(* Neither a malformed datagram nor an interrupted call ends the receive   *)
(* thread: it ends only after stop() has cleared running_.                 *)
ListensUntilStop == thread = "ended" => ~ running

\* Callbacks run on the only thread there is.
ReceiveThread == "recv_thread_"

Phase == IF at \in {"shutdown", "close", "clear", "join"} THEN "stopping"
         ELSE IF running THEN "up" ELSE "down"

Contract == INSTANCE TransportContract
              WITH Thread <- {ReceiveThread}, phase <- Phase,
                   inside <- IF thread = "callback" THEN {ReceiveThread} ELSE {}

(* Seen from run(), it is a transport.                                     *)
ImplementsContract == Contract!Spec
=============================================================================
