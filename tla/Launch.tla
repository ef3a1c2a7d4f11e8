------------------------------- MODULE Launch -------------------------------
(***************************************************************************)
(* From the command line to a running transport: bench_a and bench_b are   *)
(* started, each on its machine.  parse_cli reads the words one by one,    *)
(* main pins the role, run() builds the transport, initialises ROS if the  *)
(* transport needs it and goes on to the send loop.  Any of these may      *)
(* throw, and then main prints the message and returns 1.                  *)
(*                                                                         *)
(* A word is a string that is only compared.  Which words std::stoi and    *)
(* std::stod accept, and with what result, is the constant NumberOf; which *)
(* begin with two dashes is the constant Dashed.  Fractions are left out,  *)
(* and so is everything that a setting changes after the transport is      *)
(* built.                                                                  *)
(***************************************************************************)
EXTENDS Integers, Sequences, FiniteSets

CONSTANTS
  Word,          \* strings; those of the code are among them
  Starts,        \* command lines and environments of the two programs
  NumberOf,      \* [numeric words -> Int]
  Dashed,        \* the words that begin with "--"
  PortRange      \* 2^16: ports are uint16_t

Role == {"A", "B"}

Peer(r) == IF r = "A" THEN "B" ELSE "A"

\* RMW_IMPLEMENTATION, the middleware that ROS loads.
Rmw == {"rmw_zenoh_cpp", "rmw_fastrtps_cpp"}

TransportKind ==
  { "ros2_be", "ros2_mte", "raw_udp", "zenoh_p2p", "zenoh_router",
    "dds_unicast" }

PortFlag == {"--local-port", "--peer-port", "--zenoh-port"}

NumberFlag == PortFlag \cup
  { "--rate-hz", "--duration-sec", "--rt-priority", "--rcvbuf", "--sndbuf",
    "--num-threads" }

TextFlag == {"--csv", "--peer-ip", "--router-ip"}

\* The flags that take the word after them.
Valued == {"--role", "--transport"} \cup NumberFlag \cup TextFlag

HelpFlag == {"-h", "--help"}

Known == Valued \cup {"--busy-poll"} \cup HelpFlag

ASSUME LaunchAssumption ==
  /\ Known \cup {"", "bench.csv", "127.0.0.1"} \subseteq Word
  /\ \A s \in Starts : s.args \in [Role -> Seq(Word)]
  /\ \A s \in Starts : s.rmw \in [Role -> Rmw]
  /\ \A w \in DOMAIN NumberOf : NumberOf[w] \in Int
  /\ Known \ {"-h"} \subseteq Dashed
  /\ PortRange \in Nat \ {0}

VARIABLES
  args,         \* argv, from argv[1] on
  rmw,          \* RMW_IMPLEMENTATION in the environment
  i,            \* the word parse_cli is at
  cfg,          \* the CliConfig
  transport_set,
  at,           \* how far the program is
  tx,           \* the transport that run() has built
  session,      \* the middleware configuration file named in the environment
  ros_session   \* the one rclcpp::init found there

vars == << args, rmw, i, cfg, transport_set, at, tx, session, ros_session >>

\* The default member initialisers of CliConfig.
DefaultText == [ f \in TextFlag |->
  CASE f = "--csv" -> "bench.csv" [] f = "--peer-ip" -> "127.0.0.1"
    [] f = "--router-ip" -> "" ]

DefaultNumber == [ f \in NumberFlag |->
  CASE f = "--rate-hz" -> 500 [] f = "--duration-sec" -> 120
    [] f = "--num-threads" -> 2 [] f = "--zenoh-port" -> 7447
    [] OTHER -> 0 ]

NotBuilt == [kind |-> "none"]

NoConfig == [mode |-> "none"]

Unwritten == [mode |-> "unwritten"]

\* bench_b takes role B, from its name in argv[0].
Begin(words, middleware) ==
  /\ args = words
  /\ rmw = middleware
  /\ i = [r \in Role |-> 1]
  /\ cfg = [r \in Role |->
              [ role |-> r, transport |-> "ros2_be", busy_poll |-> FALSE,
                text |-> DefaultText, number |-> DefaultNumber ]]
  /\ transport_set = [r \in Role |-> FALSE]
  /\ at = [r \in Role |-> "parse"]
  /\ tx = [r \in Role |-> NotBuilt]
  /\ session = [r \in Role |-> NoConfig]
  /\ ros_session = [r \in Role |-> NoConfig]

Init == \E s \in Starts : Begin(s.args, s.rmw)

---------------------------------------------------------------------------
(* The loop of parse_cli.                                                  *)

AtWord(r, words) ==
  at[r] = "parse" /\ i[r] <= Len(args[r]) /\ args[r][i[r]] \in words

HasValue(r) == i[r] + 1 <= Len(args[r])

Value(r) == args[r][i[r] + 1]

\* Variant: the value is looked at and not skipped.
TakeValuePeeks(r) == HasValue(r) /\ i' = [i EXCEPT ![r] = @ + 1]

\* need(1): the word after the flag is its value, whatever it looks like.
TakeValue(r) == HasValue(r) /\ i' = [i EXCEPT ![r] = @ + 2]

ReadRole(r) ==
  /\ AtWord(r, {"--role"}) /\ TakeValue(r) /\ Value(r) \in {"a", "b"}
  /\ cfg' = [cfg EXCEPT ![r].role = IF Value(r) = "a" THEN "A" ELSE "B"]
  /\ UNCHANGED << args, rmw, transport_set, at, tx, session, ros_session >>

ReadTransport(r) ==
  /\ AtWord(r, {"--transport"}) /\ TakeValue(r) /\ Value(r) \in TransportKind
  /\ transport_set' = [transport_set EXCEPT ![r] = TRUE]
  /\ cfg' = [cfg EXCEPT ![r].transport = Value(r)]
  /\ UNCHANGED << args, rmw, at, tx, session, ros_session >>

ReadText(r) ==
  /\ AtWord(r, TextFlag) /\ TakeValue(r)
  /\ cfg' = [cfg EXCEPT ![r].text[args[r][i[r]]] = Value(r)]
  /\ UNCHANGED << args, rmw, transport_set, at, tx, session, ros_session >>

\* A port is cut to 16 bits.
Converted(flag, word) ==
  IF flag \in PortFlag THEN NumberOf[word] % PortRange ELSE NumberOf[word]

ReadNumber(r) ==
  /\ AtWord(r, NumberFlag) /\ TakeValue(r) /\ Value(r) \in DOMAIN NumberOf
  /\ cfg' = [cfg EXCEPT ![r].number[args[r][i[r]]] =
                           Converted(args[r][i[r]], Value(r))]
  /\ UNCHANGED << args, rmw, transport_set, at, tx, session, ros_session >>

ReadBusyPoll(r) ==
  /\ AtWord(r, {"--busy-poll"})
  /\ i' = [i EXCEPT ![r] = @ + 1]
  /\ cfg' = [cfg EXCEPT ![r].busy_poll = TRUE]
  /\ UNCHANGED << args, rmw, transport_set, at, tx, session, ros_session >>

\* A word without dashes is passed over in silence.
PassOver(r) ==
  /\ at[r] = "parse" /\ i[r] <= Len(args[r])
  /\ args[r][i[r]] \notin Dashed \cup HelpFlag
  /\ i' = [i EXCEPT ![r] = @ + 1]
  /\ UNCHANGED << args, rmw, cfg, transport_set, at, tx >>
  /\ UNCHANGED << session, ros_session >>

Stop(r, how) ==
  /\ at' = [at EXCEPT ![r] = how]
  /\ UNCHANGED << args, rmw, i, cfg, transport_set, tx, session, ros_session >>

Help(r) == AtWord(r, HelpFlag) /\ Stop(r, "helped")

BadValue(flag, word) ==
  \/ flag = "--role" /\ word \notin {"a", "b"}
  \/ flag = "--transport" /\ word \notin TransportKind
  \/ flag \in NumberFlag /\ word \notin DOMAIN NumberOf

RejectWord(r) ==
  /\ \/ AtWord(r, Valued) /\ ~ HasValue(r)
     \/ AtWord(r, Valued) /\ HasValue(r) /\ BadValue(args[r][i[r]], Value(r))
     \/ AtWord(r, Dashed \ Known)
  /\ Stop(r, "failed")

EndOfWords(r) ==
  /\ at[r] = "parse" /\ i[r] > Len(args[r])
  /\ Stop(r, "parsed")

---------------------------------------------------------------------------
(* The rest of parse_cli, and main.                                        *)

Incomplete(r) ==
  \/ ~ transport_set[r]
  \/ cfg[r].transport \in {"zenoh_p2p", "dds_unicast"}
       /\ cfg[r].text["--peer-ip"] = ""
  \/ cfg[r].transport = "zenoh_router" /\ cfg[r].text["--router-ip"] = ""

RejectConfig(r) ==
  /\ at[r] = "parsed" /\ Incomplete(r)
  /\ Stop(r, "failed")

\* Variant: one pair of defaults for both roles.
DefaultPortSame(role, flag) == IF flag = "--local-port" THEN 18000 ELSE 18001

\* Where role binds, and where it expects its peer.
DefaultPort(role, flag) ==
  IF (role = "A") = (flag = "--local-port") THEN 18000 ELSE 18001

\* Ports still 0 get the default of the role that was parsed ...
WithPorts(c) ==
  [c EXCEPT !.number = [ f \in NumberFlag |->
     IF /\ f \in {"--local-port", "--peer-port"}
        /\ c.transport = "raw_udp" /\ c.number[f] = 0
     THEN DefaultPort(c.role, f) ELSE c.number[f] ]]

\* ... and then main sets the role again, from the name of the program.
Accept(r) ==
  /\ at[r] = "parsed" /\ ~ Incomplete(r)
  /\ cfg' = [cfg EXCEPT ![r] = [WithPorts(@) EXCEPT !.role = r]]
  /\ at' = [at EXCEPT ![r] = "run"]
  /\ UNCHANGED << args, rmw, i, transport_set, tx, session, ros_session >>

---------------------------------------------------------------------------
(* run(): the transport.                                                   *)

NeedsRos(kind) == kind # "raw_udp"

Topic(r) == IF r = "A" THEN "/comm_bench/a_to_b" ELSE "/comm_bench/b_to_a"

Built(c) ==
  IF c.transport = "raw_udp"
  THEN [ kind |-> c.transport, peer_ip |-> c.text["--peer-ip"],
         local_port |-> c.number["--local-port"],
         peer_port |-> c.number["--peer-port"] ]
  ELSE [ kind |-> c.transport, out_topic |-> Topic(c.role),
         in_topic |-> Topic(Peer(c.role)) ]

(* The file that the constructor of the transport writes, one per process, *)
(* and names in the environment; whatever was named there is replaced.     *)
PeerConfig(c) ==
  [ mode |-> "peer", connect |-> c.text["--peer-ip"],
    port |-> c.number["--zenoh-port"] ]

ClientConfig(c) ==
  [ mode |-> "client", connect |-> c.text["--router-ip"],
    port |-> c.number["--zenoh-port"] ]

UnicastProfile(c) == [mode |-> "unicast", connect |-> c.text["--peer-ip"]]

SessionFile(c) ==
  CASE c.transport = "zenoh_p2p" -> PeerConfig(c)
    [] c.transport = "zenoh_router" -> ClientConfig(c)
    [] c.transport = "dds_unicast" -> UnicastProfile(c)
    [] OTHER -> NoConfig

RefusedByTransport(c) ==
  /\ c.transport = "raw_udp"
  /\ \/ c.text["--peer-ip"] = ""
     \/ c.number["--local-port"] = 0 \/ c.number["--peer-port"] = 0

RejectByTransport(r) ==
  /\ at[r] = "run" /\ RefusedByTransport(cfg[r])
  /\ Stop(r, "failed")

\* Whether the file could be written is not looked at.
Build(r) ==
  /\ at[r] = "run" /\ ~ RefusedByTransport(cfg[r])
  /\ tx' = [tx EXCEPT ![r] = Built(cfg[r])]
  /\ \/ session' = [session EXCEPT ![r] = SessionFile(cfg[r])]
     \/ /\ SessionFile(cfg[r]) # NoConfig
        /\ session' = [session EXCEPT ![r] = Unwritten]
  /\ at' = [at EXCEPT ![r] = "built"]
  /\ UNCHANGED << args, rmw, i, cfg, transport_set, ros_session >>

\* Each middleware reads its own variable.
Reads(middleware, mode) ==
  CASE middleware = "rmw_zenoh_cpp" -> mode \in {"peer", "client"}
    [] middleware = "rmw_fastrtps_cpp" -> mode = "unicast"

\* Variant: rclcpp::init comes before the transport is built.
InitRosFirst(r) ==
  /\ at[r] = "built"
  /\ ros_session' = [ros_session EXCEPT ![r] = NoConfig]
  /\ at' = [at EXCEPT ![r] = "up"]
  /\ UNCHANGED << args, rmw, i, cfg, transport_set, tx, session >>

\* rclcpp::init reads the environment once.
InitRos(r) ==
  /\ at[r] = "built"
  /\ ros_session' = [ros_session EXCEPT ![r] =
       IF NeedsRos(tx[r].kind) /\ Reads(rmw[r], session[r].mode)
       THEN session[r] ELSE @]
  /\ at' = [at EXCEPT ![r] = "up"]
  /\ UNCHANGED << args, rmw, i, cfg, transport_set, tx, session >>

\* A middleware that is not there, or a file that it cannot read.
InitRosFails(r) ==
  /\ at[r] = "built" /\ NeedsRos(tx[r].kind)
  /\ Stop(r, "no ros")

Next ==
  \E r \in Role :
    \/ ReadRole(r) \/ ReadTransport(r) \/ ReadText(r) \/ ReadNumber(r)
    \/ ReadBusyPoll(r) \/ PassOver(r) \/ Help(r) \/ RejectWord(r)
    \/ EndOfWords(r) \/ RejectConfig(r) \/ Accept(r)
    \/ RejectByTransport(r) \/ Build(r) \/ InitRos(r) \/ InitRosFails(r)

Spec == Init /\ [][Next]_vars

---------------------------------------------------------------------------
CliConfig ==
  [ role : Role, transport : TransportKind, busy_poll : BOOLEAN,
    text : [TextFlag -> Word], number : [NumberFlag -> Int] ]

TypeOK ==
  /\ args \in [Role -> Seq(Word)]
  /\ rmw \in [Role -> Rmw]
  /\ i \in [Role -> Nat]
  /\ \A r \in Role : i[r] \in 1 .. Len(args[r]) + 1
  /\ cfg \in [Role -> CliConfig]
  /\ transport_set \in [Role -> BOOLEAN]
  /\ at \in [Role -> { "parse", "parsed", "run", "built", "up", "failed",
                       "no ros", "helped" }]
  /\ \A r \in Role : tx[r] \in {NotBuilt, Built(cfg[r])}
  /\ \A r \in Role : session[r] \in {NoConfig, Unwritten, SessionFile(cfg[r])}
  /\ \A r \in Role : ros_session[r] \in {NoConfig, SessionFile(cfg[r])}

---------------------------------------------------------------------------
(* The command line as a whole, read without a loop.                       *)

\* Whether word j is the value of the word before it.
IsValue(words, j) ==
  LET is_value[n \in Nat] ==
        n > 1 /\ words[n - 1] \in Valued /\ ~ is_value[n - 1]
  IN  is_value[j]

\* Where the flag is given, and the last value it is given.
Given(r, flag) ==
  {j \in DOMAIN args[r] : args[r][j] = flag /\ ~ IsValue(args[r], j)}

IsGiven(r, flag) == Given(r, flag) # {}

LastGiven(r, flag) ==
  args[r][1 + CHOOSE j \in Given(r, flag) : \A k \in Given(r, flag) : k <= j]

(* Once the words are read, every setting is the last value given for it,  *)
(* or its default: a value that looks like a flag is still only a value,   *)
(* a repeated flag overrides, and a stray word changes nothing.  The role  *)
(* is that of the program's name unless --role says otherwise.             *)
ParsedAsGiven ==
  \A r \in Role : at[r] = "parsed" =>
    /\ cfg[r].role = IF IsGiven(r, "--role")
                     THEN IF LastGiven(r, "--role") = "a" THEN "A" ELSE "B"
                     ELSE r
    /\ \A f \in TextFlag : cfg[r].text[f] =
         IF IsGiven(r, f) THEN LastGiven(r, f) ELSE DefaultText[f]
    /\ \A f \in NumberFlag : cfg[r].number[f] =
         IF IsGiven(r, f) THEN Converted(f, LastGiven(r, f))
                          ELSE DefaultNumber[f]
    /\ cfg[r].transport =
         IF IsGiven(r, "--transport") THEN LastGiven(r, "--transport")
                                      ELSE "ros2_be"
    /\ cfg[r].busy_poll = IsGiven(r, "--busy-poll")

---------------------------------------------------------------------------
(* The two ends.                                                           *)

Ended(r) == at[r] \in {"up", "failed", "helped", "no ros"}

\* What A sends goes where B listens.
Reaches(ta, tb) ==
  IF ta.kind = "raw_udp"
  THEN ta.peer_port = tb.local_port /\ ta.local_port # tb.local_port
  ELSE ta.out_topic = tb.in_topic /\ ta.out_topic # tb.out_topic

MeetEachOther == Reaches(tx["A"], tx["B"]) /\ Reaches(tx["B"], tx["A"])

PortsGiven == \E f \in {"--local-port", "--peer-port"} : IsGiven("A", f)

(* Started with the same words, ports and role left to the program, both   *)
(* programs come to the same end, unless ROS fails one of them, and if     *)
(* they come up, each sends to where the other one listens, and on one     *)
(* machine they do not collide.                                            *)
EndsMeet ==
  /\ \A r \in Role : Ended(r) /\ at[r] # "no ros"
  /\ args["A"] = args["B"] /\ ~ PortsGiven /\ ~ IsGiven("A", "--role")
  => at["A"] = at["B"] /\ (at["A"] = "up" => MeetEachOther)

(* zenoh_p2p.cpp: "setenv must happen before rclcpp::init".  A ROS that    *)
(* comes up runs with the session of this command line's transport, if its *)
(* middleware is loaded and the file could be written.                     *)
RosUsesSession ==
  \A r \in Role :
    /\ at[r] = "up" /\ session[r] # Unwritten
    /\ Reads(rmw[r], SessionFile(cfg[r]).mode)
    => ros_session[r] = SessionFile(cfg[r])
=============================================================================
