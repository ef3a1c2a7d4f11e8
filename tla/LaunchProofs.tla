---------------------------- MODULE LaunchProofs ----------------------------
(***************************************************************************)
(* The start of the two programs for every command line, every call of     *)
(* bench_one.sh and either middleware: the types, the session that ROS     *)
(* comes up with, the settings that a command line gives, and what the     *)
(* script can rely on.                                                     *)
(*                                                                         *)
(* LaunchInv says what exists at each stage of a program: nothing before   *)
(* the transport is built, then the file of this transport, or none that   *)
(* could be written, and nothing that ROS has read before its turn.        *)
(*                                                                         *)
(* AllRead says what the loop of parse_cli has made of the words before    *)
(* the one it is at, and at each later stage what it has made of all of    *)
(* them.  It is stated without a loop: Outcome and RunsWith are functions  *)
(* of the words alone.  CallInv says whose words they are, if the script   *)
(* started the programs.                                                   *)
(***************************************************************************)
EXTENDS BenchOne, SequenceTheorems, WellFoundedInduction, TLAPS

StageInv(r) ==
  /\ at[r] \in {"parse", "parsed", "run"} =>
       tx[r] = NotBuilt /\ session[r] = NoConfig /\ ros_session[r] = NoConfig
  /\ at[r] = "built" =>
       /\ tx[r] = Built(cfg[r])
       /\ session[r] \in {SessionFile(cfg[r]), Unwritten}
       /\ ros_session[r] = NoConfig

\* The inductive invariant.
LaunchInv ==
  /\ TypeOK
  /\ DOMAIN tx = Role /\ DOMAIN session = Role /\ DOMAIN ros_session = Role
  /\ \A r \in Role : StageInv(r)
  /\ RosUsesSession

(* The kind of the transport is the one that was asked for.                *)
LEMMA BuiltKind == \A c : Built(c).kind = c.transport
<1> QED BY DEF Built

(* No middleware reads a session for raw_udp.                              *)
LEMMA RawUdpHasNoSession ==
  ASSUME NEW c, NEW m \in Rmw, Reads(m, SessionFile(c).mode)
  PROVE  NeedsRos(c.transport)
<1> QED BY DEF Reads, SessionFile, NoConfig, NeedsRos, Rmw

(* The default settings are settings.                                      *)
LEMMA DefaultsAreTyped ==
  /\ DefaultText \in [TextFlag -> Word]
  /\ DefaultNumber \in [NumberFlag -> Int]
<1>1. DefaultText \in [TextFlag -> Word]
  BY LaunchAssumption DEF DefaultText, TextFlag
<1>2. DefaultNumber \in [NumberFlag -> Int]
  BY DEF DefaultNumber, NumberFlag, PortFlag
<1> QED BY <1>1, <1>2

(* A program that has just been started, with any words.                   *)
LEMMA BeginsTyped ==
  ASSUME NEW words \in [Role -> Seq(Word)], NEW middleware \in [Role -> Rmw],
         Begin(words, middleware)
  PROVE  LaunchInv
<1>1. cfg \in [Role -> CliConfig]
  BY DefaultsAreTyped DEF Begin, CliConfig, TransportKind
<1>2. \A r \in Role : i[r] \in 1 .. Len(args[r]) + 1
  BY LenProperties DEF Begin
<1>3. TypeOK
  BY <1>1, <1>2 DEF TypeOK, Begin
<1> QED
  BY <1>3 DEF LaunchInv, StageInv, RosUsesSession, Begin

(* The words that the script passes.                                       *)
LEMMA ScriptWords ==
  ASSUME NEW c \in Calls, ~ Refused(c)
  PROVE  ScriptArgs(c) \in Seq(Word) /\ ScriptRmw(c) \in Rmw
<1>1. /\ {c.role, c.transport, c.peer, c.duration, c.csv} \subseteq Word
      /\ c.rmw \in Rmw \cup {Unset}
      /\ c.role \in {"a", "b"} /\ c.transport \in TransportKind
      /\ {"30", "500", "18000", "18001"} \subseteq Word
      /\ {"--transport", "--peer-ip", "--router-ip", "--local-port",
          "--peer-port", "--rate-hz", "--duration-sec", "--csv"} \subseteq Word
  BY CallsAssumption, LaunchAssumption
  DEF Refused, Known, Valued, NumberFlag, PortFlag, TextFlag
<1>2. Duration(c) \in Word
  BY <1>1 DEF Duration
<1>3. Csv(c) \in Word
  BY <1>1, CallsAssumption DEF Csv
<1>4. UdpPorts(c) \in Seq(Word)
  BY <1>1 DEF UdpPorts
<1>5. Extra(c) \in Seq(Word)
  <2>1. << "--peer-ip", c.peer >> \in Seq(Word)
    BY <1>1
  <2>2. << "--router-ip", c.peer >> \in Seq(Word)
    BY <1>1
  <2>3. << >> \in Seq(Word)
    OBVIOUS
  <2>4. << "--peer-ip", c.peer >> \o UdpPorts(c) \in Seq(Word)
    BY <2>1, <1>4, ConcatProperties
  <2> QED BY <2>1, <2>2, <2>3, <2>4 DEF Extra
<1>6. << "--transport", c.transport >> \in Seq(Word)
  BY <1>1
<1>7. << "--rate-hz", "500", "--duration-sec", Duration(c), "--csv", Csv(c) >>
        \in Seq(Word)
  BY <1>1, <1>2, <1>3
<1>8. ScriptArgs(c) \in Seq(Word)
  BY <1>5, <1>6, <1>7, ConcatProperties DEF ScriptArgs
<1> QED BY <1>1, <1>8 DEF ScriptRmw, DefaultRmw, Rmw, Unset

(* Both ways to begin.                                                     *)
LEMMA ScriptInitInv == ScriptInit => LaunchInv
<1>1. Init => LaunchInv
  BY BeginsTyped, LaunchAssumption DEF Init
<1>2. ASSUME call \in CallPairs,
             Begin([r \in Role |-> ScriptArgs(call[r])],
                   [r \in Role |-> ScriptRmw(call[r])])
      PROVE  LaunchInv
  <2>1. \A r \in Role : call[r] \in Calls /\ ~ Refused(call[r])
    BY <1>2 DEF CallPairs
  <2>2. [r \in Role |-> ScriptArgs(call[r])] \in [Role -> Seq(Word)]
    BY <2>1, ScriptWords
  <2>3. [r \in Role |-> ScriptRmw(call[r])] \in [Role -> Rmw]
    BY <2>1, ScriptWords
  <2> QED BY <1>2, <2>2, <2>3, BeginsTyped
<1> QED BY <1>1, <1>2 DEF ScriptInit

(* Words: the loop of parse_cli reads on, and only writes settings.        *)
Parses(r) ==
  \/ ReadRole(r) \/ ReadTransport(r) \/ ReadText(r) \/ ReadNumber(r)
  \/ ReadBusyPoll(r) \/ PassOver(r)

(* A number that was read is one.                                          *)
LEMMA ConvertedIsInt ==
  ASSUME NEW f, NEW w \in DOMAIN NumberOf
  PROVE  Converted(f, w) \in Int
<1>1. NumberOf[w] \in Int /\ PortRange \in Nat \ {0}
  BY LaunchAssumption
<1> QED BY <1>1 DEF Converted

(* The word under the index, and the one after it.                         *)
LEMMA WordsAreWords ==
  ASSUME TypeOK, NEW r \in Role
  PROVE  /\ i[r] <= Len(args[r]) => args[r][i[r]] \in Word
         /\ HasValue(r) => Value(r) \in Word
<1>1. /\ args[r] \in Seq(Word) /\ Len(args[r]) \in Nat
      /\ i[r] \in 1 .. Len(args[r]) + 1
  BY LenProperties DEF TypeOK
<1> QED BY <1>1, ElementOfSeq DEF HasValue, Value

(* One word read: the index stays in bounds and the setting is typed.      *)
LEMMA ParsesTyped ==
  ASSUME TypeOK, NEW r \in Role, Parses(r)
  PROVE  /\ i' \in [Role -> Nat]
         /\ \A q \in Role : i'[q] \in 1 .. Len(args[q]) + 1
         /\ cfg' \in [Role -> CliConfig]
         /\ transport_set' \in [Role -> BOOLEAN]
         /\ \A q \in Role : q # r => cfg'[q] = cfg[q]
         /\ at[r] = "parse"
         /\ UNCHANGED << args, rmw, at, tx, session, ros_session >>
<1>1. /\ \A q \in Role : Len(args[q]) \in Nat
      /\ i \in [Role -> Nat] /\ \A q \in Role : i[q] \in 1 .. Len(args[q]) + 1
      /\ cfg \in [Role -> CliConfig] /\ cfg[r] \in CliConfig
  BY LenProperties DEF TypeOK
<1>2. ASSUME HasValue(r), i' = [i EXCEPT ![r] = @ + 2]
      PROVE  /\ i' \in [Role -> Nat]
             /\ \A q \in Role : i'[q] \in 1 .. Len(args[q]) + 1
  BY <1>1, <1>2 DEF HasValue
<1>3. ASSUME i[r] <= Len(args[r]), i' = [i EXCEPT ![r] = @ + 1]
      PROVE  /\ i' \in [Role -> Nat]
             /\ \A q \in Role : i'[q] \in 1 .. Len(args[q]) + 1
  BY <1>1, <1>3
<1>4. ASSUME NEW c \in CliConfig, cfg' = [cfg EXCEPT ![r] = c]
      PROVE  /\ cfg' \in [Role -> CliConfig]
             /\ \A q \in Role : q # r => cfg'[q] = cfg[q]
  BY <1>1, <1>4
<1>5. CASE ReadRole(r)
  <2>1. PICK p \in Role : cfg' = [cfg EXCEPT ![r] = [cfg[r] EXCEPT !.role = p]]
    BY <1>5 DEF ReadRole, Role
  <2>2. [cfg[r] EXCEPT !.role = p] \in CliConfig
    BY <1>1 DEF CliConfig
  <2> QED
    BY <1>2, <1>4, <1>5, <2>1, <2>2 DEF ReadRole, TakeValue, AtWord, TypeOK
<1>6. CASE ReadTransport(r)
  <2>1. [cfg[r] EXCEPT !.transport = Value(r)] \in CliConfig
    BY <1>1, <1>6 DEF ReadTransport, CliConfig
  <2>2. cfg' = [cfg EXCEPT ![r] = [cfg[r] EXCEPT !.transport = Value(r)]]
    BY <1>6 DEF ReadTransport
  <2> QED
    BY <1>2, <1>4, <1>6, <2>1, <2>2
    DEF ReadTransport, TakeValue, AtWord, TypeOK
<1>7. CASE ReadText(r)
  <2>1. Value(r) \in Word
    BY <1>7, WordsAreWords DEF ReadText, TakeValue
  <2>2. [cfg[r] EXCEPT !.text = [@ EXCEPT ![args[r][i[r]]] = Value(r)]]
          \in CliConfig
    BY <1>1, <2>1 DEF CliConfig
  <2>3. cfg' = [cfg EXCEPT ![r] = [cfg[r] EXCEPT !.text =
                                     [@ EXCEPT ![args[r][i[r]]] = Value(r)]]]
    BY <1>7 DEF ReadText
  <2> QED
    BY <1>2, <1>4, <1>7, <2>2, <2>3 DEF ReadText, TakeValue, AtWord, TypeOK
<1>8. CASE ReadNumber(r)
  <2> DEFINE n == Converted(args[r][i[r]], Value(r))
  <2>1. n \in Int
    BY <1>8, ConvertedIsInt DEF ReadNumber
  <2> HIDE DEF n
  <2>2. [cfg[r] EXCEPT !.number = [@ EXCEPT ![args[r][i[r]]] = n]]
          \in CliConfig
    BY <1>1, <2>1 DEF CliConfig
  <2>3. cfg' = [cfg EXCEPT ![r] =
                  [cfg[r] EXCEPT !.number = [@ EXCEPT ![args[r][i[r]]] = n]]]
    BY <1>8 DEF ReadNumber, n
  <2> QED
    BY <1>2, <1>4, <1>8, <2>2, <2>3 DEF ReadNumber, TakeValue, AtWord, TypeOK
<1>9. CASE ReadBusyPoll(r)
  <2>1. [cfg[r] EXCEPT !.busy_poll = TRUE] \in CliConfig
    BY <1>1 DEF CliConfig
  <2>2. cfg' = [cfg EXCEPT ![r] = [cfg[r] EXCEPT !.busy_poll = TRUE]]
    BY <1>9 DEF ReadBusyPoll
  <2> QED
    BY <1>3, <1>4, <1>9, <2>1, <2>2 DEF ReadBusyPoll, AtWord, TypeOK
<1>10. CASE PassOver(r)
  BY <1>3, <1>10 DEF PassOver, TypeOK
<1> QED BY <1>5, <1>6, <1>7, <1>8, <1>9, <1>10 DEF Parses

(* A program that only stops, for good or for the next stage.              *)
LEMMA StopStep ==
  ASSUME LaunchInv, NEW r \in Role,
         NEW how \in {"parsed", "failed", "no ros", "helped"},
         Stop(r, how), how = "parsed" => at[r] = "parse"
  PROVE  LaunchInv'
<1>1. at' \in [Role -> { "parse", "parsed", "run", "built", "up", "failed",
                         "no ros", "helped" }]
  BY DEF LaunchInv, TypeOK, Stop
<1>2. /\ at'[r] = how
      /\ \A q \in Role : q # r => at'[q] = at[q]
  BY DEF LaunchInv, TypeOK, Stop
<1>3. TypeOK'
  BY <1>1 DEF LaunchInv, TypeOK, Stop
<1>4. \A q \in Role : StageInv(q)'
  BY <1>2 DEF LaunchInv, StageInv, Stop
<1>5. RosUsesSession'
  BY <1>2 DEF LaunchInv, RosUsesSession, Stop
<1> QED BY <1>3, <1>4, <1>5 DEF LaunchInv, Stop

(* A word read.                                                            *)
LEMMA ParseStep ==
  ASSUME LaunchInv, NEW r \in Role, Parses(r)
  PROVE  LaunchInv'
<1>1. /\ i' \in [Role -> Nat]
      /\ \A q \in Role : i'[q] \in 1 .. Len(args[q]) + 1
      /\ cfg' \in [Role -> CliConfig]
      /\ transport_set' \in [Role -> BOOLEAN]
      /\ \A q \in Role : q # r => cfg'[q] = cfg[q]
      /\ at[r] = "parse"
      /\ UNCHANGED << args, rmw, at, tx, session, ros_session >>
  BY ParsesTyped DEF LaunchInv
<1>2. /\ tx[r] = NotBuilt /\ session[r] = NoConfig
      /\ ros_session[r] = NoConfig
  BY <1>1 DEF LaunchInv, StageInv
<1>3. TypeOK'
  BY <1>1, <1>2 DEF LaunchInv, TypeOK
<1>4. \A q \in Role : StageInv(q)'
  BY <1>1, <1>2 DEF LaunchInv, StageInv
<1>5. RosUsesSession'
  BY <1>1 DEF LaunchInv, RosUsesSession
<1> QED BY <1>1, <1>3, <1>4, <1>5 DEF LaunchInv

(* The ports that are filled in are numbers, and the role is the program's. *)
LEMMA AcceptStep ==
  ASSUME LaunchInv, NEW r \in Role, Accept(r)
  PROVE  LaunchInv'
<1> DEFINE c == [WithPorts(cfg[r]) EXCEPT !.role = r]
<1>1. cfg \in [Role -> CliConfig] /\ cfg[r] \in CliConfig
  BY DEF LaunchInv, TypeOK
<1>2. c \in CliConfig
  <2> DEFINE n == WithPorts(cfg[r]).number
  <2>1. \A f \in NumberFlag : cfg[r].number[f] \in Int
    BY <1>1 DEF CliConfig
  <2>2. n = [ f \in NumberFlag |->
                IF /\ f \in {"--local-port", "--peer-port"}
                   /\ cfg[r].transport = "raw_udp" /\ cfg[r].number[f] = 0
                THEN DefaultPort(cfg[r].role, f) ELSE cfg[r].number[f] ]
    BY <1>1 DEF WithPorts, CliConfig
  <2>3. \A role, f : DefaultPort(role, f) \in Int
    BY DEF DefaultPort
  <2>4. n \in [NumberFlag -> Int]
    BY <2>1, <2>2, <2>3
  <2>5. c = [cfg[r] EXCEPT !.number = n, !.role = r]
    BY <1>1 DEF WithPorts, CliConfig
  <2> HIDE DEF n
  <2> QED BY <1>1, <2>4, <2>5 DEF CliConfig
<1>3. cfg' = [cfg EXCEPT ![r] = c]
  BY DEF Accept
<1> HIDE DEF c
<1>4. /\ cfg' \in [Role -> CliConfig]
      /\ \A q \in Role : q # r => cfg'[q] = cfg[q]
  BY <1>1, <1>2, <1>3
<1>5. /\ at[r] = "parsed" /\ at'[r] = "run"
      /\ \A q \in Role : q # r => at'[q] = at[q]
      /\ at' \in [Role -> { "parse", "parsed", "run", "built", "up", "failed",
                            "no ros", "helped" }]
      /\ UNCHANGED << args, rmw, i, transport_set, tx, session, ros_session >>
  BY DEF LaunchInv, TypeOK, Accept
<1>6. /\ tx[r] = NotBuilt /\ session[r] = NoConfig
      /\ ros_session[r] = NoConfig
  BY <1>5 DEF LaunchInv, StageInv
<1>7. TypeOK'
  BY <1>4, <1>5, <1>6 DEF LaunchInv, TypeOK
<1>8. \A q \in Role : StageInv(q)'
  BY <1>4, <1>5, <1>6 DEF LaunchInv, StageInv
<1>9. RosUsesSession'
  BY <1>4, <1>5 DEF LaunchInv, RosUsesSession
<1> QED BY <1>5, <1>7, <1>8, <1>9 DEF LaunchInv

(* The constructor leaves its file, or none, before ROS is initialised.    *)
LEMMA BuildStep ==
  ASSUME LaunchInv, NEW r \in Role, Build(r)
  PROVE  LaunchInv'
<1>1. /\ at[r] = "run" /\ at'[r] = "built"
      /\ \A q \in Role : q # r => at'[q] = at[q]
      /\ at' \in [Role -> { "parse", "parsed", "run", "built", "up", "failed",
                            "no ros", "helped" }]
      /\ UNCHANGED << args, rmw, i, cfg, transport_set, ros_session >>
  BY DEF LaunchInv, TypeOK, Build
<1>2. /\ DOMAIN tx' = Role /\ tx'[r] = Built(cfg[r])
      /\ \A q \in Role : q # r => tx'[q] = tx[q]
  BY DEF LaunchInv, Build
<1>3. /\ DOMAIN session' = Role
      /\ session'[r] \in {SessionFile(cfg[r]), Unwritten}
      /\ \A q \in Role : q # r => session'[q] = session[q]
  BY DEF LaunchInv, Build
<1>4. ros_session[r] = NoConfig
  BY <1>1 DEF LaunchInv, StageInv
<1>5. TypeOK'
  BY <1>1, <1>2, <1>3 DEF LaunchInv, TypeOK
<1>6. \A q \in Role : StageInv(q)'
  BY <1>1, <1>2, <1>3, <1>4 DEF LaunchInv, StageInv
<1>7. RosUsesSession'
  BY <1>1, <1>3 DEF LaunchInv, RosUsesSession
<1> QED BY <1>1, <1>2, <1>3, <1>5, <1>6, <1>7 DEF LaunchInv

(* rclcpp::init finds the file of this transport if its middleware looks.  *)
LEMMA InitRosStep ==
  ASSUME LaunchInv, NEW r \in Role, InitRos(r)
  PROVE  LaunchInv'
<1>1. /\ at[r] = "built" /\ at'[r] = "up"
      /\ \A q \in Role : q # r => at'[q] = at[q]
      /\ at' \in [Role -> { "parse", "parsed", "run", "built", "up", "failed",
                            "no ros", "helped" }]
      /\ UNCHANGED << args, rmw, i, cfg, transport_set, tx, session >>
  BY DEF LaunchInv, TypeOK, InitRos
<1>2. /\ tx[r] = Built(cfg[r])
      /\ session[r] \in {SessionFile(cfg[r]), Unwritten}
      /\ ros_session[r] = NoConfig
      /\ rmw[r] \in Rmw
  BY <1>1 DEF LaunchInv, StageInv, TypeOK
<1>3. /\ DOMAIN ros_session' = Role
      /\ ros_session'[r] =
           IF NeedsRos(tx[r].kind) /\ Reads(rmw[r], session[r].mode)
           THEN session[r] ELSE NoConfig
      /\ \A q \in Role : q # r => ros_session'[q] = ros_session[q]
  BY <1>2 DEF LaunchInv, InitRos
<1>4. ~ Reads(rmw[r], Unwritten.mode)
  BY <1>2 DEF Reads, Unwritten, Rmw
<1>5. ros_session'[r] \in {NoConfig, SessionFile(cfg[r])}
  BY <1>2, <1>3, <1>4
<1>6. /\ session[r] # Unwritten /\ Reads(rmw[r], SessionFile(cfg[r]).mode)
      => ros_session'[r] = SessionFile(cfg[r])
  <2> SUFFICES ASSUME session[r] # Unwritten,
                      Reads(rmw[r], SessionFile(cfg[r]).mode)
               PROVE  ros_session'[r] = SessionFile(cfg[r])
    OBVIOUS
  <2>1. NeedsRos(tx[r].kind)
    BY <1>2, BuiltKind, RawUdpHasNoSession
  <2> QED BY <1>2, <1>3, <2>1
<1>7. TypeOK'
  BY <1>1, <1>3, <1>5 DEF LaunchInv, TypeOK
<1>8. \A q \in Role : StageInv(q)'
  BY <1>1, <1>3 DEF LaunchInv, StageInv
<1>9. RosUsesSession'
  BY <1>1, <1>3, <1>6 DEF LaunchInv, RosUsesSession
<1> QED BY <1>1, <1>3, <1>7, <1>8, <1>9 DEF LaunchInv

(* Every step of either program.                                           *)
LEMMA LaunchStep == LaunchInv /\ [Next]_vars => LaunchInv'
<1> SUFFICES ASSUME LaunchInv, [Next]_vars PROVE LaunchInv'
  OBVIOUS
<1>1. CASE UNCHANGED vars
  BY <1>1 DEF LaunchInv, TypeOK, StageInv, RosUsesSession, vars
<1>2. CASE Next
  <2>1. PICK r \in Role :
          \/ Parses(r) \/ Help(r) \/ RejectWord(r) \/ EndOfWords(r)
          \/ RejectConfig(r) \/ Accept(r) \/ RejectByTransport(r)
          \/ Build(r) \/ InitRos(r) \/ InitRosFails(r)
    BY <1>2 DEF Next, Parses
  <2>2. CASE Parses(r)
    BY <2>2, ParseStep
  <2>3. CASE Help(r)
    BY <2>3, StopStep DEF Help
  <2>4. CASE RejectWord(r)
    BY <2>4, StopStep DEF RejectWord
  <2>5. CASE EndOfWords(r)
    BY <2>5, StopStep DEF EndOfWords
  <2>6. CASE RejectConfig(r)
    BY <2>6, StopStep DEF RejectConfig
  <2>7. CASE Accept(r)
    BY <2>7, AcceptStep
  <2>8. CASE RejectByTransport(r)
    BY <2>8, StopStep DEF RejectByTransport
  <2>9. CASE Build(r)
    BY <2>9, BuildStep
  <2>10. CASE InitRos(r)
    BY <2>10, InitRosStep
  <2>11. CASE InitRosFails(r)
    BY <2>11, StopStep DEF InitRosFails
  <2> QED
    BY <2>1, <2>2, <2>3, <2>4, <2>5, <2>6, <2>7, <2>8, <2>9, <2>10, <2>11
<1> QED BY <1>1, <1>2

(* Whoever starts the programs, the invariant holds from then on.          *)
LEMMA LaunchInvHolds == ScriptSpec => []LaunchInv
<1>1. LaunchInv /\ [ScriptNext]_<< vars, call >> => LaunchInv'
  BY LaunchStep DEF ScriptNext
<1> QED BY ScriptInitInv, <1>1, PTL DEF ScriptSpec

(* Every setting has its type, and what the transport, its file and ROS    *)
(* hold is what the parsed settings say, or nothing.                       *)
THEOREM LaunchTypes == ScriptSpec => []TypeOK
<1>1. LaunchInv => TypeOK
  BY DEF LaunchInv
<1> QED BY LaunchInvHolds, <1>1, PTL

(* No order of the steps lets rclcpp::init run before the file of its      *)
(* transport is named: whoever started the program, a middleware that      *)
(* reads the file reads this one.                                          *)
THEOREM RosReadsItsSession == ScriptSpec => []RosUsesSession
<1>1. LaunchInv => RosUsesSession
  BY DEF LaunchInv
<1> QED BY LaunchInvHolds, <1>1, PTL

---------------------------------------------------------------------------
(* Which words are values.                                                 *)

(* A set of numbers that is not empty has a least one: every induction     *)
(* below is a search for the least counterexample.                         *)
LEMMA LeastNat ==
  ASSUME NEW T, T \subseteq Nat, T # {}
  PROVE  \E x \in T : \A y \in T : x <= y
<1> DEFINE R == OpToRel(<, Nat)
<1>1. IsWellFoundedOn(R, Nat)
  BY NatLessThanWellFounded
<1>2. \A y, x \in Nat : <<y, x>> \notin R => x <= y
  BY DEF OpToRel
<1> HIDE DEF R
<1>3. PICK x \in T : \A y \in T : ~ (<<y, x>> \in R)
  BY <1>1, WFMin
<1> QED BY <1>2, <1>3

\* The unbroken run of flag words k .. j - 1, just before word j.
RunBefore(words, k, j) ==
  /\ \A m \in k .. j - 1 : words[m] \in Valued
  /\ k > 1 => words[k - 1] \notin Valued

\* Word j is a value: IsValue without the recursion.
TakenAsValue(words, j) ==
  \E k \in 1 .. j : RunBefore(words, k, j) /\ (j - k) % 2 = 1

(* There is such a run before every word.                                  *)
LEMMA RunExists ==
  ASSUME NEW words, NEW j \in Nat \ {0}
  PROVE  \E k \in 1 .. j : RunBefore(words, k, j)
<1> DEFINE T == {k \in 1 .. j : \A m \in k .. j - 1 : words[m] \in Valued}
<1>1. T \subseteq Nat /\ j \in T
  OBVIOUS
<1>2. PICK k \in T : \A l \in T : k <= l
  BY <1>1, LeastNat
<1>3. ASSUME k > 1, words[k - 1] \in Valued
      PROVE  FALSE
  <2>1. k - 1 \in T
    BY <1>2, <1>3
  <2> QED BY <1>2, <2>1
<1> QED BY <1>2, <1>3 DEF RunBefore

(* There is only one.                                                      *)
LEMMA RunUnique ==
  ASSUME NEW words, NEW j \in Nat, NEW k \in 1 .. j, NEW l \in 1 .. j,
         RunBefore(words, k, j), RunBefore(words, l, j)
  PROVE  k = l
<1>1. ASSUME NEW p \in 1 .. j, NEW q \in 1 .. j, p < q,
             RunBefore(words, p, j), RunBefore(words, q, j)
      PROVE  FALSE
  <2>1. q - 1 \in p .. j - 1 /\ q > 1
    BY <1>1
  <2> QED BY <1>1, <2>1 DEF RunBefore
<1> QED BY <1>1

(* A word is a value if the word before it takes one and is none itself.   *)
LEMMA TakenAfter ==
  ASSUME NEW words, NEW j \in Nat \ {0}
  PROVE  TakenAsValue(words, j + 1) <=>
           words[j] \in Valued /\ ~ TakenAsValue(words, j)
<1>1. PICK k \in 1 .. j : RunBefore(words, k, j)
  BY RunExists
<1>2. TakenAsValue(words, j) <=> (j - k) % 2 = 1
  BY <1>1, RunUnique DEF TakenAsValue
<1>3. CASE words[j] \in Valued
  <2>1. RunBefore(words, k, j + 1)
    BY <1>1, <1>3 DEF RunBefore
  <2>2. TakenAsValue(words, j + 1) <=> (j + 1 - k) % 2 = 1
    BY <2>1, RunUnique DEF TakenAsValue
  <2>3. (j + 1 - k) % 2 = 1 <=> (j - k) % 2 # 1
    OBVIOUS
  <2> QED BY <1>2, <1>3, <2>2, <2>3
<1>4. CASE words[j] \notin Valued
  <2>1. ASSUME NEW l \in 1 .. j + 1, RunBefore(words, l, j + 1)
        PROVE  l = j + 1
    BY <1>4, <2>1 DEF RunBefore
  <2> QED BY <1>4, <2>1 DEF TakenAsValue
<1> QED BY <1>3, <1>4

(* IsValue, word by word: its recursion has a solution, the one without a  *)
(* recursion, so what it chooses is a solution.                            *)
LEMMA IsValueAfter ==
  ASSUME NEW words
  PROVE  /\ ~ IsValue(words, 1)
         /\ \A j \in Nat \ {0} :
              IsValue(words, j + 1) <=>
                words[j] \in Valued /\ ~ IsValue(words, j)
<1> DEFINE Equation(f) ==
      f = [n \in Nat |-> n > 1 /\ words[n - 1] \in Valued /\ ~ f[n - 1]]
    g == [n \in Nat |-> TakenAsValue(words, n)]
    v == CHOOSE f : Equation(f)
<1>1. ASSUME NEW n \in Nat
      PROVE  g[n] = (n > 1 /\ words[n - 1] \in Valued /\ ~ g[n - 1])
  <2>1. CASE n > 1
    <3>1. n - 1 \in Nat \ {0} /\ (n - 1) + 1 = n
      BY <2>1
    <3>2. TakenAsValue(words, (n - 1) + 1) <=>
            words[n - 1] \in Valued /\ ~ TakenAsValue(words, n - 1)
      BY <3>1, TakenAfter
    <3>3. g[n] = TakenAsValue(words, n) /\ g[n - 1] = TakenAsValue(words, n - 1)
      BY <3>1
    <3>4. TakenAsValue(words, n) <=>
            words[n - 1] \in Valued /\ ~ TakenAsValue(words, n - 1)
      BY <3>1, <3>2
    <3>5. TakenAsValue(words, n) \in BOOLEAN
      BY DEF TakenAsValue
    <3> HIDE DEF g
    <3> QED BY <2>1, <3>3, <3>4, <3>5
  <2>2. CASE n \in {0, 1}
    <3>1. TakenAsValue(words, n) = FALSE
      BY <2>2 DEF TakenAsValue
    <3>2. g[n] = FALSE
      BY <3>1
    <3>3. ~ (n > 1)
      BY <2>2
    <3> HIDE DEF g
    <3> QED BY <3>2, <3>3
  <2> QED BY <2>1, <2>2
<1>2. Equation(g)
  <2> HIDE DEF g
  <2> SUFFICES [n \in Nat |-> g[n]] =
                 [n \in Nat |-> n > 1 /\ words[n - 1] \in Valued /\ ~ g[n - 1]]
    BY DEF g
  <2> QED BY <1>1
<1>3. Equation(v)
  <2> HIDE DEF Equation, g
  <2> QED BY <1>2
<1>4. \A n \in Nat : v[n] = (n > 1 /\ words[n - 1] \in Valued /\ ~ v[n - 1])
  <2> HIDE DEF v
  <2> QED BY <1>3
<1>5. \A n \in Nat : IsValue(words, n) = v[n]
  BY DEF IsValue
<1> HIDE DEF v
<1>6. ASSUME NEW j \in Nat \ {0}
      PROVE  v[j + 1] = (words[j] \in Valued /\ ~ v[j])
  BY <1>4, j + 1 > 1, (j + 1) - 1 = j, j + 1 \in Nat
<1>7. ~ v[1]
  <2>1. v[1] = (1 > 1 /\ words[1 - 1] \in Valued /\ ~ v[1 - 1])
    BY <1>4, 1 \in Nat, Zenon
  <2>2. ~ (1 > 1)
    OBVIOUS
  <2> QED BY <2>1, <2>2, Zenon
<1>8. \A j \in Nat \ {0} : j + 1 \in Nat /\ j \in Nat
  OBVIOUS
<1> QED BY <1>5, <1>6, <1>7, <1>8, 1 \in Nat

---------------------------------------------------------------------------
(* What the words before word n say, and what all of them say.             *)

\* Where the flag is given.
GivenIn(words, flag) ==
  {j \in DOMAIN words : words[j] = flag /\ ~ IsValue(words, j)}

\* Of these, the ones before word n.
Before(words, flag, n) == {j \in GivenIn(words, flag) : j < n}

\* The value after the last of them.
LastOf(words, S) == words[1 + CHOOSE j \in S : \A k \in S : k <= j]

\* The settings that the words before word n give.
RoleBefore(words, n, r) ==
  IF Before(words, "--role", n) = {} THEN r
  ELSE IF LastOf(words, Before(words, "--role", n)) = "a" THEN "A" ELSE "B"

TransportBefore(words, n) ==
  IF Before(words, "--transport", n) = {} THEN "ros2_be"
  ELSE LastOf(words, Before(words, "--transport", n))

TextBefore(words, n) ==
  [ f \in TextFlag |->
      IF Before(words, f, n) = {} THEN DefaultText[f]
      ELSE LastOf(words, Before(words, f, n)) ]

NumberBefore(words, n) ==
  [ f \in NumberFlag |->
      IF Before(words, f, n) = {} THEN DefaultNumber[f]
      ELSE Converted(f, LastOf(words, Before(words, f, n))) ]

BusyPollBefore(words, n) == Before(words, "--busy-poll", n) # {}

SettingsBefore(words, n, r) ==
  [ role |-> RoleBefore(words, n, r),
    transport |-> TransportBefore(words, n),
    busy_poll |-> BusyPollBefore(words, n),
    text |-> TextBefore(words, n), number |-> NumberBefore(words, n) ]

\* Word j makes parse_cli throw.
Rejected(words, j) ==
  \/ words[j] \in Dashed \ Known
  \/ words[j] \in Valued
       /\ (j = Len(words) \/ BadValue(words[j], words[j + 1]))

\* The words that end the program, one way or the other.
Stops(words) ==
  {j \in DOMAIN words : /\ ~ IsValue(words, j)
                        /\ words[j] \in HelpFlag \/ Rejected(words, j)}

FirstOf(S) == CHOOSE j \in S : \A k \in S : j <= k

\* What parse_cli has when it has read the words.
Settings(words, r) == SettingsBefore(words, Len(words) + 1, r)

\* Incomplete, of the words.
Lacking(words, r) ==
  LET c == Settings(words, r)
  IN  \/ GivenIn(words, "--transport") = {}
      \/ c.transport \in {"zenoh_p2p", "dds_unicast"}
           /\ c.text["--peer-ip"] = ""
      \/ c.transport = "zenoh_router" /\ c.text["--router-ip"] = ""

\* The settings that run() is called with.
RunsWith(words, r) == [WithPorts(Settings(words, r)) EXCEPT !.role = r]

\* How the program ends, if ROS does not fail it.
Outcome(words, r) ==
  IF Stops(words) # {}
  THEN IF words[FirstOf(Stops(words))] \in HelpFlag THEN "helped" ELSE "failed"
  ELSE IF Lacking(words, r) \/ RefusedByTransport(RunsWith(words, r))
       THEN "failed" ELSE "up"

\* What the program has, at every stage, is what its words say.
ReadInv(r) ==
  LET words == args[r]
  IN  /\ at[r] = "parse" =>
           /\ ~ IsValue(words, i[r])
           /\ \A j \in Stops(words) : i[r] <= j
           /\ cfg[r] = SettingsBefore(words, i[r], r)
           /\ transport_set[r] = (Before(words, "--transport", i[r]) # {})
      /\ at[r] = "parsed" =>
           /\ Stops(words) = {}
           /\ cfg[r] = Settings(words, r)
           /\ transport_set[r] = (GivenIn(words, "--transport") # {})
      /\ at[r] \in {"run", "built", "up", "no ros"} =>
           /\ Stops(words) = {} /\ ~ Lacking(words, r)
           /\ cfg[r] = RunsWith(words, r)
      /\ at[r] \in {"built", "up", "no ros"} =>
           /\ ~ RefusedByTransport(cfg[r])
           /\ tx[r] = Built(cfg[r])
      /\ at[r] \in {"helped", "failed"} => at[r] = Outcome(words, r)

AllRead == \A r \in Role : ReadInv(r)

\* The loop reads word n, and its value if it takes one, and comes to word m.
ReadsOn(words, n, m) ==
  /\ words \in Seq(Word) /\ n \in 1 .. Len(words)
  /\ ~ IsValue(words, n)
  /\ m = IF words[n] \in Valued THEN n + 2 ELSE n + 1

(* One word read, with its value if it takes one: the loop is at a word    *)
(* that is no value, and of all that was given before only this flag has a *)
(* new last value.                                                         *)
LEMMA WordRead ==
  ASSUME NEW words, NEW n, NEW m, ReadsOn(words, n, m)
  PROVE  /\ ~ IsValue(words, m)
         /\ \A f : Before(words, f, m) =
                     IF f = words[n] THEN Before(words, f, n) \cup {n}
                                     ELSE Before(words, f, n)
         /\ Before(words, words[n], m) # {}
         /\ LastOf(words, Before(words, words[n], m)) = words[n + 1]
         /\ n \notin Stops(words) /\ (\A j \in Stops(words) : n <= j)
              => \A j \in Stops(words) : m <= j
<1>1. /\ words \in Seq(Word) /\ n \in Nat \ {0} /\ n \in DOMAIN words
      /\ Len(words) \in Nat /\ DOMAIN words = 1 .. Len(words)
      /\ m \in Nat /\ ~ IsValue(words, n)
  BY LenProperties DEF ReadsOn
<1>2. IsValue(words, n + 1) <=> words[n] \in Valued
  BY <1>1, IsValueAfter
<1>3. ~ IsValue(words, m)
  <2>1. CASE words[n] \in Valued
    <3>1. IsValue(words, (n + 1) + 1) <=>
            words[n + 1] \in Valued /\ ~ IsValue(words, n + 1)
      BY <1>1, IsValueAfter, n + 1 \in Nat \ {0}
    <3>2. m = (n + 1) + 1
      BY <2>1, <1>1 DEF ReadsOn
    <3> QED BY <1>2, <2>1, <3>1, <3>2
  <2>2. CASE words[n] \notin Valued
    BY <1>2, <2>2 DEF ReadsOn
  <2> QED BY <2>1, <2>2
<1>4. \A j \in DOMAIN words : ~ IsValue(words, j) => (j < m <=> j < n \/ j = n)
  <2> SUFFICES ASSUME NEW j \in DOMAIN words, ~ IsValue(words, j)
               PROVE  j < m <=> j < n \/ j = n
    OBVIOUS
  <2>1. j = n + 1 => words[n] \notin Valued
    BY <1>2
  <2> QED BY <1>1, <2>1 DEF ReadsOn
<1>5. \A f : Before(words, f, m) =
               IF f = words[n] THEN Before(words, f, n) \cup {n}
                               ELSE Before(words, f, n)
  BY <1>1, <1>4 DEF Before, GivenIn
<1>6. n \in Before(words, words[n], m)
  BY <1>5
<1>7. \A k \in Before(words, words[n], m) : k \in Nat /\ k <= n
  <2> SUFFICES ASSUME NEW k \in Before(words, words[n], m)
               PROVE  k \in Nat /\ k <= n
    OBVIOUS
  <2>1. k \in DOMAIN words /\ ~ IsValue(words, k) /\ k < m
    BY DEF Before, GivenIn
  <2> QED BY <1>1, <1>4, <2>1
<1>8. (CHOOSE j \in Before(words, words[n], m) :
         \A k \in Before(words, words[n], m) : k <= j) = n
  BY <1>1, <1>6, <1>7
<1>9. LastOf(words, Before(words, words[n], m)) = words[n + 1]
  BY <1>1, <1>8, 1 + n = n + 1 DEF LastOf
<1>10. ASSUME n \notin Stops(words), \A j \in Stops(words) : n <= j,
              NEW j \in Stops(words)
       PROVE  m <= j
  <2>1. j \in DOMAIN words /\ ~ IsValue(words, j)
    BY <1>10 DEF Stops
  <2>2. ~ (j < n) /\ j # n
    BY <1>1, <1>10, <2>1
  <2> QED BY <1>1, <1>4, <2>1, <2>2
<1> QED BY <1>3, <1>5, <1>6, <1>9, <1>10

(* No flag is of two kinds.                                                *)
LEMMA FlagsDiffer ==
  /\ TextFlag \cap NumberFlag = {}
  /\ \A f \in TextFlag \cup NumberFlag :
       f \notin {"--role", "--transport", "--busy-poll"}
  /\ "--busy-poll" \notin Valued /\ TextFlag \cup NumberFlag \subseteq Valued
  /\ {"--role", "--transport"} \subseteq Valued
  /\ HelpFlag \cap Valued = {} /\ "--busy-poll" \notin HelpFlag
BY DEF TextFlag, NumberFlag, PortFlag, Valued, HelpFlag

\* What a word changes among the settings.
Polling(c) == [c EXCEPT !.busy_poll = TRUE]

(* What one word changes in the settings that the words give.              *)
LEMMA SettingsGrow ==
  ASSUME NEW words, NEW n, NEW m, ReadsOn(words, n, m), NEW r
  PROVE  /\ words[n] = "--role" =>
              SettingsBefore(words, m, r) =
                [SettingsBefore(words, n, r) EXCEPT
                   !.role = IF words[n + 1] = "a" THEN "A" ELSE "B"]
         /\ words[n] = "--transport" =>
              SettingsBefore(words, m, r) =
                [SettingsBefore(words, n, r) EXCEPT !.transport = words[n + 1]]
         /\ words[n] \in TextFlag =>
              SettingsBefore(words, m, r) =
                [SettingsBefore(words, n, r) EXCEPT
                   !.text[words[n]] = words[n + 1]]
         /\ words[n] \in NumberFlag =>
              SettingsBefore(words, m, r) =
                [SettingsBefore(words, n, r) EXCEPT
                   !.number[words[n]] = Converted(words[n], words[n + 1])]
         /\ words[n] = "--busy-poll" =>
              SettingsBefore(words, m, r) =
                Polling(SettingsBefore(words, n, r))
         /\ words[n] \notin Known =>
              SettingsBefore(words, m, r) = SettingsBefore(words, n, r)
<1> DEFINE B(f) == Before(words, f, n)
           D(f) == Before(words, f, m)
           w == words[n]
<1>1. \A f : f # w => D(f) = B(f)
  BY WordRead
<1>2. D(w) # {} /\ LastOf(words, D(w)) = words[n + 1]
  BY WordRead
<1>3. w # "--role" => RoleBefore(words, m, r) = RoleBefore(words, n, r)
  BY <1>1 DEF RoleBefore
<1>4. w # "--transport" =>
        TransportBefore(words, m) = TransportBefore(words, n)
  BY <1>1 DEF TransportBefore
<1>5. w \notin TextFlag => TextBefore(words, m) = TextBefore(words, n)
  BY <1>1 DEF TextBefore
<1>6. w \notin NumberFlag => NumberBefore(words, m) = NumberBefore(words, n)
  BY <1>1 DEF NumberBefore
<1>7. w # "--busy-poll" => BusyPollBefore(words, m) = BusyPollBefore(words, n)
  BY <1>1 DEF BusyPollBefore
<1>8. w \in TextFlag =>
        TextBefore(words, m) =
          [TextBefore(words, n) EXCEPT ![w] = words[n + 1]]
  BY <1>1, <1>2 DEF TextBefore
<1>9. w \in NumberFlag =>
        NumberBefore(words, m) =
          [NumberBefore(words, n) EXCEPT ![w] = Converted(w, words[n + 1])]
  BY <1>1, <1>2 DEF NumberBefore
<1>10. w = "--role" => RoleBefore(words, m, r) =
                         IF words[n + 1] = "a" THEN "A" ELSE "B"
  BY <1>2 DEF RoleBefore
<1>11. w = "--transport" => TransportBefore(words, m) = words[n + 1]
  BY <1>2 DEF TransportBefore
<1>12. w = "--busy-poll" => BusyPollBefore(words, m) = TRUE
  BY <1>2 DEF BusyPollBefore
<1> DEFINE c == SettingsBefore(words, n, r)
           d == SettingsBefore(words, m, r)
<1> HIDE DEF w
<1>13. ASSUME w = "--role"
      PROVE  d = [c EXCEPT !.role = IF words[n + 1] = "a" THEN "A" ELSE "B"]
  <2>1. /\ TransportBefore(words, m) = TransportBefore(words, n)
        /\ TextBefore(words, m) = TextBefore(words, n)
        /\ NumberBefore(words, m) = NumberBefore(words, n)
        /\ BusyPollBefore(words, m) = BusyPollBefore(words, n)
    BY <1>13, <1>4, <1>5, <1>6, <1>7, FlagsDiffer
  <2> QED BY <1>13, <1>10, <2>1 DEF SettingsBefore
<1>14. ASSUME w = "--transport"
      PROVE  d = [c EXCEPT !.transport = words[n + 1]]
  <2>1. /\ RoleBefore(words, m, r) = RoleBefore(words, n, r)
        /\ TextBefore(words, m) = TextBefore(words, n)
        /\ NumberBefore(words, m) = NumberBefore(words, n)
        /\ BusyPollBefore(words, m) = BusyPollBefore(words, n)
    BY <1>14, <1>3, <1>5, <1>6, <1>7, FlagsDiffer
  <2> QED BY <1>14, <1>11, <2>1 DEF SettingsBefore
<1>15. ASSUME w \in TextFlag
      PROVE  d = [c EXCEPT !.text[w] = words[n + 1]]
  <2>1. /\ RoleBefore(words, m, r) = RoleBefore(words, n, r)
        /\ TransportBefore(words, m) = TransportBefore(words, n)
        /\ NumberBefore(words, m) = NumberBefore(words, n)
        /\ BusyPollBefore(words, m) = BusyPollBefore(words, n)
    BY <1>15, <1>3, <1>4, <1>6, <1>7, FlagsDiffer
  <2> QED BY <1>15, <1>8, <2>1 DEF SettingsBefore
<1>16. ASSUME w \in NumberFlag
      PROVE  d = [c EXCEPT !.number[w] = Converted(w, words[n + 1])]
  <2>1. /\ RoleBefore(words, m, r) = RoleBefore(words, n, r)
        /\ TransportBefore(words, m) = TransportBefore(words, n)
        /\ TextBefore(words, m) = TextBefore(words, n)
        /\ BusyPollBefore(words, m) = BusyPollBefore(words, n)
    BY <1>16, <1>3, <1>4, <1>5, <1>7, FlagsDiffer
  <2> QED BY <1>16, <1>9, <2>1 DEF SettingsBefore
<1>17. ASSUME w = "--busy-poll"
      PROVE  d = Polling(c)
  <2>1. /\ RoleBefore(words, m, r) = RoleBefore(words, n, r)
        /\ TransportBefore(words, m) = TransportBefore(words, n)
        /\ TextBefore(words, m) = TextBefore(words, n)
        /\ NumberBefore(words, m) = NumberBefore(words, n)
    BY <1>17, <1>3, <1>4, <1>5, <1>6, FlagsDiffer
  <2>2. \A t : BusyPollBefore(words, m) = t => d = [c EXCEPT !.busy_poll = t]
    BY <2>1 DEF SettingsBefore
  <2> HIDE DEF c, d
  <2> QED BY <1>12, <1>17, <2>2, Zenon DEF Polling
<1>18. ASSUME w \notin Known
       PROVE  d = c
  BY <1>3, <1>4, <1>5, <1>6, <1>7, <1>18, FlagsDiffer
  DEF SettingsBefore, Known
<1> QED BY <1>13, <1>14, <1>15, <1>16, <1>17, <1>18 DEF w

(* The flags are known, and a word without dashes is not one of them.      *)
LEMMA FlagsKnown ==
  /\ Valued \subseteq Known /\ HelpFlag \subseteq Known
  /\ "--busy-poll" \in Known
  /\ \A w : w \notin Dashed \cup HelpFlag => w \notin Known
BY LaunchAssumption DEF Known, HelpFlag

(* Each action of the loop reads a word that does not stop the program,    *)
(* and leaves the settings that the words up to the next one give.         *)
LEMMA ParseReadsOn ==
  ASSUME TypeOK, NEW r \in Role, ReadInv(r), Parses(r)
  PROVE  /\ at[r] = "parse" /\ UNCHANGED << args, at >>
         /\ ReadsOn(args[r], i[r], i'[r])
         /\ i[r] \notin Stops(args[r])
         /\ cfg'[r] = SettingsBefore(args[r], i'[r], r)
         /\ transport_set'[r] =
              (Before(args[r], "--transport", i'[r]) # {})
<1> DEFINE words == args[r]
           n == i[r]
           m == i'[r]
<1>1. /\ words \in Seq(Word) /\ Len(words) \in Nat
      /\ DOMAIN words = 1 .. Len(words)
      /\ n \in 1 .. Len(words) + 1 /\ n \in Nat
      /\ i \in [Role -> Nat] /\ cfg \in [Role -> CliConfig]
      /\ transport_set \in [Role -> BOOLEAN]
  BY LenProperties DEF TypeOK
<1>2. /\ at[r] = "parse" /\ n <= Len(words) /\ UNCHANGED << args, at >>
  BY DEF Parses, ReadRole, ReadTransport, ReadText, ReadNumber, ReadBusyPoll,
         PassOver, AtWord
<1>3. /\ ~ IsValue(words, n)
      /\ cfg[r] = SettingsBefore(words, n, r)
      /\ transport_set[r] = (Before(words, "--transport", n) # {})
  BY <1>2 DEF ReadInv
<1>4. ASSUME TakeValue(r), words[n] \in Valued, ~ BadValue(words[n], Value(r))
      PROVE  /\ ReadsOn(words, n, m) /\ n \notin Stops(words)
             /\ Value(r) = words[n + 1]
  <2>1. m = n + 2 /\ n + 1 <= Len(words) /\ Value(r) = words[n + 1]
    BY <1>1, <1>4 DEF TakeValue, HasValue, Value
  <2>2. ReadsOn(words, n, m)
    BY <1>1, <1>2, <1>3, <1>4, <2>1 DEF ReadsOn
  <2>3. words[n] \in Known /\ words[n] \notin HelpFlag
    BY <1>4, FlagsDiffer, FlagsKnown
  <2>4. n # Len(words)
    BY <1>1, <2>1
  <2>5. n \notin Stops(words)
    BY <1>4, <2>1, <2>3, <2>4 DEF Stops, Rejected
  <2> QED BY <2>1, <2>2, <2>5
<1>5. ASSUME m = n + 1, words[n] \notin Valued, words[n] \notin HelpFlag,
             words[n] \notin Dashed \ Known
      PROVE  ReadsOn(words, n, m) /\ n \notin Stops(words)
  BY <1>1, <1>2, <1>3, <1>5 DEF ReadsOn, Stops, Rejected
<1>6. ASSUME ReadsOn(words, n, m)
      PROVE  IF words[n] = "--transport"
             THEN Before(words, "--transport", m) # {}
             ELSE Before(words, "--transport", m) =
                    Before(words, "--transport", n)
  BY <1>6, WordRead
<1>7. CASE ReadRole(r)
  <2>1. /\ words[n] = "--role"
        /\ TakeValue(r) /\ ~ BadValue(words[n], Value(r))
        /\ cfg' = [cfg EXCEPT ![r].role = IF Value(r) = "a" THEN "A" ELSE "B"]
    BY <1>7, FlagsDiffer DEF ReadRole, AtWord, BadValue
  <2>2. /\ ReadsOn(words, n, m) /\ n \notin Stops(words)
        /\ Value(r) = words[n + 1]
    BY <1>4, <2>1, FlagsDiffer
  <2>3. cfg'[r] = [cfg[r] EXCEPT !.role = IF Value(r) = "a" THEN "A" ELSE "B"]
    BY <1>1, <2>1
  <2>4. SettingsBefore(words, m, r) =
          [SettingsBefore(words, n, r) EXCEPT
             !.role = IF words[n + 1] = "a" THEN "A" ELSE "B"]
    BY <2>1, <2>2, SettingsGrow
  <2>5. cfg'[r] = SettingsBefore(words, m, r)
    BY <1>3, <2>2, <2>3, <2>4
  <2>6. words[n] # "--transport" /\ UNCHANGED transport_set
    BY <1>7, <2>1, FlagsDiffer DEF ReadRole
  <2> QED BY <1>2, <1>3, <1>6, <2>2, <2>5, <2>6
<1>8. CASE ReadTransport(r)
  <2>1. /\ words[n] = "--transport"
        /\ TakeValue(r) /\ ~ BadValue(words[n], Value(r))
        /\ cfg' = [cfg EXCEPT ![r].transport = Value(r)]
    BY <1>8, FlagsDiffer DEF ReadTransport, AtWord, BadValue
  <2>2. /\ ReadsOn(words, n, m) /\ n \notin Stops(words)
        /\ Value(r) = words[n + 1]
    BY <1>4, <2>1, FlagsDiffer
  <2>3. cfg'[r] = [cfg[r] EXCEPT !.transport = Value(r)]
    BY <1>1, <2>1
  <2>4. SettingsBefore(words, m, r) =
          [SettingsBefore(words, n, r) EXCEPT !.transport = words[n + 1]]
    BY <2>1, <2>2, SettingsGrow
  <2>5. cfg'[r] = SettingsBefore(words, m, r)
    BY <1>3, <2>2, <2>3, <2>4
  <2>6. transport_set'[r] = TRUE
    BY <1>1, <1>8 DEF ReadTransport
  <2> QED BY <1>2, <1>6, <2>1, <2>2, <2>5, <2>6
<1>9. CASE ReadText(r)
  <2>1. /\ words[n] \in TextFlag
        /\ TakeValue(r) /\ ~ BadValue(words[n], Value(r))
        /\ cfg' = [cfg EXCEPT ![r].text[words[n]] = Value(r)]
    BY <1>9, FlagsDiffer DEF ReadText, AtWord, BadValue
  <2>2. /\ ReadsOn(words, n, m) /\ n \notin Stops(words)
        /\ Value(r) = words[n + 1]
    BY <1>4, <2>1, FlagsDiffer
  <2>3. cfg'[r] = [cfg[r] EXCEPT !.text[words[n]] = Value(r)]
    BY <1>1, <2>1
  <2>4. SettingsBefore(words, m, r) =
          [SettingsBefore(words, n, r) EXCEPT !.text[words[n]] = words[n + 1]]
    BY <2>1, <2>2, SettingsGrow
  <2>5. cfg'[r] = SettingsBefore(words, m, r)
    BY <1>3, <2>2, <2>3, <2>4
  <2>6. words[n] # "--transport" /\ UNCHANGED transport_set
    BY <1>9, <2>1, FlagsDiffer DEF ReadText
  <2> QED BY <1>2, <1>3, <1>6, <2>2, <2>5, <2>6
<1>10. CASE ReadNumber(r)
  <2>1. /\ words[n] \in NumberFlag
        /\ TakeValue(r) /\ ~ BadValue(words[n], Value(r))
        /\ cfg' = [cfg EXCEPT ![r].number[words[n]] =
                                 Converted(words[n], Value(r))]
    BY <1>10, FlagsDiffer DEF ReadNumber, AtWord, BadValue
  <2>2. /\ ReadsOn(words, n, m) /\ n \notin Stops(words)
        /\ Value(r) = words[n + 1]
    BY <1>4, <2>1, FlagsDiffer
  <2>3. cfg'[r] = [cfg[r] EXCEPT !.number[words[n]] =
                                   Converted(words[n], Value(r))]
    BY <1>1, <2>1
  <2>4. SettingsBefore(words, m, r) =
          [SettingsBefore(words, n, r) EXCEPT
             !.number[words[n]] = Converted(words[n], words[n + 1])]
    BY <2>1, <2>2, SettingsGrow
  <2>5. cfg'[r] = SettingsBefore(words, m, r)
    BY <1>3, <2>2, <2>3, <2>4
  <2>6. words[n] # "--transport" /\ UNCHANGED transport_set
    BY <1>10, <2>1, FlagsDiffer DEF ReadNumber
  <2> QED BY <1>2, <1>3, <1>6, <2>2, <2>5, <2>6
<1>11. CASE ReadBusyPoll(r)
  <2>1. /\ words[n] = "--busy-poll" /\ m = n + 1
        /\ cfg' = [cfg EXCEPT ![r].busy_poll = TRUE]
        /\ UNCHANGED transport_set
    BY <1>1, <1>11 DEF ReadBusyPoll, AtWord
  <2>2. ReadsOn(words, n, m) /\ n \notin Stops(words)
    BY <1>5, <2>1, FlagsDiffer, FlagsKnown
  <2>3. cfg'[r] = Polling(cfg[r])
    BY <1>1, <2>1 DEF Polling
  <2>4. SettingsBefore(words, m, r) = Polling(SettingsBefore(words, n, r))
    BY <2>1, <2>2, SettingsGrow
  <2>5. cfg'[r] = SettingsBefore(words, m, r)
    BY <1>3, <2>3, <2>4
  <2> QED BY <1>2, <1>3, <1>6, <2>1, <2>2, <2>5
<1>12. CASE PassOver(r)
  <2>1. /\ words[n] \notin Dashed \cup HelpFlag /\ m = n + 1
        /\ UNCHANGED << cfg, transport_set >>
    BY <1>1, <1>12 DEF PassOver
  <2>2. words[n] \notin Known /\ words[n] # "--transport"
    BY <2>1, FlagsKnown, FlagsDiffer
  <2>3. ReadsOn(words, n, m) /\ n \notin Stops(words)
    BY <1>5, <2>1, <2>2, FlagsKnown
  <2>4. cfg'[r] = SettingsBefore(words, m, r)
    BY <1>3, <2>1, <2>2, <2>3, SettingsGrow
  <2> QED BY <1>2, <1>3, <1>6, <2>1, <2>2, <2>3, <2>4
<1> QED BY <1>7, <1>8, <1>9, <1>10, <1>11, <1>12 DEF Parses

(* ReadInv of a program whose state does not change.                       *)
LEMMA ReadFrame ==
  ASSUME NEW q \in Role, ReadInv(q), args' = args, i'[q] = i[q],
         cfg'[q] = cfg[q], transport_set'[q] = transport_set[q],
         at'[q] = at[q], tx'[q] = tx[q]
  PROVE  ReadInv(q)'
BY DEF ReadInv

(* The first word that stops the program decides how it ends.              *)
LEMMA FirstStop ==
  ASSUME NEW words, NEW r, NEW n \in Stops(words), n \in Nat,
         \A j \in Stops(words) : j \in Nat /\ n <= j
  PROVE  Outcome(words, r) =
           IF words[n] \in HelpFlag THEN "helped" ELSE "failed"
<1> DEFINE S == Stops(words)
<1>1. n \in S /\ \A j \in S : n <= j
  OBVIOUS
<1>2. \A m \in S : (\A j \in S : m <= j) => m = n
  BY <1>1
<1> HIDE DEF S
<1>3. FirstOf(S) = n
  BY <1>1, <1>2 DEF FirstOf
<1> QED BY <1>1, <1>3 DEF Outcome, S

(* Where the words stop a program.                                         *)
LEMMA StopsAreWords ==
  ASSUME NEW words \in Seq(Word)
  PROVE  Stops(words) \subseteq 1 .. Len(words)
BY LenProperties DEF Stops

(* Every step of a program keeps its ReadInv.                              *)
LEMMA ReadStep ==
  ASSUME LaunchInv, AllRead, NEW r \in Role,
         \/ Parses(r) \/ Help(r) \/ RejectWord(r) \/ EndOfWords(r)
         \/ RejectConfig(r) \/ Accept(r) \/ RejectByTransport(r)
         \/ Build(r) \/ InitRos(r) \/ InitRosFails(r)
  PROVE  ReadInv(r)'
<1> DEFINE words == args[r]
           n == i[r]
<1>1. /\ words \in Seq(Word) /\ Len(words) \in Nat
      /\ DOMAIN words = 1 .. Len(words) /\ n \in 1 .. Len(words) + 1
  BY LenProperties DEF LaunchInv, TypeOK
<1>2. n \in Nat /\ (n <= Len(words) => n \in DOMAIN words)
  BY <1>1
<1>3. /\ i \in [Role -> Nat] /\ cfg \in [Role -> CliConfig]
      /\ at \in [Role -> { "parse", "parsed", "run", "built", "up", "failed",
                           "no ros", "helped" }]
      /\ transport_set \in [Role -> BOOLEAN]
      /\ DOMAIN tx = Role
  BY DEF LaunchInv, TypeOK
<1>4. ReadInv(r)
  BY DEF AllRead
<1>5. \A j \in Stops(words) : j \in Nat /\ j <= Len(words)
  BY <1>1, StopsAreWords
<1>6. ASSUME NEW how, Stop(r, how)
      PROVE  /\ at'[r] = how
             /\ UNCHANGED << args, cfg, transport_set, i, tx >>
  BY <1>3, <1>6 DEF Stop
<1>7. at[r] = "parse" =>
         /\ ~ IsValue(words, n) /\ \A j \in Stops(words) : j \in Nat /\ n <= j
         /\ cfg[r] = SettingsBefore(words, n, r)
         /\ transport_set[r] = (Before(words, "--transport", n) # {})
  BY <1>4, <1>5 DEF ReadInv
<1>8. CASE Parses(r)
  <2>1. /\ at[r] = "parse" /\ args' = args /\ at' = at
        /\ ReadsOn(words, n, i'[r]) /\ n \notin Stops(words)
        /\ cfg'[r] = SettingsBefore(words, i'[r], r)
        /\ transport_set'[r] = (Before(words, "--transport", i'[r]) # {})
    BY <1>8, <1>4, ParseReadsOn DEF LaunchInv
  <2>2. \A j \in Stops(words) : n <= j
    BY <1>7, <2>1
  <2>3. ~ IsValue(words, i'[r]) /\ \A j \in Stops(words) : i'[r] <= j
    BY <2>1, <2>2, WordRead
  <2> QED BY <2>1, <2>3 DEF ReadInv
<1>9. CASE Help(r)
  <2>1. /\ at[r] = "parse" /\ n <= Len(words) /\ words[n] \in HelpFlag
        /\ Stop(r, "helped")
    BY <1>9 DEF Help, AtWord
  <2>2. n \in Stops(words)
    BY <1>7, <1>2, <2>1 DEF Stops
  <2>3. Outcome(words, r) = "helped"
    BY <1>7, <2>1, <2>2, FirstStop
  <2> QED BY <1>6, <2>1, <2>3 DEF ReadInv
<1>10. CASE RejectWord(r)
  <2>1. /\ at[r] = "parse" /\ n <= Len(words) /\ Stop(r, "failed")
    BY <1>10 DEF RejectWord, AtWord
  <2>2. Rejected(words, n) /\ words[n] \notin HelpFlag
    BY <1>1, <1>10, <2>1, FlagsDiffer, FlagsKnown
    DEF RejectWord, AtWord, HasValue, Value, Rejected
  <2>3. n \in Stops(words)
    BY <1>7, <1>2, <2>1, <2>2 DEF Stops
  <2>4. Outcome(words, r) = "failed"
    BY <1>7, <2>1, <2>2, <2>3, FirstStop
  <2> QED BY <1>6, <2>1, <2>4 DEF ReadInv
<1>11. CASE EndOfWords(r)
  <2>1. at[r] = "parse" /\ n = Len(words) + 1 /\ Stop(r, "parsed")
    BY <1>1, <1>11 DEF EndOfWords
  <2>2. Stops(words) = {}
    BY <1>1, <1>7, <1>5, <2>1
  <2>3. Before(words, "--transport", n) = GivenIn(words, "--transport")
    BY <1>1, <2>1 DEF Before, GivenIn
  <2>4. at'[r] = "parsed" /\ args' = args
    BY <1>6, <2>1
  <2>5. cfg'[r] = Settings(words, r)
    BY <1>6, <1>7, <2>1 DEF Settings
  <2>6. transport_set'[r] = (GivenIn(words, "--transport") # {})
    BY <1>6, <1>7, <2>1, <2>3
  <2> QED BY <2>2, <2>4, <2>5, <2>6 DEF ReadInv
<1>12. CASE RejectConfig(r)
  <2>1. at[r] = "parsed" /\ Incomplete(r) /\ Stop(r, "failed")
    BY <1>12 DEF RejectConfig
  <2>2. Stops(words) = {} /\ Lacking(words, r)
    BY <1>4, <2>1 DEF ReadInv, Lacking, Incomplete
  <2>3. Outcome(words, r) = "failed"
    BY <2>2 DEF Outcome
  <2> QED BY <1>6, <2>1, <2>3 DEF ReadInv
<1>13. CASE Accept(r)
  <2>1. /\ at[r] = "parsed" /\ ~ Incomplete(r) /\ at'[r] = "run"
        /\ cfg'[r] = [WithPorts(cfg[r]) EXCEPT !.role = r]
        /\ args' = args
    BY <1>3, <1>13 DEF Accept
  <2>2. Stops(words) = {} /\ ~ Lacking(words, r)
    BY <1>4, <2>1 DEF ReadInv, Lacking, Incomplete
  <2>3. cfg'[r] = RunsWith(words, r)
    BY <1>4, <2>1 DEF ReadInv, RunsWith
  <2> QED BY <2>1, <2>2, <2>3 DEF ReadInv
<1>14. CASE RejectByTransport(r)
  <2>1. at[r] = "run" /\ RefusedByTransport(cfg[r]) /\ Stop(r, "failed")
    BY <1>14 DEF RejectByTransport
  <2>2. Outcome(words, r) = "failed"
    BY <1>4, <2>1 DEF ReadInv, Outcome
  <2> QED BY <1>6, <2>1, <2>2 DEF ReadInv
<1>15. CASE Build(r)
  <2>1. /\ at[r] = "run" /\ at'[r] = "built" /\ tx'[r] = Built(cfg[r])
        /\ ~ RefusedByTransport(cfg[r]) /\ cfg' = cfg /\ args' = args
    BY <1>3, <1>15 DEF Build
  <2> QED BY <1>4, <2>1 DEF ReadInv
<1>16. CASE InitRos(r)
  <2>1. /\ at[r] = "built" /\ at'[r] = "up" /\ tx' = tx
        /\ cfg' = cfg /\ args' = args
    BY <1>3, <1>16 DEF InitRos
  <2> QED BY <1>4, <2>1 DEF ReadInv
<1>17. CASE InitRosFails(r)
  <2>1. at[r] = "built" /\ Stop(r, "no ros")
    BY <1>17 DEF InitRosFails
  <2>2. at'[r] = "no ros" /\ UNCHANGED << args, cfg, tx >>
    BY <1>6, <2>1
  <2> QED BY <1>4, <2>1, <2>2 DEF ReadInv
<1> QED
  BY <1>8, <1>9, <1>10, <1>11, <1>12, <1>13, <1>14, <1>15, <1>16, <1>17

(* Nothing is read yet, and every setting has its default.                 *)
LEMMA ReadBegins ==
  ASSUME NEW lines \in [Role -> Seq(Word)], NEW middleware,
         Begin(lines, middleware)
  PROVE  AllRead
<1> SUFFICES ASSUME NEW r \in Role PROVE ReadInv(r)
  BY DEF AllRead
<1> DEFINE words == lines[r]
<1>1. /\ args[r] = words /\ i[r] = 1 /\ at[r] = "parse"
      /\ transport_set[r] = FALSE
      /\ cfg[r] = [ role |-> r, transport |-> "ros2_be", busy_poll |-> FALSE,
                    text |-> DefaultText, number |-> DefaultNumber ]
  BY DEF Begin
<1>2. DOMAIN words \subseteq Nat \ {0}
  BY LenProperties
<1>3. \A f : Before(words, f, 1) = {}
  BY <1>2 DEF Before, GivenIn
<1>4. BusyPollBefore(words, 1) = FALSE
  BY <1>3 DEF BusyPollBefore
<1>5. /\ TextBefore(words, 1) = DefaultText
      /\ NumberBefore(words, 1) = DefaultNumber
  <2>1. DefaultText = [f \in TextFlag |-> DefaultText[f]]
    BY DefaultsAreTyped
  <2>2. DefaultNumber = [f \in NumberFlag |-> DefaultNumber[f]]
    BY DefaultsAreTyped
  <2>3. TextBefore(words, 1) = [f \in TextFlag |-> DefaultText[f]]
    BY <1>3 DEF TextBefore
  <2>4. NumberBefore(words, 1) = [f \in NumberFlag |-> DefaultNumber[f]]
    BY <1>3 DEF NumberBefore
  <2> QED BY <2>1, <2>2, <2>3, <2>4
<1>6. RoleBefore(words, 1, r) = r /\ TransportBefore(words, 1) = "ros2_be"
  BY <1>3 DEF RoleBefore, TransportBefore
<1>7. cfg[r] = SettingsBefore(words, 1, r)
  BY <1>1, <1>4, <1>5, <1>6 DEF SettingsBefore
<1>8. \A j \in Stops(words) : 1 <= j
  BY <1>2 DEF Stops
<1>9. ~ IsValue(words, 1)
  BY IsValueAfter
<1>10. transport_set[r] = (Before(words, "--transport", 1) # {})
  BY <1>1, <1>3
<1> HIDE DEF words
<1> QED BY <1>1, <1>7, <1>8, <1>9, <1>10 DEF ReadInv

\* A step of one program.
Acts(r) ==
  \/ Parses(r) \/ Help(r) \/ RejectWord(r) \/ EndOfWords(r)
  \/ RejectConfig(r) \/ Accept(r) \/ RejectByTransport(r)
  \/ Build(r) \/ InitRos(r) \/ InitRosFails(r)

(* A step of one program changes nothing of the other.                     *)
LEMMA OthersStay ==
  ASSUME LaunchInv, NEW r \in Role, Acts(r), NEW q \in Role, q # r
  PROVE  /\ args' = args /\ i'[q] = i[q] /\ cfg'[q] = cfg[q]
         /\ transport_set'[q] = transport_set[q] /\ at'[q] = at[q]
         /\ tx'[q] = tx[q]
<1>1. /\ i \in [Role -> Nat] /\ cfg \in [Role -> CliConfig]
      /\ DOMAIN at = Role /\ DOMAIN transport_set = Role /\ DOMAIN tx = Role
  BY DEF LaunchInv, TypeOK
<1>2. ASSUME NEW how, Stop(r, how)
      PROVE  /\ UNCHANGED << args, i, cfg, transport_set, tx >>
             /\ at'[q] = at[q]
  BY <1>1, <1>2 DEF Stop
<1>3. CASE Parses(r)
  BY <1>1, <1>3
  DEF Parses, ReadRole, ReadTransport, ReadText, ReadNumber, ReadBusyPoll,
      PassOver, TakeValue
<1>4. CASE Accept(r)
  BY <1>1, <1>4 DEF Accept
<1>5. CASE Build(r)
  BY <1>1, <1>5 DEF Build
<1>6. CASE InitRos(r)
  BY <1>1, <1>6 DEF InitRos
<1>7. CASE \E how : Stop(r, how)
  BY <1>2, <1>7
<1> QED
  BY <1>3, <1>4, <1>5, <1>6, <1>7
  DEF Acts, Help, RejectWord, EndOfWords, RejectConfig, RejectByTransport,
      InitRosFails

(* Every step of either program.                                           *)
LEMMA AllReadStep == LaunchInv /\ AllRead /\ [Next]_vars => AllRead'
<1> SUFFICES ASSUME LaunchInv, AllRead, [Next]_vars PROVE AllRead'
  OBVIOUS
<1>1. CASE UNCHANGED vars
  BY <1>1 DEF AllRead, ReadInv, vars
<1>2. CASE Next
  <2>1. PICK r \in Role : Acts(r)
    BY <1>2 DEF Next, Acts, Parses
  <2>2. ReadInv(r)'
    BY <2>1, ReadStep DEF Acts
  <2>3. ASSUME NEW q \in Role, q # r
        PROVE  ReadInv(q)'
    BY <2>1, <2>3, OthersStay, ReadFrame DEF AllRead
  <2> QED BY <2>2, <2>3 DEF AllRead
<1> QED BY <1>1, <1>2

\* Called by the script, the programs have the words of the call.
CallInv ==
  Called =>
    /\ call \in CallPairs
    /\ args = [r \in Role |-> ScriptArgs(call[r])]
    /\ rmw = [r \in Role |-> ScriptRmw(call[r])]

(* The words and the middleware of a pair of calls are of their types.     *)
LEMMA CallsFit ==
  ASSUME call \in CallPairs
  PROVE  /\ [r \in Role |-> ScriptArgs(call[r])] \in [Role -> Seq(Word)]
         /\ [r \in Role |-> ScriptRmw(call[r])] \in [Role -> Rmw]
<1>1. \A r \in Role : call[r] \in Calls /\ ~ Refused(call[r])
  BY DEF CallPairs
<1> QED BY <1>1, ScriptWords

(* The three invariants hold from the start on.                            *)
LEMMA ReadInvHolds == ScriptSpec => [](LaunchInv /\ AllRead /\ CallInv)
<1>1. ScriptInit => AllRead /\ CallInv
  <2> SUFFICES ASSUME ScriptInit PROVE AllRead /\ CallInv
    OBVIOUS
  <2>1. CASE /\ call \in CallPairs
             /\ Begin([r \in Role |-> ScriptArgs(call[r])],
                      [r \in Role |-> ScriptRmw(call[r])])
    BY <2>1, CallsFit, ReadBegins DEF CallInv, Begin
  <2>2. CASE call = NotCalled /\ Init
    BY <2>2, LaunchAssumption, ReadBegins DEF CallInv, Called, Init
  <2> QED BY <2>1, <2>2 DEF ScriptInit
<1>2. /\ LaunchInv /\ AllRead /\ CallInv /\ [ScriptNext]_<< vars, call >>
      => AllRead'
  BY AllReadStep DEF ScriptNext
<1>3. LaunchInv /\ CallInv /\ [ScriptNext]_<< vars, call >> => CallInv'
  <2> SUFFICES ASSUME LaunchInv, CallInv, [ScriptNext]_<< vars, call >>
               PROVE  CallInv'
    OBVIOUS
  <2>1. call' = call /\ args' = args /\ rmw' = rmw
    <3>1. CASE UNCHANGED << vars, call >>
      BY <3>1 DEF vars
    <3>2. CASE ScriptNext
      BY <3>2
      DEF ScriptNext, Next, ReadRole, ReadTransport, ReadText, ReadNumber,
          ReadBusyPoll, PassOver, Help, RejectWord, EndOfWords, RejectConfig,
          Accept, RejectByTransport, Build, InitRos, InitRosFails, Stop
    <3> QED BY <3>1, <3>2
  <2> QED BY <2>1 DEF CallInv, Called
<1> QED BY LaunchInvHolds, <1>1, <1>2, <1>3, PTL DEF ScriptSpec

(* Whatever the words are, the loop of parse_cli that steps over values,   *)
(* overwrites settings and skips stray words leaves for every setting the  *)
(* last value given for it, or its default.                                *)
THEOREM WordsAreParsedAsGiven == ScriptSpec => []ParsedAsGiven
<1>1. LaunchInv /\ AllRead => ParsedAsGiven
  <2> SUFFICES ASSUME LaunchInv, AllRead, NEW r \in Role, at[r] = "parsed"
               PROVE  /\ cfg[r].role =
                           IF IsGiven(r, "--role")
                           THEN IF LastGiven(r, "--role") = "a"
                                THEN "A" ELSE "B"
                           ELSE r
                      /\ \A f \in TextFlag : cfg[r].text[f] =
                           IF IsGiven(r, f) THEN LastGiven(r, f)
                                            ELSE DefaultText[f]
                      /\ \A f \in NumberFlag : cfg[r].number[f] =
                           IF IsGiven(r, f)
                           THEN Converted(f, LastGiven(r, f))
                           ELSE DefaultNumber[f]
                      /\ cfg[r].transport =
                           IF IsGiven(r, "--transport")
                           THEN LastGiven(r, "--transport") ELSE "ros2_be"
                      /\ cfg[r].busy_poll = IsGiven(r, "--busy-poll")
    BY DEF ParsedAsGiven
  <2> DEFINE words == args[r]
             n == Len(words) + 1
  <2>1. cfg[r] = SettingsBefore(words, n, r)
    BY DEF AllRead, ReadInv, Settings
  <2>2. \A f : Before(words, f, n) = Given(r, f)
    <3>1. Len(words) \in Nat /\ DOMAIN words = 1 .. Len(words)
      BY LenProperties DEF LaunchInv, TypeOK
    <3> QED BY <3>1 DEF Before, GivenIn, Given
  <2>3. \A f : LastOf(words, Given(r, f)) = LastGiven(r, f)
    BY DEF LastOf, LastGiven
  <2>4. /\ cfg[r].text = TextBefore(words, n)
        /\ cfg[r].number = NumberBefore(words, n)
        /\ cfg[r].transport = TransportBefore(words, n)
        /\ cfg[r].busy_poll = BusyPollBefore(words, n)
        /\ cfg[r].role = RoleBefore(words, n, r)
    BY <2>1 DEF SettingsBefore
  <2> HIDE DEF words, n
  <2>5. \A f \in TextFlag : cfg[r].text[f] =
                           IF IsGiven(r, f) THEN LastGiven(r, f)
                                            ELSE DefaultText[f]
    BY <2>2, <2>3, <2>4 DEF TextBefore, IsGiven
  <2>6. \A f \in NumberFlag : cfg[r].number[f] =
                           IF IsGiven(r, f)
                           THEN Converted(f, LastGiven(r, f))
                           ELSE DefaultNumber[f]
    BY <2>2, <2>3, <2>4 DEF NumberBefore, IsGiven
  <2>7. cfg[r].transport = IF IsGiven(r, "--transport")
                           THEN LastGiven(r, "--transport") ELSE "ros2_be"
    BY <2>2, <2>3, <2>4 DEF TransportBefore, IsGiven
  <2>8. cfg[r].busy_poll = IsGiven(r, "--busy-poll")
    BY <2>2, <2>4 DEF BusyPollBefore, IsGiven
  <2>9. cfg[r].role = IF IsGiven(r, "--role")
                      THEN IF LastGiven(r, "--role") = "a" THEN "A" ELSE "B"
                      ELSE r
    BY <2>2, <2>3, <2>4 DEF RoleBefore, IsGiven
  <2> QED BY <2>5, <2>6, <2>7, <2>8, <2>9
<1> QED BY ReadInvHolds, <1>1, PTL

(* How a program ends is a function of its words.                          *)
LEMMA AtIsOutcome ==
  ASSUME NEW r \in Role, ReadInv(r), Ended(r), at[r] # "no ros"
  PROVE  at[r] = Outcome(args[r], r)
BY DEF ReadInv, Ended, Outcome

(* The settings that a program runs with, field by field.                  *)
LEMMA RunSettings ==
  ASSUME NEW words, NEW r \in Role
  PROVE  LET c == RunsWith(words, r)
             n == Len(words) + 1
         IN  /\ c.role = r
             /\ c.transport = TransportBefore(words, n)
             /\ c.text = TextBefore(words, n)
             /\ \A f \in NumberFlag : c.number[f] =
                  IF /\ f \in {"--local-port", "--peer-port"}
                     /\ TransportBefore(words, n) = "raw_udp"
                     /\ NumberBefore(words, n)[f] = 0
                  THEN DefaultPort(RoleBefore(words, n, r), f)
                  ELSE NumberBefore(words, n)[f]
BY DEF RunsWith, WithPorts, Settings, SettingsBefore

(* Ports that are not given are those of the role of the program.          *)
LEMMA OpenPorts ==
  ASSUME NEW words \in Seq(Word), NEW r \in Role,
         GivenIn(words, "--role") = {},
         \A f \in {"--local-port", "--peer-port"} : GivenIn(words, f) = {},
         RunsWith(words, r).transport = "raw_udp"
  PROVE  \A f \in {"--local-port", "--peer-port"} :
           RunsWith(words, r).number[f] = DefaultPort(r, f)
<1> DEFINE n == Len(words) + 1
<1>1. RoleBefore(words, n, r) = r
  BY DEF RoleBefore, Before
<1>2. \A f \in {"--local-port", "--peer-port"} :
        f \in NumberFlag /\ DefaultNumber[f] = 0
  BY DEF NumberFlag, PortFlag, DefaultNumber
<1>3. \A f \in {"--local-port", "--peer-port"} : NumberBefore(words, n)[f] = 0
  BY <1>2 DEF NumberBefore, Before
<1> HIDE DEF n
<1> QED BY <1>1, <1>2, <1>3, RunSettings DEF n

(* With the same words, and no word about role or ports, both programs end *)
(* the same way.                                                           *)
LEMMA SameWordsSameEnd ==
  ASSUME NEW words \in Seq(Word), GivenIn(words, "--role") = {},
         \A f \in {"--local-port", "--peer-port"} : GivenIn(words, f) = {}
  PROVE  Outcome(words, "A") = Outcome(words, "B")
<1> DEFINE c(r) == RunsWith(words, r)
<1>1. /\ c("A").transport = c("B").transport /\ c("A").text = c("B").text
      /\ Lacking(words, "A") <=> Lacking(words, "B")
  BY RunSettings DEF Role, Lacking, Settings, SettingsBefore
<1>2. ASSUME NEW r \in Role
      PROVE  RefusedByTransport(c(r)) <=>
               c(r).transport = "raw_udp" /\ c(r).text["--peer-ip"] = ""
  <2>1. ASSUME c(r).transport = "raw_udp"
        PROVE  c(r).number["--local-port"] # 0 /\ c(r).number["--peer-port"] # 0
    BY <2>1, OpenPorts DEF DefaultPort
  <2> HIDE DEF c
  <2> QED BY <2>1 DEF RefusedByTransport
<1>3. RefusedByTransport(c("A")) <=> RefusedByTransport(c("B"))
  BY <1>1, <1>2 DEF Role
<1> QED BY <1>1, <1>3 DEF Outcome

(* What the transport takes from the settings.                             *)
LEMMA BuiltFields ==
  ASSUME NEW c
  PROVE  /\ c.transport = "raw_udp" =>
              /\ Built(c).kind = "raw_udp"
              /\ Built(c).local_port = c.number["--local-port"]
              /\ Built(c).peer_port = c.number["--peer-port"]
         /\ c.transport # "raw_udp" =>
              /\ Built(c).kind # "raw_udp"
              /\ Built(c).out_topic = Topic(c.role)
              /\ Built(c).in_topic = Topic(Peer(c.role))
BY DEF Built

(* The default ports of the two roles are each other's.                    *)
LEMMA DefaultPorts ==
  /\ DefaultPort("A", "--local-port") = 18000
  /\ DefaultPort("A", "--peer-port") = 18001
  /\ DefaultPort("B", "--local-port") = 18001
  /\ DefaultPort("B", "--peer-port") = 18000
BY DEF DefaultPort

(* Two sockets of which one sends to the other.                            *)
LEMMA UdpEndsReach ==
  ASSUME NEW a, NEW b, a.kind = "raw_udp", b.kind = "raw_udp",
         a.peer_port = b.local_port, a.local_port # b.local_port
  PROVE  Reaches(a, b)
BY DEF Reaches

(* Two nodes of which one publishes what the other subscribes to.          *)
LEMMA TopicEndsReach ==
  ASSUME NEW a, NEW b, a.kind # "raw_udp",
         a.out_topic = b.in_topic, a.out_topic # b.out_topic
  PROVE  Reaches(a, b)
BY DEF Reaches

(* Transports of one kind, of the two roles, with crossed ports.           *)
LEMMA BuiltEndsMeet ==
  ASSUME NEW c, NEW d, c.role = "A", d.role = "B", c.transport = d.transport,
         c.transport = "raw_udp" =>
           /\ c.number["--peer-port"] = d.number["--local-port"]
           /\ d.number["--peer-port"] = c.number["--local-port"]
           /\ c.number["--local-port"] # d.number["--local-port"]
  PROVE  Reaches(Built(c), Built(d)) /\ Reaches(Built(d), Built(c))
<1>1. CASE c.transport = "raw_udp"
  BY <1>1, BuiltFields, UdpEndsReach
<1>2. CASE c.transport # "raw_udp"
  <2>1. /\ Topic("A") # Topic("B") /\ Peer("A") = "B" /\ Peer("B") = "A"
    BY DEF Topic, Peer
  <2> QED BY <1>2, <2>1, BuiltFields, TopicEndsReach
<1> QED BY <1>1, <1>2

(* With the same words, and no word about role or ports, the transports of *)
(* the two programs reach each other.                                      *)
LEMMA SameWordsMeet ==
  ASSUME NEW words \in Seq(Word), GivenIn(words, "--role") = {},
         \A f \in {"--local-port", "--peer-port"} : GivenIn(words, f) = {}
  PROVE  LET a == Built(RunsWith(words, "A"))
             b == Built(RunsWith(words, "B"))
         IN  Reaches(a, b) /\ Reaches(b, a)
<1> DEFINE c == RunsWith(words, "A")
           d == RunsWith(words, "B")
<1>1. c.role = "A" /\ d.role = "B" /\ c.transport = d.transport
  BY RunSettings DEF Role
<1>2. ASSUME c.transport = "raw_udp"
      PROVE  /\ c.number["--local-port"] = 18000
             /\ c.number["--peer-port"] = 18001
             /\ d.number["--local-port"] = 18001
             /\ d.number["--peer-port"] = 18000
  BY <1>1, <1>2, OpenPorts, DefaultPorts DEF Role
<1> HIDE DEF c, d
<1>3. c.transport = "raw_udp" =>
        /\ c.number["--peer-port"] = d.number["--local-port"]
        /\ d.number["--peer-port"] = c.number["--local-port"]
        /\ c.number["--local-port"] # d.number["--local-port"]
  BY <1>2
<1>4. Reaches(Built(c), Built(d)) /\ Reaches(Built(d), Built(c))
  BY <1>1, <1>3, BuiltEndsMeet
<1> QED BY <1>4 DEF c, d

(* EndsMeet follows from what the words say.                               *)
LEMMA EndsMeetOnceRead == LaunchInv /\ AllRead => EndsMeet
<1> SUFFICES ASSUME LaunchInv, AllRead,
                    \A r \in Role : Ended(r) /\ at[r] # "no ros",
                    args["A"] = args["B"],
                    ~ PortsGiven, ~ IsGiven("A", "--role")
             PROVE  /\ at["A"] = at["B"]
                    /\ at["A"] = "up" => MeetEachOther
  BY DEF EndsMeet
<1> DEFINE words == args["A"]
<1>1. words \in Seq(Word)
  BY DEF LaunchInv, TypeOK, Role
<1>2. /\ GivenIn(words, "--role") = {}
      /\ \A f \in {"--local-port", "--peer-port"} : GivenIn(words, f) = {}
  BY DEF PortsGiven, IsGiven, Given, GivenIn
<1>3. \A r \in Role : args[r] = words /\ ReadInv(r)
  BY DEF Role, AllRead
<1> HIDE DEF words
<1>4. \A r \in Role : at[r] = Outcome(words, r)
  BY <1>3, AtIsOutcome
<1>5. at["A"] = at["B"]
  BY <1>1, <1>2, <1>4, SameWordsSameEnd DEF Role
<1>6. ASSUME at["A"] = "up"
      PROVE  MeetEachOther
  <2>1. \A r \in Role : tx[r] = Built(RunsWith(words, r))
    BY <1>3, <1>5, <1>6 DEF ReadInv, Role
  <2> QED BY <1>1, <1>2, <2>1, SameWordsMeet DEF MeetEachOther, Role
<1> QED BY <1>5, <1>6

(* Two programs started with the same words, role and ports left to them,  *)
(* end the same way, and if they come up each sends to where the other one *)
(* listens: whatever the words are, in any order of the steps.             *)
THEOREM BothEndsMeet == ScriptSpec => []EndsMeet
<1> QED BY ReadInvHolds, EndsMeetOnceRead, PTL

---------------------------------------------------------------------------
(* The words of the script.                                                *)

\* Flags and their values take turns.
Phrased(words) ==
  /\ words \in Seq(Word) /\ Len(words) % 2 = 0
  /\ \A j \in DOMAIN words : j % 2 = 1 => words[j] \in Valued

Flags(words) == {j \in DOMAIN words : j % 2 = 1}

\* The flags with their values.
Phrases(words) == {<< words[j], words[j + 1] >> : j \in Flags(words)}

(* Among flags that all take a value, every second word is a value.        *)
LEMMA PhrasedValues ==
  ASSUME NEW words, Phrased(words), NEW j \in DOMAIN words
  PROVE  IsValue(words, j) <=> j % 2 = 0
<1> DEFINE T == {k \in DOMAIN words : ~ (IsValue(words, k) <=> k % 2 = 0)}
<1>1. Len(words) \in Nat /\ DOMAIN words = 1 .. Len(words)
  BY LenProperties DEF Phrased
<1>2. ASSUME T # {} PROVE FALSE
  <2>1. T \subseteq Nat
    BY <1>1
  <2>2. PICK k \in T : \A l \in T : k <= l
    <3> HIDE DEF T
    <3> QED BY <1>2, <2>1, LeastNat
  <2>3. k # 1
    BY <2>2, IsValueAfter
  <2>4. k - 1 \in DOMAIN words /\ k - 1 \in Nat \ {0} /\ (k - 1) + 1 = k
    BY <1>1, <2>2, <2>3
  <2>5. k - 1 \notin T
    BY <1>1, <2>2
  <2>6. IsValue(words, k - 1) <=> (k - 1) % 2 = 0
    BY <2>4, <2>5
  <2>7. IsValue(words, k) <=>
          words[k - 1] \in Valued /\ ~ IsValue(words, k - 1)
    BY <2>4, IsValueAfter
  <2>8. /\ (k - 1) % 2 = 1 <=> ~ ((k - 1) % 2 = 0)
        /\ k % 2 = 0 <=> (k - 1) % 2 = 1
    BY <2>4
  <2>9. (k - 1) % 2 = 1 => words[k - 1] \in Valued
    BY <2>4 DEF Phrased
  <2> QED BY <2>2, <2>6, <2>7, <2>8, <2>9
<1> QED BY <1>2

(* Where a flag is given there, and which words stop the program.          *)
LEMMA PhrasedWords ==
  ASSUME NEW words, Phrased(words)
  PROVE  /\ \A f : GivenIn(words, f) = {j \in Flags(words) : words[j] = f}
         /\ Stops(words) =
              {j \in Flags(words) : BadValue(words[j], words[j + 1])}
<1>1. /\ Len(words) \in Nat /\ DOMAIN words = 1 .. Len(words)
      /\ Len(words) % 2 = 0
  BY LenProperties DEF Phrased
<1>2. \A j \in DOMAIN words : ~ IsValue(words, j) <=> j % 2 = 1
  BY <1>1, PhrasedValues
<1>3. ASSUME NEW j \in DOMAIN words, j % 2 = 1
      PROVE  /\ words[j] \in Valued /\ words[j] \notin HelpFlag
             /\ words[j] \notin Dashed \ Known /\ j # Len(words)
  BY <1>1, <1>3, FlagsDiffer, FlagsKnown DEF Phrased
<1>4. \A f : GivenIn(words, f) = {j \in Flags(words) : words[j] = f}
  BY <1>2 DEF GivenIn, Flags
<1>5. Stops(words) = {j \in Flags(words) : BadValue(words[j], words[j + 1])}
  BY <1>2, <1>3 DEF Stops, Rejected, Flags
<1> QED BY <1>4, <1>5

(* The latest of some words.                                               *)
LEMMA LatestWord ==
  ASSUME NEW n \in Nat, NEW S, S \subseteq 1 .. n, S # {}
  PROVE  (CHOOSE j \in S : \A k \in S : k <= j) \in S
<1> DEFINE T == {n - j : j \in S}
<1>1. T \subseteq Nat /\ T # {}
  OBVIOUS
<1>2. PICK t \in T : \A u \in T : t <= u
  <2> HIDE DEF T
  <2> QED BY <1>1, LeastNat
<1>3. PICK j \in S : t = n - j
  BY <1>2
<1>4. \A k \in S : n - k \in T
  OBVIOUS
<1> HIDE DEF T
<1>5. \A k \in S : k <= j
  BY <1>2, <1>3, <1>4
<1> QED BY <1>5

(* A flag that is given one value has it.                                  *)
LEMMA PhraseRead ==
  ASSUME NEW words, Phrased(words), NEW f, NEW v, << f, v >> \in Phrases(words),
         \A w : << f, w >> \in Phrases(words) => w = v
  PROVE  LET n == Len(words) + 1
         IN  /\ f = "--transport" => TransportBefore(words, n) = v
             /\ f \in TextFlag => TextBefore(words, n)[f] = v
             /\ f \in NumberFlag => NumberBefore(words, n)[f] = Converted(f, v)
<1> DEFINE n == Len(words) + 1
           S == {j \in Flags(words) : words[j] = f}
           m == CHOOSE j \in S : \A k \in S : k <= j
<1>1. Len(words) \in Nat /\ DOMAIN words = 1 .. Len(words)
  BY LenProperties DEF Phrased
<1>2. Before(words, f, n) = S
  BY <1>1, PhrasedWords DEF Before, Flags
<1>3. S # {} /\ S \subseteq 1 .. Len(words)
  BY <1>1 DEF Phrases, Flags
<1>4. m \in S
  <2> HIDE DEF S
  <2> QED BY <1>1, <1>3, LatestWord
<1>5. << words[m], words[m + 1] >> \in Phrases(words)
  BY <1>4 DEF Phrases
<1>6. words[m + 1] = v
  BY <1>4, <1>5
<1>7. LastOf(words, S) = v
  BY <1>1, <1>3, <1>4, <1>6, 1 + m = m + 1 DEF LastOf
<1> HIDE DEF n, S
<1> QED
  BY <1>2, <1>3, <1>7 DEF TransportBefore, TextBefore, NumberBefore, n

(* Which flags and values stop the program, and what is not given.         *)
LEMMA PhraseStops ==
  ASSUME NEW words, Phrased(words)
  PROVE  /\ Stops(words) = {} <=>
              \A f, v : << f, v >> \in Phrases(words) => ~ BadValue(f, v)
         /\ \A j \in Stops(words) : words[j] \notin HelpFlag
         /\ \A f : (\A v : << f, v >> \notin Phrases(words)) =>
                      GivenIn(words, f) = {}
<1>1. \A f, v : << f, v >> \in Phrases(words) <=>
                  \E j \in Flags(words) : f = words[j] /\ v = words[j + 1]
  BY DEF Phrases
<1>2. Stops(words) = {} <=>
        \A j \in Flags(words) : ~ BadValue(words[j], words[j + 1])
  BY PhrasedWords
<1>3. Stops(words) = {} <=>
        \A f, v : << f, v >> \in Phrases(words) => ~ BadValue(f, v)
  <2>1. ASSUME Stops(words) = {}, NEW f, NEW v, << f, v >> \in Phrases(words)
        PROVE  ~ BadValue(f, v)
    <3>1. PICK j \in Flags(words) : f = words[j] /\ v = words[j + 1]
      BY <1>1, <2>1
    <3> QED BY <1>2, <2>1, <3>1
  <2>2. ASSUME \A f, v : << f, v >> \in Phrases(words) => ~ BadValue(f, v),
               NEW j \in Flags(words)
        PROVE  ~ BadValue(words[j], words[j + 1])
    <3>1. << words[j], words[j + 1] >> \in Phrases(words)
      BY DEF Phrases
    <3> QED BY <2>2, <3>1
  <2> QED BY <1>2, <2>1, <2>2
<1>4. \A j \in Stops(words) : words[j] \notin HelpFlag
  BY PhrasedWords, FlagsDiffer DEF Flags, Phrased
<1>5. ASSUME NEW f, \A v : << f, v >> \notin Phrases(words)
      PROVE  GivenIn(words, f) = {}
  <2>1. GivenIn(words, f) = {j \in Flags(words) : words[j] = f}
    BY PhrasedWords
  <2>2. \A j \in Flags(words) : words[j] # f
    BY <1>1, <1>5, Zenon
  <2> QED BY <2>1, <2>2
<1> QED BY <1>3, <1>4, <1>5

(* Two such lines of words, one after the other.                           *)
LEMMA PhrasesJoin ==
  ASSUME NEW s, NEW t, Phrased(s), Phrased(t)
  PROVE  /\ Phrased(s \o t)
         /\ Phrases(s \o t) = Phrases(s) \cup Phrases(t)
<1> DEFINE u == s \o t
           m == Len(s)
           n == Len(t)
<1>1. /\ s \in Seq(Word) /\ t \in Seq(Word)
      /\ DOMAIN s = 1 .. m /\ DOMAIN t = 1 .. n
      /\ m \in Nat /\ n \in Nat
  BY LenProperties DEF Phrased
<1>2. m % 2 = 0 /\ n % 2 = 0
  BY DEF Phrased
<1>3. /\ u \in Seq(Word) /\ Len(u) = m + n
      /\ \A j \in 1 .. m + n :
           u[j] = IF j <= m THEN s[j] ELSE t[j - m]
  BY <1>1, ConcatProperties
<1>4. DOMAIN u = 1 .. m + n
  BY <1>3, LenProperties
<1> HIDE DEF u, m, n
<1>5. \A j \in Flags(u) :
        \/ j \in Flags(s) /\ u[j] = s[j] /\ u[j + 1] = s[j + 1]
        \/ /\ j - m \in Flags(t)
           /\ u[j] = t[j - m] /\ u[j + 1] = t[(j - m) + 1]
  <2> SUFFICES ASSUME NEW j \in Flags(u)
               PROVE  \/ j \in Flags(s) /\ u[j] = s[j] /\ u[j + 1] = s[j + 1]
                      \/ /\ j - m \in Flags(t)
                         /\ u[j] = t[j - m] /\ u[j + 1] = t[(j - m) + 1]
    OBVIOUS
  <2>1. j \in 1 .. m + n /\ j % 2 = 1 /\ j \in Nat
    BY <1>4 DEF Flags
  <2>2. CASE j <= m
    <3>1. j # m
      BY <1>2, <2>1
    <3>2. j \in 1 .. m /\ j + 1 \in 1 .. m
      BY <1>1, <2>1, <2>2, <3>1
    <3> QED BY <1>1, <1>3, <2>1, <3>2 DEF Flags
  <2>3. CASE j > m
    <3>1. (j - m) % 2 = 1 /\ (m + n) % 2 = 0
      BY <1>1, <1>2, <2>1
    <3>2. j # m + n
      BY <2>1, <3>1
    <3>3. j - m \in 1 .. n /\ j + 1 \in 1 .. m + n
      BY <1>1, <2>1, <2>3, <3>2
    <3>4. (j + 1) - m = (j - m) + 1 /\ ~ (j <= m) /\ ~ (j + 1 <= m)
      BY <1>1, <2>1, <2>3
    <3>5. j - m \in Flags(t)
      BY <1>1, <3>1, <3>3 DEF Flags
    <3>6. u[j] = t[j - m] /\ u[j + 1] = t[(j + 1) - m]
      BY <1>3, <2>1, <3>3, <3>4
    <3> QED BY <3>4, <3>5, <3>6
  <2> QED BY <1>1, <2>1, <2>2, <2>3
<1>6. \A j \in Flags(s) : j \in Flags(u) /\ u[j] = s[j] /\ u[j + 1] = s[j + 1]
  <2> SUFFICES ASSUME NEW j \in Flags(s)
               PROVE  j \in Flags(u) /\ u[j] = s[j] /\ u[j + 1] = s[j + 1]
    OBVIOUS
  <2>1. j \in 1 .. m /\ j % 2 = 1 /\ j # m
    BY <1>1, <1>2 DEF Flags
  <2>2. j + 1 \in 1 .. m
    BY <1>1, <2>1
  <2> QED BY <1>1, <1>3, <1>4, <2>1, <2>2 DEF Flags
<1>7. \A j \in Flags(t) : /\ m + j \in Flags(u) /\ u[m + j] = t[j]
                          /\ u[(m + j) + 1] = t[j + 1]
  <2> SUFFICES ASSUME NEW j \in Flags(t)
               PROVE  /\ m + j \in Flags(u) /\ u[m + j] = t[j]
                      /\ u[(m + j) + 1] = t[j + 1]
    OBVIOUS
  <2>1. j \in 1 .. n /\ j % 2 = 1 /\ j # n /\ j \in Nat
    BY <1>1, <1>2 DEF Flags
  <2>2. /\ m + j \in 1 .. m + n /\ (m + j) + 1 \in 1 .. m + n
        /\ (m + j) - m = j /\ ((m + j) + 1) - m = j + 1
        /\ ~ (m + j <= m) /\ ~ ((m + j) + 1 <= m)
    BY <1>1, <2>1
  <2>3. (m + j) % 2 = 1
    BY <1>1, <1>2, <2>1
  <2>4. m + j \in Flags(u)
    BY <1>4, <2>2, <2>3 DEF Flags
  <2>5. u[m + j] = t[j] /\ u[(m + j) + 1] = t[j + 1]
    BY <1>3, <2>2
  <2> QED BY <2>4, <2>5
<1>8. Phrased(u)
  <2>1. \A j \in DOMAIN u : j % 2 = 1 => u[j] \in Valued
    <3>1. /\ \A j \in Flags(s) : s[j] \in Valued
          /\ \A j \in Flags(t) : t[j] \in Valued
      BY DEF Phrased, Flags
    <3>2. \A j \in Flags(u) : u[j] \in Valued
      BY <1>5, <3>1
    <3> QED BY <3>2 DEF Flags
  <2>2. (m + n) % 2 = 0
    BY <1>1, <1>2
  <2> QED BY <1>3, <2>1, <2>2 DEF Phrased
<1>9. Phrases(u) = Phrases(s) \cup Phrases(t)
  BY <1>5, <1>6, <1>7 DEF Phrases
<1> QED BY <1>8, <1>9 DEF u

(* Short lines of words.                                                   *)
LEMMA NoWords == Phrased(<< >>) /\ Phrases(<< >>) = {}
<1>1. DOMAIN << >> = {} /\ Len(<< >>) = 0 /\ << >> \in Seq(Word)
  OBVIOUS
<1> QED BY <1>1 DEF Phrased, Phrases, Flags

(* A flag and its value.                                                   *)
LEMMA TwoWords ==
  ASSUME NEW a \in Valued, NEW b \in Word
  PROVE  Phrased(<< a, b >>) /\ Phrases(<< a, b >>) = {<< a, b >>}
<1> DEFINE s == << a, b >>
<1>0. a \in Word
  BY LaunchAssumption, FlagsKnown
<1>1. /\ s \in Seq(Word) /\ Len(s) = 2 /\ DOMAIN s = {1, 2}
      /\ s[1] = a /\ s[2] = b
  BY <1>0
<1> HIDE DEF s
<1>2. Flags(s) = {1}
  BY <1>1 DEF Flags
<1>3. Phrases(s) = {<< a, b >>}
  BY <1>1, <1>2 DEF Phrases
<1>4. Phrased(s)
  BY <1>1 DEF Phrased
<1> QED BY <1>3, <1>4 DEF s

(* Two flags and their values.                                             *)
LEMMA FourWords ==
  ASSUME NEW a \in Valued, NEW b \in Word, NEW c \in Valued, NEW d \in Word
  PROVE  /\ Phrased(<< a, b, c, d >>)
         /\ Phrases(<< a, b, c, d >>) = {<< a, b >>, << c, d >>}
<1> DEFINE s == << a, b, c, d >>
<1>0. a \in Word /\ c \in Word
  BY LaunchAssumption, FlagsKnown
<1>1. /\ s \in Seq(Word) /\ Len(s) = 4 /\ DOMAIN s = {1, 2, 3, 4}
      /\ s[1] = a /\ s[2] = b /\ s[3] = c /\ s[4] = d
  BY <1>0
<1> HIDE DEF s
<1>2. Flags(s) = {1, 3}
  BY <1>1 DEF Flags
<1>3. Phrases(s) = {<< a, b >>, << c, d >>}
  BY <1>1, <1>2 DEF Phrases
<1>4. Phrased(s)
  BY <1>1 DEF Phrased
<1> QED BY <1>3, <1>4 DEF s

(* Three flags and their values.                                           *)
LEMMA SixWords ==
  ASSUME NEW a \in Valued, NEW b \in Word, NEW c \in Valued, NEW d \in Word,
         NEW e \in Valued, NEW f \in Word
  PROVE  /\ Phrased(<< a, b, c, d, e, f >>)
         /\ Phrases(<< a, b, c, d, e, f >>) =
              {<< a, b >>, << c, d >>, << e, f >>}
<1> DEFINE s == << a, b, c, d, e, f >>
<1>0. a \in Word /\ c \in Word /\ e \in Word
  BY LaunchAssumption, FlagsKnown
<1>1. /\ s \in Seq(Word) /\ Len(s) = 6 /\ DOMAIN s = {1, 2, 3, 4, 5, 6}
      /\ s[1] = a /\ s[2] = b /\ s[3] = c /\ s[4] = d /\ s[5] = e /\ s[6] = f
  BY <1>0
<1> HIDE DEF s
<1>2. Flags(s) = {1, 3, 5}
  BY <1>1 DEF Flags
<1>3. Phrases(s) = {<< a, b >>, << c, d >>, << e, f >>}
  BY <1>1, <1>2 DEF Phrases
<1>4. Phrased(s)
  BY <1>1 DEF Phrased
<1> QED BY <1>3, <1>4 DEF s

\* The flags of the transport, with their values.
ExtraPhrases(c) ==
  CASE c.transport = "raw_udp" ->
         { << "--peer-ip", c.peer >>,
           << "--local-port", IF c.role = "a" THEN "18000" ELSE "18001" >>,
           << "--peer-port", IF c.role = "a" THEN "18001" ELSE "18000" >> }
    [] c.transport \in {"zenoh_p2p", "dds_unicast"} ->
         {<< "--peer-ip", c.peer >>}
    [] c.transport = "zenoh_router" -> {<< "--router-ip", c.peer >>}
    [] OTHER -> {}

\* The flags that the script writes, with their values.
ScriptPhrases(c) ==
  {<< "--transport", c.transport >>} \cup ExtraPhrases(c) \cup
  { << "--rate-hz", "500" >>, << "--duration-sec", Duration(c) >>,
    << "--csv", Csv(c) >> }

(* The words of the script are flags with their values.                    *)
LEMMA ScriptSays ==
  ASSUME NEW c \in Calls, ~ Refused(c)
  PROVE  /\ Phrased(ScriptArgs(c))
         /\ Phrases(ScriptArgs(c)) = ScriptPhrases(c)
<1>1. /\ {"--transport", "--peer-ip", "--router-ip", "--local-port",
          "--peer-port", "--rate-hz", "--duration-sec", "--csv"}
           \subseteq Valued
      /\ {c.transport, c.peer, "500", "18000", "18001"} \subseteq Word
  BY CallsAssumption DEF Valued, NumberFlag, PortFlag, TextFlag
<1>2. Duration(c) \in Word /\ Csv(c) \in Word
  BY CallsAssumption DEF Duration, Csv, Refused
<1>3. /\ Phrased(Extra(c)) /\ Phrases(Extra(c)) = ExtraPhrases(c)
  <2>1. /\ Phrased(<< "--peer-ip", c.peer >>)
        /\ Phrases(<< "--peer-ip", c.peer >>) = {<< "--peer-ip", c.peer >>}
        /\ Phrased(<< "--router-ip", c.peer >>)
        /\ Phrases(<< "--router-ip", c.peer >>) = {<< "--router-ip", c.peer >>}
    BY <1>1, TwoWords
  <2>2. CASE c.transport = "raw_udp"
    <3>1. /\ Phrased(UdpPorts(c))
          /\ Phrases(UdpPorts(c)) =
               { << "--local-port",
                    IF c.role = "a" THEN "18000" ELSE "18001" >>,
                 << "--peer-port",
                    IF c.role = "a" THEN "18001" ELSE "18000" >> }
      BY <1>1, FourWords DEF UdpPorts
    <3>2. Extra(c) = << "--peer-ip", c.peer >> \o UdpPorts(c)
      BY <2>2 DEF Extra
    <3> DEFINE address == << "--peer-ip", c.peer >>
    <3>3. /\ Phrased(address) /\ Phrases(address) = {<< "--peer-ip", c.peer >>}
          /\ Extra(c) = address \o UdpPorts(c)
      BY <2>1, <3>2
    <3> HIDE DEF address
    <3>4. /\ Phrased(Extra(c))
          /\ Phrases(Extra(c)) = Phrases(address) \cup Phrases(UdpPorts(c))
      BY <3>1, <3>3, PhrasesJoin
    <3> QED BY <2>2, <3>1, <3>3, <3>4 DEF ExtraPhrases
  <2>3. CASE c.transport # "raw_udp"
    BY <2>1, <2>3, NoWords DEF Extra, ExtraPhrases
  <2> QED BY <2>2, <2>3
<1>4. /\ Phrased(<< "--transport", c.transport >>)
      /\ Phrases(<< "--transport", c.transport >>) =
           {<< "--transport", c.transport >>}
  BY <1>1, TwoWords
<1> DEFINE last == << "--rate-hz", "500", "--duration-sec", Duration(c),
                      "--csv", Csv(c) >>
           first == << "--transport", c.transport >> \o Extra(c)
<1>5. /\ Phrased(last)
      /\ Phrases(last) = { << "--rate-hz", "500" >>,
                           << "--duration-sec", Duration(c) >>,
                           << "--csv", Csv(c) >> }
  <2>1. /\ "--rate-hz" \in Valued /\ "--duration-sec" \in Valued
        /\ "--csv" \in Valued /\ "500" \in Word
    BY <1>1
  <2> QED BY <1>2, <2>1, SixWords
<1>6. /\ Phrased(first)
      /\ Phrases(first) = {<< "--transport", c.transport >>}
                            \cup ExtraPhrases(c)
  BY <1>3, <1>4, PhrasesJoin
<1>7. ScriptArgs(c) = first \o last
  BY DEF ScriptArgs
<1> HIDE DEF first, last
<1>8. /\ Phrased(first \o last)
      /\ Phrases(first \o last) = Phrases(first) \cup Phrases(last)
  BY <1>5, <1>6, PhrasesJoin
<1> QED BY <1>5, <1>6, <1>7, <1>8 DEF ScriptPhrases

(* The script gives no flag twice.                                         *)
LEMMA ScriptPhrase ==
  ASSUME NEW c \in Calls, ~ Refused(c), NEW f, NEW v,
         << f, v >> \in ScriptPhrases(c)
  PROVE  \A w : << f, w >> \in ScriptPhrases(c) => w = v
<1>1. ExtraPhrases(c) \subseteq
        {"--peer-ip", "--router-ip", "--local-port", "--peer-port"}
          \X {c.peer, "18000", "18001"}
  BY DEF ExtraPhrases
<1>2. \A w, x :
        << f, w >> \in ExtraPhrases(c) /\ << f, x >> \in ExtraPhrases(c)
        => w = x
  BY DEF ExtraPhrases
<1> QED BY <1>1, <1>2 DEF ScriptPhrases

(* What the loop makes of a flag of the script.                            *)
LEMMA ScriptReads ==
  ASSUME NEW c \in Calls, ~ Refused(c), NEW f, NEW v,
         << f, v >> \in ScriptPhrases(c)
  PROVE  LET words == ScriptArgs(c)
             n == Len(words) + 1
         IN  /\ f = "--transport" => TransportBefore(words, n) = v
             /\ f \in TextFlag => TextBefore(words, n)[f] = v
             /\ f \in NumberFlag => NumberBefore(words, n)[f] = Converted(f, v)
<1>1. /\ Phrased(ScriptArgs(c)) /\ Phrases(ScriptArgs(c)) = ScriptPhrases(c)
  BY ScriptSays
<1>2. \A w : << f, w >> \in Phrases(ScriptArgs(c)) => w = v
  BY <1>1, ScriptPhrase
<1> QED BY <1>1, <1>2, PhraseRead

(* The only word of the script that can stop the program is the duration;  *)
(* the script leaves the role to the program and gives the transport.      *)
LEMMA ScriptStops ==
  ASSUME NEW c \in Calls, ~ Refused(c)
  PROVE  LET words == ScriptArgs(c)
         IN  /\ Stops(words) = {} <=> Duration(c) \in DOMAIN NumberOf
             /\ \A j \in Stops(words) : words[j] \notin HelpFlag
             /\ GivenIn(words, "--role") = {}
             /\ GivenIn(words, "--transport") # {}
<1> DEFINE words == ScriptArgs(c)
<1>1. Phrased(words) /\ Phrases(words) = ScriptPhrases(c)
  BY ScriptSays
<1>2. c.transport \in TransportKind
  BY DEF Refused
<1>3. \A f, v : << f, v >> \in ScriptPhrases(c) =>
        /\ f # "--role"
        /\ BadValue(f, v) <=>
             f = "--duration-sec" /\ Duration(c) \notin DOMAIN NumberOf
  <2>1. /\ {"500", "18000", "18001"} \subseteq DOMAIN NumberOf
    BY NumeralsAssumption
  <2>2. \A f, v : << f, v >> \in ExtraPhrases(c) =>
          /\ f \in TextFlag \/ (f \in NumberFlag /\ v \in DOMAIN NumberOf)
          /\ f # "--duration-sec"
    BY <2>1 DEF ExtraPhrases, TextFlag, NumberFlag, PortFlag
  <2>3. \A f, v : << f, v >> \in ExtraPhrases(c) =>
          f # "--role" /\ f # "--duration-sec" /\ ~ BadValue(f, v)
    BY <2>2, FlagsDiffer DEF BadValue
  <2>4. /\ ~ BadValue("--transport", c.transport)
        /\ ~ BadValue("--rate-hz", "500") /\ ~ BadValue("--csv", Csv(c))
        /\ BadValue("--duration-sec", Duration(c)) <=>
             Duration(c) \notin DOMAIN NumberOf
    BY <1>2, <2>1 DEF BadValue, NumberFlag, PortFlag
  <2> QED BY <2>3, <2>4 DEF ScriptPhrases
<1>4. /\ << "--duration-sec", Duration(c) >> \in ScriptPhrases(c)
      /\ << "--transport", c.transport >> \in ScriptPhrases(c)
  BY DEF ScriptPhrases
<1>5. GivenIn(words, "--transport") # {}
  <2>1. PICK j \in Flags(words) : words[j] = "--transport"
    BY <1>1, <1>4 DEF Phrases
  <2> QED BY <1>1, <2>1, PhrasedWords
<1> HIDE DEF words
<1>6. GivenIn(words, "--role") = {}
  <2>1. \A v : << "--role", v >> \notin Phrases(words)
    BY <1>1, <1>3
  <2> QED BY <1>1, <2>1, PhraseStops
<1>7. Stops(words) = {} <=> Duration(c) \in DOMAIN NumberOf
  <2>1. Stops(words) = {} <=>
          \A f, v : << f, v >> \in ScriptPhrases(c) => ~ BadValue(f, v)
    BY <1>1, PhraseStops
  <2> QED BY <1>3, <1>4, <2>1
<1>8. \A j \in Stops(words) : words[j] \notin HelpFlag
  BY <1>1, PhraseStops
<1> QED BY <1>5, <1>6, <1>7, <1>8 DEF words

\* Where the script has the role bind, and where it has it send.
ScriptPort(role, flag) ==
  IF (role = "a") = (flag = "--local-port") THEN 18000 ELSE 18001

(* A number below the range is not cut.                                    *)
LEMMA PortFits ==
  ASSUME NEW n \in Nat, NEW range \in Nat, n < range
  PROVE  n % range = n
OBVIOUS

(* The settings of a program that the script starts are those of the call. *)
LEMMA ScriptSettings ==
  ASSUME NEW c \in Calls, ~ Refused(c), NEW r \in Role
  PROVE  LET d == RunsWith(ScriptArgs(c), r)
         IN  /\ d.role = r /\ d.transport = c.transport
             /\ d.text["--csv"] = Csv(c)
             /\ d.number["--duration-sec"] = NumberOf[Duration(c)]
             /\ c.transport \in {"raw_udp", "zenoh_p2p", "dds_unicast"} =>
                  d.text["--peer-ip"] = c.peer
             /\ c.transport = "zenoh_router" => d.text["--router-ip"] = c.peer
             /\ c.transport = "raw_udp" =>
                  \A f \in {"--local-port", "--peer-port"} :
                    d.number[f] = ScriptPort(c.role, f)
<1> DEFINE words == ScriptArgs(c)
           n == Len(words) + 1
           d == RunsWith(words, r)
<1>1. TransportBefore(words, n) = c.transport
  <2>1. << "--transport", c.transport >> \in ScriptPhrases(c)
    BY DEF ScriptPhrases
  <2> QED BY <2>1, ScriptReads
<1>2. TextBefore(words, n)["--csv"] = Csv(c)
  <2>1. << "--csv", Csv(c) >> \in ScriptPhrases(c) /\ "--csv" \in TextFlag
    BY DEF ScriptPhrases, TextFlag
  <2> QED BY <2>1, ScriptReads
<1>3. NumberBefore(words, n)["--duration-sec"] = NumberOf[Duration(c)]
  <2>1. /\ << "--duration-sec", Duration(c) >> \in ScriptPhrases(c)
        /\ "--duration-sec" \in NumberFlag
    BY DEF ScriptPhrases, NumberFlag
  <2>2. \A w : Converted("--duration-sec", w) = NumberOf[w]
    BY DEF Converted, PortFlag
  <2> QED BY <2>1, <2>2, ScriptReads
<1>4. c.transport \in {"raw_udp", "zenoh_p2p", "dds_unicast"} =>
        TextBefore(words, n)["--peer-ip"] = c.peer
  <2> SUFFICES ASSUME c.transport \in {"raw_udp", "zenoh_p2p", "dds_unicast"}
               PROVE  TextBefore(words, n)["--peer-ip"] = c.peer
    OBVIOUS
  <2>1. << "--peer-ip", c.peer >> \in ScriptPhrases(c)
        /\ "--peer-ip" \in TextFlag
    BY DEF ScriptPhrases, ExtraPhrases, TextFlag
  <2> QED BY <2>1, ScriptReads
<1>5. c.transport = "zenoh_router" =>
        TextBefore(words, n)["--router-ip"] = c.peer
  <2> SUFFICES ASSUME c.transport = "zenoh_router"
               PROVE  TextBefore(words, n)["--router-ip"] = c.peer
    OBVIOUS
  <2>1. << "--router-ip", c.peer >> \in ScriptPhrases(c)
        /\ "--router-ip" \in TextFlag
    BY DEF ScriptPhrases, ExtraPhrases, TextFlag
  <2> QED BY <2>1, ScriptReads
<1>6. ASSUME c.transport = "raw_udp", NEW f \in {"--local-port", "--peer-port"}
      PROVE  NumberBefore(words, n)[f] = ScriptPort(c.role, f)
  <2> DEFINE v == IF (c.role = "a") = (f = "--local-port")
                  THEN "18000" ELSE "18001"
  <2>1. << f, v >> \in ScriptPhrases(c)
    BY <1>6 DEF ScriptPhrases, ExtraPhrases
  <2>2. f \in NumberFlag /\ f \in PortFlag
    BY DEF NumberFlag, PortFlag
  <2>3. Converted(f, v) = NumberOf[v] % PortRange
    BY <2>2 DEF Converted
  <2>4. /\ 18000 % PortRange = 18000 /\ 18001 % PortRange = 18001
    <3>1. PortRange \in Nat
      BY LaunchAssumption
    <3>2. PortRange > 18001
      BY NumeralsAssumption
    <3>3. 18000 < PortRange /\ 18001 < PortRange
      BY <3>1, <3>2
    <3> QED BY <3>1, <3>3, PortFits
  <2>5. Converted(f, v) = ScriptPort(c.role, f)
    BY <2>3, <2>4, NumeralsAssumption DEF ScriptPort
  <2>6. NumberBefore(words, n)[f] = Converted(f, v)
    BY <2>1, <2>2, ScriptReads
  <2> QED BY <2>5, <2>6
<1>7. /\ d.role = r
      /\ d.transport = TransportBefore(words, n)
      /\ d.text = TextBefore(words, n)
      /\ \A f \in NumberFlag : d.number[f] =
           IF /\ f \in {"--local-port", "--peer-port"}
              /\ TransportBefore(words, n) = "raw_udp"
              /\ NumberBefore(words, n)[f] = 0
           THEN DefaultPort(RoleBefore(words, n, r), f)
           ELSE NumberBefore(words, n)[f]
  BY RunSettings
<1>8. d.number["--duration-sec"] = NumberBefore(words, n)["--duration-sec"]
  BY <1>7 DEF NumberFlag
<1>9. ASSUME c.transport = "raw_udp", NEW f \in {"--local-port", "--peer-port"}
      PROVE  d.number[f] = ScriptPort(c.role, f)
  <2>1. f \in NumberFlag /\ ScriptPort(c.role, f) # 0
    BY DEF NumberFlag, PortFlag, ScriptPort
  <2> QED BY <1>6, <1>7, <1>9, <2>1
<1> HIDE DEF n, words, d
<1> QED
  BY <1>1, <1>2, <1>3, <1>4, <1>5, <1>7, <1>8, <1>9 DEF d, words

(* A program that the script starts comes up if the duration is a number,  *)
(* and fails otherwise.                                                    *)
LEMMA ScriptOutcome ==
  ASSUME NEW c \in Calls, ~ Refused(c), NEW r \in Role
  PROVE  Outcome(ScriptArgs(c), r) =
           IF Duration(c) \in DOMAIN NumberOf THEN "up" ELSE "failed"
<1> DEFINE words == ScriptArgs(c)
           d == RunsWith(words, r)
<1>1. c.peer # ""
  BY DEF Refused
<1>2. ~ RefusedByTransport(d)
  <2>1. c.transport = "raw_udp" =>
          /\ d.text["--peer-ip"] = c.peer
          /\ d.number["--local-port"] # 0 /\ d.number["--peer-port"] # 0
    BY ScriptSettings DEF ScriptPort
  <2>2. d.transport = c.transport
    BY ScriptSettings
  <2> HIDE DEF d
  <2> QED BY <1>1, <2>1, <2>2 DEF RefusedByTransport
<1>3. ~ Lacking(words, r)
  <2>1. /\ Settings(words, r).transport = d.transport
        /\ Settings(words, r).text = d.text
    BY RunSettings DEF Settings, SettingsBefore
  <2>2. /\ d.transport = c.transport
        /\ c.transport \in {"zenoh_p2p", "dds_unicast"} =>
             d.text["--peer-ip"] = c.peer
        /\ c.transport = "zenoh_router" => d.text["--router-ip"] = c.peer
    BY ScriptSettings
  <2>3. GivenIn(words, "--transport") # {}
    BY ScriptStops
  <2> HIDE DEF d, words
  <2> QED BY <1>1, <2>1, <2>2, <2>3 DEF Lacking
<1>4. Stops(words) = {} <=> Duration(c) \in DOMAIN NumberOf
  BY ScriptStops
<1>5. ASSUME Stops(words) # {}
      PROVE  words[FirstOf(Stops(words))] \notin HelpFlag
  <2>1. Stops(words) \subseteq Nat
    BY ScriptWords, LenProperties DEF Stops
  <2>2. PICK j \in Stops(words) : \A k \in Stops(words) : j <= k
    BY <1>5, <2>1, LeastNat
  <2>3. FirstOf(Stops(words)) \in Stops(words)
    BY <2>2 DEF FirstOf
  <2>4. \A k \in Stops(words) : words[k] \notin HelpFlag
    BY ScriptStops
  <2> QED BY <2>3, <2>4
<1> HIDE DEF words, d
<1> QED BY <1>2, <1>3, <1>4, <1>5 DEF Outcome, d, words

\* What the invariants say of a program that the script started.
LEMMA CalledProgram ==
  ASSUME LaunchInv, AllRead, CallInv, Called, NEW r \in Role
  PROVE  /\ call[r] \in Calls /\ ~ Refused(call[r])
         /\ Program(call[r]) = r
         /\ call["A"].transport = call["B"].transport
         /\ args[r] = ScriptArgs(call[r]) /\ rmw[r] = ScriptRmw(call[r])
         /\ ReadInv(r)
BY DEF CallInv, CallPairs, AllRead, Role

(* For every call: a program that bench_one.sh starts turns down nothing   *)
(* but a duration that is no number, and runs with the arguments of the    *)
(* call.                                                                   *)
THEOREM ScriptArgumentsAreTaken == ScriptSpec => []ScriptIsTaken
<1>1. LaunchInv /\ AllRead /\ CallInv => ScriptIsTaken
  <2> SUFFICES ASSUME LaunchInv, AllRead, CallInv, Called,
                      NEW r \in Role, Ended(r)
               PROVE  IF Duration(call[r]) \in DOMAIN NumberOf
                      THEN /\ at[r] \in {"up", "no ros"}
                           /\ cfg[r].transport = call[r].transport
                           /\ cfg[r].number["--duration-sec"] =
                                NumberOf[Duration(call[r])]
                           /\ cfg[r].text["--csv"] = Csv(call[r])
                           /\ call[r].transport \in TakesPeer =>
                                cfg[r].text["--peer-ip"] = call[r].peer
                           /\ call[r].transport = "zenoh_router" =>
                                cfg[r].text["--router-ip"] = call[r].peer
                      ELSE at[r] = "failed"
    BY DEF ScriptIsTaken
  <2> DEFINE c == call[r]
  <2>1. /\ c \in Calls /\ ~ Refused(c) /\ args[r] = ScriptArgs(c) /\ ReadInv(r)
    BY CalledProgram
  <2> HIDE DEF c
  <2>2. CASE at[r] = "no ros"
    <3>1. Stops(ScriptArgs(c)) = {}
      BY <2>1, <2>2 DEF ReadInv
    <3>2. cfg[r] = RunsWith(ScriptArgs(c), r)
      BY <2>1, <2>2 DEF ReadInv
    <3>3. Duration(c) \in DOMAIN NumberOf
      BY <2>1, <3>1, ScriptStops
    <3>4. /\ cfg[r].transport = c.transport
          /\ cfg[r].number["--duration-sec"] = NumberOf[Duration(c)]
          /\ cfg[r].text["--csv"] = Csv(c)
          /\ c.transport \in TakesPeer => cfg[r].text["--peer-ip"] = c.peer
          /\ c.transport = "zenoh_router" =>
               cfg[r].text["--router-ip"] = c.peer
      BY <2>1, <3>2, ScriptSettings DEF TakesPeer
    <3> QED BY <2>2, <3>3, <3>4 DEF c
  <2>3. CASE at[r] # "no ros"
    <3>1. at[r] = IF Duration(c) \in DOMAIN NumberOf THEN "up" ELSE "failed"
      BY <2>1, <2>3, AtIsOutcome, ScriptOutcome
    <3>2. at[r] = "up" => cfg[r] = RunsWith(ScriptArgs(c), r)
      BY <2>1 DEF ReadInv
    <3> QED BY <2>1, <3>1, <3>2, ScriptSettings DEF c, TakesPeer
  <2> QED BY <2>2, <2>3
<1> QED BY ReadInvHolds, <1>1, PTL

(* For every two calls of bench_one.sh for one transport, one per role:    *)
(* the ends send to each other, over one middleware unless the callers     *)
(* chose different ones.                                                   *)
THEOREM ScriptCallsMeet == ScriptSpec => []ScriptEndsMeet
<1>1. LaunchInv /\ AllRead /\ CallInv => ScriptEndsMeet
  <2> SUFFICES ASSUME LaunchInv, AllRead, CallInv, Called,
                      \A r \in Role : at[r] = "up"
               PROVE  /\ MeetEachOther
                      /\ \/ call["A"].transport = "dds_unicast"
                         \/ call["A"].rmw = call["B"].rmw
                         => rmw["A"] = rmw["B"]
    BY DEF ScriptEndsMeet
  <2> DEFINE a == call["A"]
             b == call["B"]
  <2>1. /\ a \in Calls /\ ~ Refused(a) /\ b \in Calls /\ ~ Refused(b)
        /\ a.transport = b.transport
        /\ rmw["A"] = ScriptRmw(a) /\ rmw["B"] = ScriptRmw(b)
    BY CalledProgram DEF Role
  <2>2. a.role = "a" /\ b.role = "b"
    BY CalledProgram DEF Role, Program, Refused
  <2>3. /\ tx["A"] = Built(RunsWith(ScriptArgs(a), "A"))
        /\ tx["B"] = Built(RunsWith(ScriptArgs(b), "B"))
    <3>1. \A r \in Role : tx[r] = Built(RunsWith(ScriptArgs(call[r]), r))
      BY CalledProgram DEF ReadInv
    <3> QED BY <3>1 DEF Role
  <2> HIDE DEF a, b
  <2> DEFINE c == RunsWith(ScriptArgs(a), "A")
             d == RunsWith(ScriptArgs(b), "B")
  <2>4. c.role = "A" /\ d.role = "B" /\ c.transport = d.transport
    BY <2>1, ScriptSettings DEF Role
  <2>5. ASSUME c.transport = "raw_udp"
        PROVE  /\ c.number["--local-port"] = 18000
               /\ c.number["--peer-port"] = 18001
               /\ d.number["--local-port"] = 18001
               /\ d.number["--peer-port"] = 18000
    <3>1. a.transport = "raw_udp" /\ b.transport = "raw_udp"
      BY <2>1, <2>5, ScriptSettings DEF Role
    <3>2. /\ ScriptPort("a", "--local-port") = 18000
          /\ ScriptPort("a", "--peer-port") = 18001
          /\ ScriptPort("b", "--local-port") = 18001
          /\ ScriptPort("b", "--peer-port") = 18000
      BY DEF ScriptPort
    <3>3. \A f \in {"--local-port", "--peer-port"} :
            /\ c.number[f] = ScriptPort("a", f)
            /\ d.number[f] = ScriptPort("b", f)
      BY <2>1, <2>2, <3>1, ScriptSettings DEF Role
    <3> HIDE DEF c, d
    <3> QED BY <3>2, <3>3
  <2> HIDE DEF c, d
  <2>6. Reaches(Built(c), Built(d)) /\ Reaches(Built(d), Built(c))
    BY <2>4, <2>5, BuiltEndsMeet
  <2>7. MeetEachOther
    BY <2>3, <2>6 DEF MeetEachOther, c, d
  <2>8. a.transport = "dds_unicast" \/ a.rmw = b.rmw
        => ScriptRmw(a) = ScriptRmw(b)
    BY <2>1 DEF ScriptRmw
  <2> QED BY <2>1, <2>7, <2>8 DEF a, b
<1> QED BY ReadInvHolds, <1>1, PTL

(* For every call of bench_one.sh that asks for no other middleware: ROS   *)
(* comes up with the session of the transport, and with the address of the *)
(* call.                                                                   *)
THEOREM ScriptSessionIsUsed == ScriptSpec => []ScriptHonoursSession
<1>1. LaunchInv /\ AllRead /\ CallInv => ScriptHonoursSession
  <2> SUFFICES ASSUME LaunchInv, AllRead, CallInv, Called,
                      NEW r \in Role, at[r] = "up", session[r] # Unwritten,
                      call[r].rmw = Unset \/ call[r].transport = "dds_unicast"
               PROVE  /\ ros_session[r] = SessionFile(cfg[r])
                      /\ ros_session[r] # NoConfig =>
                           ros_session[r].connect = call[r].peer
    BY DEF ScriptHonoursSession
  <2> DEFINE c == call[r]
             d == cfg[r]
  <2>1. /\ c \in Calls /\ ~ Refused(c) /\ args[r] = ScriptArgs(c) /\ ReadInv(r)
        /\ rmw[r] = ScriptRmw(c)
    BY CalledProgram
  <2>2. d = RunsWith(ScriptArgs(c), r)
    BY <2>1 DEF ReadInv
  <2>3. c.rmw = Unset \/ c.transport = "dds_unicast"
    OBVIOUS
  <2> HIDE DEF c
  <2>4. /\ d.transport = c.transport /\ c.transport \in TransportKind
        /\ c.transport \in {"zenoh_p2p", "dds_unicast"} =>
             d.text["--peer-ip"] = c.peer
        /\ c.transport = "zenoh_router" => d.text["--router-ip"] = c.peer
    BY <2>1, <2>2, ScriptSettings DEF Refused
  <2> HIDE DEF d
  <2>5. SessionFile(d) # NoConfig => SessionFile(d).connect = c.peer
    BY <2>4 DEF SessionFile, PeerConfig, ClientConfig, UnicastProfile
  <2>6. ros_session[r] \in {NoConfig, SessionFile(d)}
    BY DEF LaunchInv, TypeOK, d
  <2>7. SessionFile(d) = NoConfig \/ Reads(rmw[r], SessionFile(d).mode)
    BY <2>1, <2>3, <2>4
    DEF SessionFile, PeerConfig, ClientConfig, UnicastProfile, Reads,
        ScriptRmw, DefaultRmw, TransportKind
  <2>8. ros_session[r] = SessionFile(d)
    <3>1. Reads(rmw[r], SessionFile(d).mode) =>
            ros_session[r] = SessionFile(d)
      BY DEF LaunchInv, RosUsesSession, d
    <3> QED BY <2>6, <2>7, <3>1
  <2> QED BY <2>5, <2>8 DEF c, d
<1> QED BY ReadInvHolds, <1>1, PTL
=============================================================================
