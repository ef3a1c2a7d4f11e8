SPECIFICATION ScriptSpec
CONSTANTS
  Word <- MCWord
  Starts <- MCStarts
  Calls <- MCCalls
  DefaultCsv <- MCDefaultCsv
  NumberOf <- MCNumberOf
  Dashed <- MCDashed
  PortRange = 65536
  MaxPhrases = 3
  Phrases <- AllPhrases
INVARIANTS
  ParsedAsGiven
  EndsMeet
  RosUsesSession
  ScriptIsTaken
  ScriptEndsMeet
  ScriptHonoursSession
\* A program that is up, failed or asked for help is done here.
CHECK_DEADLOCK FALSE
