------------------------------ MODULE MCBench ------------------------------
(***************************************************************************)
(* Bench for TLC: two sides with rates and durations of their own.         *)
(***************************************************************************)
EXTENDS Bench, TLC

CONSTANTS PeriodA, PeriodB, DurationA, DurationB

MCPeriod == [r \in Role |-> IF r = "A" THEN PeriodA ELSE PeriodB]

MCDuration == [r \in Role |-> IF r = "A" THEN DurationA ELSE DurationB]

MCSymmetry == Permutations(Worker)
=============================================================================
