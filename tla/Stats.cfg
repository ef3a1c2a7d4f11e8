\* Ring scenario: 7 sends into 3 slots with numbers 0..4, two rows.
\* Loss scenario: up to 4 arrivals of 4 peer numbers in any order.
\* Report scenario: up to 4 samples of 0 to 2 ns in any order.
CONSTANTS
  RingSize = 3
  NumSeqs = 5
  MaxSends = 7
  MaxRows = 4
  MaxClock = 2
  MaxPeerSeq = 4
  MaxAcked = 4
  CsvOutcomes <- MCCsvOutcomes
SPECIFICATION MCSpec
INVARIANTS RingHoldsWindow LookupExact
INVARIANTS LossNeverUnderReported LossExactInOrder
INVARIANTS SummaryAgreesWithCsv PercentilesAgree
PROPERTY MeterSpec
\* Callers that reached their bounds stop.
CHECK_DEADLOCK FALSE
