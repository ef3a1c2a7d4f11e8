----------------------------- MODULE StatsReport -----------------------------
(***************************************************************************)
(* The two reports of a run: the summary() that run() prints, computed     *)
(* from the members of the recorder, and the table that analyze.py prints, *)
(* computed from the CSV alone.  Left out: units and layout, and the mean  *)
(* and the deviation, which only analyze.py computes.                      *)
(***************************************************************************)
EXTENDS StatsCallers, Functions

\* p as a fraction.  Both programs multiply it by the last index and cut.
Percentiles ==
  { [num |-> 1, den |-> 2], [num |-> 9, den |-> 10],
    [num |-> 99, den |-> 100], [num |-> 999, den |-> 1000] }

Rank(n, p) == (p.num * (n - 1)) \div p.den

---------------------------------------------------------------------------
(* summary()                                                               *)

\* How many of xs are less than x, and how many are not greater.
Below(xs, x) == Cardinality({i \in DOMAIN xs : xs[i] < x})

UpTo(xs, x) == Cardinality({i \in DOMAIN xs : xs[i] <= x})

\* Variant: what happens to stand at this place.
UnsortedElement(xs, k) == xs[k + 1]

\* std::nth_element: what would stand at place k if xs were sorted.
NthElement(xs, k) ==
  CHOOSE x \in Range(xs) : Below(xs, x) <= k /\ k < UpTo(xs, x)

SummaryPercentile(p) == NthElement(stats.rtts_ns, Rank(Len(stats.rtts_ns), p))

SummaryMax == NthElement(stats.rtts_ns, Len(stats.rtts_ns) - 1)

---------------------------------------------------------------------------
(* analyze.py                                                              *)

CsvColumn(field) == [i \in DOMAIN stats.csv |-> stats.csv[i][field]]

\* The loop of load() over a column: the positive numbers ...
Positive(xs) ==
  LET kept[n \in 0 .. Len(xs)] ==
        IF n = 0 THEN << >>
        ELSE IF xs[n] > 0 THEN Append(kept[n - 1], xs[n]) ELSE kept[n - 1]
  IN  kept[Len(xs)]

\* ... or the total.
Total(xs) ==
  LET total[n \in 0 .. Len(xs)] ==
        IF n = 0 THEN 0 ELSE total[n - 1] + xs[n]
  IN  total[Len(xs)]

LoadedRtts == Positive(CsvColumn("computed_rtt_ns"))

LoadedLoss == Total(CsvColumn("inferred_loss"))

\* sorted(): the indices in an order in which the values ascend.
Ascending(xs) ==
  { order \in [DOMAIN xs -> DOMAIN xs] :
      \A j, k \in DOMAIN xs :
        j < k => order[j] # order[k] /\ xs[order[j]] <= xs[order[k]] }

Sorted(xs) ==
  LET order == CHOOSE order \in Ascending(xs) : TRUE
  IN  [k \in DOMAIN xs |-> xs[order[k]]]

LoadedPercentiles ==
  LET xs_sorted == Sorted(LoadedRtts)
  IN  [p \in Percentiles |-> xs_sorted[Rank(Len(LoadedRtts), p) + 1]]

LoadedMax == CHOOSE x \in Range(LoadedRtts) : \A y \in Range(LoadedRtts) : y <= x

---------------------------------------------------------------------------
(* The FINAL line of summary() and the CSV tell the same story: while the  *)
(* file is open, the row total and the loss total of the one are those     *)
(* load() computes from the rows of the other, and so are the positive     *)
(* samples, the only ones load() keeps.                                    *)
SummaryAgreesWithCsv ==
  stats.csv_open =>
    /\ stats.row_count = Len(stats.csv)
    /\ stats.loss_count = LoadedLoss
    /\ Positive(stats.rtts_ns) = LoadedRtts

(* The two programs report the same distribution: every percentile when    *)
(* load() drops no sample of the recorder, that is when none is zero or    *)
(* negative, and the maximum whenever it keeps one at all.  -1, the mark   *)
(* of a row without a round trip, never passes for a sample.               *)
PercentilesAgree ==
  stats.csv_open /\ LoadedRtts # << >> =>
    /\ SummaryMax = LoadedMax
    /\ Len(LoadedRtts) = Len(stats.rtts_ns) =>
         \A p \in Percentiles : SummaryPercentile(p) = LoadedPercentiles[p]
=============================================================================
