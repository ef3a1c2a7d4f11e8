-------------------------- MODULE StatsReportProofs --------------------------
(***************************************************************************)
(* The two reports of a run agree for every ring size, every width of the  *)
(* sequence numbers and every history of calls.                            *)
(*                                                                         *)
(* First what the loop of load() computes.  Total and Positive are         *)
(* recursive over the length of a column; the running value is shown to    *)
(* exist and to be the only one, so that one more row changes the result   *)
(* by that row.  With it SummaryAgreesWithCsv is inductive beside RingInv: *)
(* on_recv adds the same to the row and to the members.                    *)
(*                                                                         *)
(* Then the percentiles.  Sorted is defined by a permutation that exists   *)
(* because counting the values before an index is one; and the one value   *)
(* with at most k values below it and more than k up to it, which is what  *)
(* nth_element leaves at place k, is the value a sort puts there.          *)
(***************************************************************************)
EXTENDS StatsReport, StatsCallersProofs, SequenceTheorems

(* A set of numbers that is not empty has a least one: every induction     *)
(* below is a search for the least counterexample.                         *)
LEMMA LeastNat ==
  ASSUME NEW T, T \subseteq Nat, T # {}
  PROVE  \E x \in T : \A y \in T : x <= y
<1> DEFINE R == OpToRel(<, Nat)
<1>1. IsWellFoundedOn(R, Nat)
  BY NatLessThanWellFounded
<1>2. \A y, x \in Nat : <<y, x>> \notin R => x <= y
  BY DEF OpToRel
<1> HIDE DEF R
<1>3. PICK x \in T : \A y \in T : ~ (<<y, x>> \in R)
  BY <1>1, WFMin
<1> QED BY <1>2, <1>3

---------------------------------------------------------------------------
(* The totals                                                              *)

\* f is the running total of the first n of xs.
TotalOf(xs, n, f) ==
  f = [k \in 0 .. n |-> IF k = 0 THEN 0 ELSE f[k - 1] + xs[k]]

(* There is a running total, so the one that Total chooses is one.         *)
LEMMA TotalDefined ==
  ASSUME NEW xs, NEW n \in Nat
  PROVE  \E f : TotalOf(xs, n, f)
<1> DEFINE T == {m \in Nat : ~ \E f : TotalOf(xs, m, f)}
<1>1. ASSUME T # {} PROVE FALSE
  <2>1. PICK m \in T : \A l \in T : m <= l
    <3>1. T \subseteq Nat
      OBVIOUS
    <3> HIDE DEF T
    <3> QED BY <1>1, <3>1, LeastNat
  <2>2. CASE m = 0
    <3>1. TotalOf(xs, 0, [k \in 0 .. 0 |-> 0])
      BY DEF TotalOf
    <3> QED BY <2>1, <2>2, <3>1
  <2>3. CASE m # 0
    <3>1. m - 1 \in Nat /\ m - 1 \notin T
      BY <2>1, <2>3
    <3>2. PICK f : TotalOf(xs, m - 1, f)
      BY <3>1
    <3> DEFINE g == [k \in 0 .. m |-> IF k = m THEN f[m - 1] + xs[m] ELSE f[k]]
    <3>3. ASSUME NEW k \in 0 .. m
          PROVE  g[k] = IF k = 0 THEN 0 ELSE g[k - 1] + xs[k]
      <4>1. CASE k = m
        <5>1. m - 1 \in 0 .. m /\ m - 1 # m /\ g[m - 1] = f[m - 1]
          BY <2>3, <3>1
        <5> QED BY <2>3, <4>1, <5>1
      <4>2. CASE k # m
        <5>1. k \in 0 .. m - 1
          BY <4>2, <3>1
        <5>2. f[k] = IF k = 0 THEN 0 ELSE f[k - 1] + xs[k]
          BY <3>2, <5>1 DEF TotalOf
        <5>3. k # 0 => k - 1 \in 0 .. m /\ k - 1 # m
          BY <5>1
        <5>4. k # 0 => g[k - 1] = f[k - 1]
          BY <5>3
        <5>5. g[k] = f[k]
          BY <4>2
        <5> HIDE DEF g
        <5> QED BY <5>2, <5>4, <5>5
      <4> QED BY <4>1, <4>2
    <3>4. TotalOf(xs, m, g)
      <4>1. g = [k \in 0 .. m |-> g[k]]
        OBVIOUS
      <4> HIDE DEF g
      <4> QED BY <3>3, <4>1 DEF TotalOf
    <3> HIDE DEF g
    <3> QED BY <2>1, <3>4
  <2> QED BY <2>2, <2>3
<1> QED BY <1>1

(* Running totals of the same numbers are the same.                        *)
LEMMA TotalAgrees ==
  ASSUME NEW xs, NEW ys, NEW n \in Nat, NEW m \in Nat, n <= m,
         NEW f, TotalOf(xs, n, f), NEW g, TotalOf(ys, m, g),
         \A k \in 1 .. n : xs[k] = ys[k]
  PROVE  f[n] = g[n]
<1> DEFINE T == {k \in 0 .. n : f[k] # g[k]}
<1>1. ASSUME T # {} PROVE FALSE
  <2>1. PICK k \in T : \A l \in T : k <= l
    <3>1. T \subseteq Nat
      OBVIOUS
    <3> HIDE DEF T
    <3> QED BY <1>1, <3>1, LeastNat
  <2>2. k \in 0 .. n /\ k \in 0 .. m
    BY <2>1
  <2>3. f[k] = IF k = 0 THEN 0 ELSE f[k - 1] + xs[k]
    BY <2>2 DEF TotalOf
  <2>4. g[k] = IF k = 0 THEN 0 ELSE g[k - 1] + ys[k]
    BY <2>2 DEF TotalOf
  <2>5. k # 0 => k - 1 \in 0 .. n /\ k - 1 \notin T /\ k \in 1 .. n
    BY <2>1, <2>2
  <2>6. k # 0 => f[k - 1] = g[k - 1] /\ xs[k] = ys[k]
    BY <2>5
  <2> QED BY <2>1, <2>3, <2>4, <2>6
<1> QED BY <1>1

(* The total of a column grows by what is appended to it.                  *)
LEMMA TotalGrows ==
  ASSUME NEW S, NEW xs \in Seq(S), NEW x \in S
  PROVE  Total(<< >>) = 0 /\ Total(Append(xs, x)) = Total(xs) + x
<1> DEFINE f(s) == CHOOSE f : TotalOf(s, Len(s), f)
<1>1. \A s : Total(s) = f(s)[Len(s)]
  BY DEF Total, TotalOf
<1>2. ASSUME NEW s, Len(s) \in Nat
      PROVE  TotalOf(s, Len(s), f(s))
  <2>1. \E g : TotalOf(s, Len(s), g)
    BY <1>2, TotalDefined
  <2> QED BY <2>1
<1> HIDE DEF f
<1>3. f(<< >>)[0] = 0
  <2>1. Len(<< >>) = 0
    OBVIOUS
  <2>2. TotalOf(<< >>, 0, f(<< >>))
    BY <1>2, <2>1
  <2> QED BY <2>2 DEF TotalOf
<1> DEFINE ys == Append(xs, x)
           n == Len(xs)
<1>4. /\ n \in Nat /\ Len(ys) = n + 1 /\ ys[n + 1] = x
      /\ \A k \in 1 .. n : xs[k] = ys[k]
  BY AppendProperties, LenProperties
<1>5. TotalOf(xs, n, f(xs)) /\ TotalOf(ys, n + 1, f(ys))
  <2> HIDE DEF ys
  <2> QED BY <1>2, <1>4
<1> HIDE DEF ys, n
<1>6. f(xs)[n] = f(ys)[n]
  BY <1>4, <1>5, TotalAgrees, n + 1 \in Nat, n <= n + 1
<1>7. f(ys)[n + 1] = f(ys)[n] + ys[n + 1]
  BY <1>4, <1>5, n + 1 \in 0 .. n + 1, (n + 1) - 1 = n, n + 1 # 0 DEF TotalOf
<1>8. Len(<< >>) = 0
  OBVIOUS
<1> QED BY <1>1, <1>3, <1>4, <1>6, <1>7, <1>8 DEF n, ys

---------------------------------------------------------------------------
(* The samples                                                             *)

\* f is what the loop has kept of the first n of xs.
PositiveOf(xs, n, f) ==
  f = [ k \in 0 .. n |->
          IF k = 0 THEN << >>
          ELSE IF xs[k] > 0 THEN Append(f[k - 1], xs[k]) ELSE f[k - 1] ]

(* The loop of load() has an outcome, so the one that Positive chooses is  *)
(* one.                                                                    *)
LEMMA PositiveDefined ==
  ASSUME NEW xs, NEW n \in Nat
  PROVE  \E f : PositiveOf(xs, n, f)
<1> DEFINE T == {m \in Nat : ~ \E f : PositiveOf(xs, m, f)}
<1>1. ASSUME T # {} PROVE FALSE
  <2>1. PICK m \in T : \A l \in T : m <= l
    <3>1. T \subseteq Nat
      OBVIOUS
    <3> HIDE DEF T
    <3> QED BY <1>1, <3>1, LeastNat
  <2>2. CASE m = 0
    <3>1. PositiveOf(xs, 0, [k \in 0 .. 0 |-> << >>])
      BY DEF PositiveOf
    <3> QED BY <2>1, <2>2, <3>1
  <2>3. CASE m # 0
    <3>1. m - 1 \in Nat /\ m - 1 \notin T
      BY <2>1, <2>3
    <3>2. PICK f : PositiveOf(xs, m - 1, f)
      BY <3>1
    <3> DEFINE last == IF xs[m] > 0 THEN Append(f[m - 1], xs[m]) ELSE f[m - 1]
               g == [k \in 0 .. m |-> IF k = m THEN last ELSE f[k]]
    <3>3. ASSUME NEW k \in 0 .. m
          PROVE  g[k] = IF k = 0 THEN << >>
                        ELSE IF xs[k] > 0 THEN Append(g[k - 1], xs[k])
                                          ELSE g[k - 1]
      <4>1. CASE k = m
        <5>1. m - 1 \in 0 .. m /\ m - 1 # m /\ g[m - 1] = f[m - 1]
          BY <2>3, <3>1
        <5>2. g[m] = last
          BY <2>1
        <5> HIDE DEF g
        <5> QED BY <2>3, <4>1, <5>1, <5>2
      <4>2. CASE k # m
        <5>1. k \in 0 .. m - 1
          BY <4>2, <3>1
        <5>2. f[k] = IF k = 0 THEN << >>
                     ELSE IF xs[k] > 0 THEN Append(f[k - 1], xs[k])
                                       ELSE f[k - 1]
          BY <3>2, <5>1 DEF PositiveOf
        <5>3. k # 0 => k - 1 \in 0 .. m /\ k - 1 # m
          BY <5>1
        <5>4. k # 0 => g[k - 1] = f[k - 1]
          BY <5>3
        <5>5. g[k] = f[k]
          BY <4>2
        <5> HIDE DEF g
        <5> QED BY <5>2, <5>4, <5>5
      <4> QED BY <4>1, <4>2
    <3>4. PositiveOf(xs, m, g)
      <4>1. g = [k \in 0 .. m |-> g[k]]
        OBVIOUS
      <4> HIDE DEF g
      <4> QED BY <3>3, <4>1 DEF PositiveOf
    <3> HIDE DEF g
    <3> QED BY <2>1, <3>4
  <2> QED BY <2>2, <2>3
<1> QED BY <1>1

(* Of the same numbers the loop keeps the same.                            *)
LEMMA PositiveAgrees ==
  ASSUME NEW xs, NEW ys, NEW n \in Nat, NEW m \in Nat, n <= m,
         NEW f, PositiveOf(xs, n, f), NEW g, PositiveOf(ys, m, g),
         \A k \in 1 .. n : xs[k] = ys[k]
  PROVE  f[n] = g[n]
<1> DEFINE T == {k \in 0 .. n : f[k] # g[k]}
<1>1. ASSUME T # {} PROVE FALSE
  <2>1. PICK k \in T : \A l \in T : k <= l
    <3>1. T \subseteq Nat
      OBVIOUS
    <3> HIDE DEF T
    <3> QED BY <1>1, <3>1, LeastNat
  <2>2. k \in 0 .. n /\ k \in 0 .. m
    BY <2>1
  <2>3. f[k] = IF k = 0 THEN << >>
               ELSE IF xs[k] > 0 THEN Append(f[k - 1], xs[k]) ELSE f[k - 1]
    BY <2>2 DEF PositiveOf
  <2>4. g[k] = IF k = 0 THEN << >>
               ELSE IF ys[k] > 0 THEN Append(g[k - 1], ys[k]) ELSE g[k - 1]
    BY <2>2 DEF PositiveOf
  <2>5. k # 0 => k - 1 \in 0 .. n /\ k - 1 \notin T /\ k \in 1 .. n
    BY <2>1, <2>2
  <2>6. k # 0 => f[k - 1] = g[k - 1] /\ xs[k] = ys[k]
    BY <2>5
  <2>7. f[k] # g[k]
    BY <2>1
  <2> HIDE DEF T
  <2> QED BY <2>3, <2>4, <2>6, <2>7
<1> QED BY <1>1

(* What the loop keeps grows by what is appended, if that is positive.     *)
LEMMA PositiveGrows ==
  ASSUME NEW S, NEW xs \in Seq(S), NEW x \in S
  PROVE  /\ Positive(<< >>) = << >>
         /\ Positive(Append(xs, x)) =
              IF x > 0 THEN Append(Positive(xs), x) ELSE Positive(xs)
<1> DEFINE f(s) == CHOOSE f : PositiveOf(s, Len(s), f)
<1>1. \A s : Positive(s) = f(s)[Len(s)]
  BY DEF Positive, PositiveOf
<1>2. ASSUME NEW s, Len(s) \in Nat
      PROVE  PositiveOf(s, Len(s), f(s))
  <2>1. \E g : PositiveOf(s, Len(s), g)
    BY <1>2, PositiveDefined
  <2> QED BY <2>1
<1> HIDE DEF f
<1>3. f(<< >>)[0] = << >>
  <2>1. Len(<< >>) = 0
    OBVIOUS
  <2>2. PositiveOf(<< >>, 0, f(<< >>))
    BY <1>2, <2>1
  <2> QED BY <2>2 DEF PositiveOf
<1> DEFINE ys == Append(xs, x)
           n == Len(xs)
<1>4. /\ n \in Nat /\ Len(ys) = n + 1 /\ ys[n + 1] = x
      /\ \A k \in 1 .. n : xs[k] = ys[k]
  BY AppendProperties, LenProperties
<1>5. PositiveOf(xs, n, f(xs)) /\ PositiveOf(ys, n + 1, f(ys))
  <2> HIDE DEF ys
  <2> QED BY <1>2, <1>4
<1> HIDE DEF ys, n
<1>6. f(xs)[n] = f(ys)[n]
  BY <1>4, <1>5, PositiveAgrees, n + 1 \in Nat, n <= n + 1
<1>7. f(ys)[n + 1] =
        IF ys[n + 1] > 0 THEN Append(f(ys)[n], ys[n + 1]) ELSE f(ys)[n]
  BY <1>4, <1>5, n + 1 \in 0 .. n + 1, (n + 1) - 1 = n, n + 1 # 0
  DEF PositiveOf
<1>8. Len(<< >>) = 0
  OBVIOUS
<1> QED BY <1>1, <1>3, <1>4, <1>6, <1>7, <1>8 DEF n, ys

\* What the loop leaves of a column: its positive numbers, and all of it if
\* it drops none.
Filtered(xs, ys) ==
  /\ ys \in Seq(Int) /\ Len(ys) <= Len(xs)
  /\ Range(ys) = {x \in Range(xs) : x > 0}
  /\ Len(ys) = Len(xs) => ys = xs

(* The values of a sequence grow by the one that is appended.              *)
LEMMA RangeGrows ==
  ASSUME NEW S, NEW xs \in Seq(S), NEW x \in S
  PROVE  Range(Append(xs, x)) = Range(xs) \cup {x}
<1> DEFINE n == Len(xs)
           ys == Append(xs, x)
<1>1. /\ n \in Nat /\ DOMAIN xs = 1 .. n
      /\ ys \in Seq(S) /\ Len(ys) = n + 1 /\ ys[n + 1] = x
      /\ \A k \in 1 .. n : ys[k] = xs[k]
  BY AppendProperties, LenProperties
<1>2. DOMAIN ys = 1 .. n + 1
  BY <1>1, LenProperties
<1> HIDE DEF ys, n
<1>3. \A k \in 1 .. n + 1 : k \in 1 .. n \/ k = n + 1
  BY <1>1
<1>4. n + 1 \in 1 .. n + 1 /\ \A k \in 1 .. n : k \in 1 .. n + 1
  BY <1>1
<1>5. ASSUME NEW v
      PROVE  (\E k \in 1 .. n + 1 : v = ys[k]) <=>
               (\E k \in 1 .. n : v = xs[k]) \/ v = x
  BY <1>1, <1>3, <1>4
<1>6. /\ Range(ys) = {ys[k] : k \in 1 .. n + 1}
      /\ Range(xs) = {xs[k] : k \in 1 .. n}
  BY <1>1, <1>2 DEF Range
<1> QED BY <1>5, <1>6 DEF ys

(* A longer column, if the loop kept the right numbers of the shorter one. *)
LEMMA FilteredGrows ==
  ASSUME NEW xs \in Seq(Int), NEW ys, Filtered(xs, ys), NEW x \in Int
  PROVE  Filtered(Append(xs, x), IF x > 0 THEN Append(ys, x) ELSE ys)
<1> DEFINE n == Len(xs)
           m == Len(ys)
           xx == Append(xs, x)
           yy == Append(ys, x)
<1>1. /\ ys \in Seq(Int) /\ m \in Nat /\ n \in Nat /\ m <= n
      /\ DOMAIN xs = 1 .. n /\ DOMAIN ys = 1 .. m
  BY LenProperties DEF Filtered
<1>2. /\ xx \in Seq(Int) /\ yy \in Seq(Int)
      /\ Len(xx) = n + 1 /\ Len(yy) = m + 1
      /\ xx[n + 1] = x /\ yy[m + 1] = x
      /\ \A k \in 1 .. n : xx[k] = xs[k]
      /\ \A k \in 1 .. m : yy[k] = ys[k]
  BY <1>1, AppendProperties
<1>3. DOMAIN xx = 1 .. n + 1 /\ DOMAIN yy = 1 .. m + 1
  BY <1>2, LenProperties
<1> HIDE DEF xx, yy, n, m
<1>4. Range(xx) = Range(xs) \cup {x}
  BY RangeGrows DEF xx
<1>5. Range(yy) = Range(ys) \cup {x}
  BY <1>1, RangeGrows DEF yy
<1>6. Range(ys) = {y \in Range(xs) : y > 0}
  BY DEF Filtered
<1>7. CASE x > 0
  <2>1. Range(yy) = {y \in Range(xx) : y > 0}
    BY <1>4, <1>5, <1>6, <1>7
  <2>2. m = n => ys = xs
    BY DEF Filtered, m, n
  <2>3. m = n => yy = xx
    BY <2>2 DEF yy, xx
  <2>4. m + 1 <= n + 1 /\ (m + 1 = n + 1 => m = n)
    BY <1>1
  <2> QED BY <1>2, <1>7, <2>1, <2>3, <2>4 DEF Filtered, xx, yy
<1>8. CASE ~ (x > 0)
  <2>1. Range(ys) = {y \in Range(xx) : y > 0}
    BY <1>4, <1>6, <1>8
  <2>2. m <= n + 1 /\ m # n + 1
    BY <1>1
  <2> QED BY <1>1, <1>2, <1>8, <2>1, <2>2 DEF Filtered, xx, m
<1> QED BY <1>7, <1>8

(* The loop of load() keeps the positive numbers of a column, and the      *)
(* whole column if they are as many as its rows.                           *)
LEMMA PositiveFilters ==
  ASSUME NEW xs \in Seq(Int)
  PROVE  Filtered(xs, Positive(xs))
<1> DEFINE T == {n \in Nat : \E s \in Seq(Int) :
                   Len(s) = n /\ ~ Filtered(s, Positive(s))}
<1>1. ASSUME T # {} PROVE FALSE
  <2>1. PICK n \in T : \A m \in T : n <= m
    <3>1. T \subseteq Nat
      OBVIOUS
    <3> HIDE DEF T
    <3> QED BY <1>1, <3>1, LeastNat
  <2>2. PICK s \in Seq(Int) : Len(s) = n /\ ~ Filtered(s, Positive(s))
    BY <2>1
  <2>3. CASE s = << >>
    <3>1. Positive(s) = << >>
      BY <2>3, PositiveGrows, 0 \in Int, << >> \in Seq(Int)
    <3>2. /\ << >> \in Seq(Int) /\ Range(<< >>) = {}
          /\ Len(<< >>) <= Len(<< >>)
      BY DEF Range
    <3> QED BY <2>2, <2>3, <3>1, <3>2 DEF Filtered
  <2>4. CASE s # << >>
    <3>1. PICK t \in Seq(Int), x \in Int : s = Append(t, x)
      BY <2>4, SequenceEmptyOrAppend
    <3>2. Len(t) \in Nat /\ Len(s) = Len(t) + 1
      BY <3>1, AppendProperties, LenProperties
    <3>3. Len(t) \notin T
      <4>1. n = Len(t) + 1
        BY <2>2, <3>2
      <4> HIDE DEF T
      <4> QED BY <2>1, <3>2, <4>1
    <3>4. Filtered(t, Positive(t))
      BY <3>2, <3>3
    <3>5. Positive(s) = IF x > 0 THEN Append(Positive(t), x) ELSE Positive(t)
      BY <3>1, PositiveGrows
    <3>6. Filtered(s, IF x > 0 THEN Append(Positive(t), x) ELSE Positive(t))
      BY <3>1, <3>4, FilteredGrows
    <3> QED BY <2>2, <3>5, <3>6
  <2> QED BY <2>3, <2>4
<1>2. Len(xs) \in Nat
  BY LenProperties
<1>3. ~ Filtered(xs, Positive(xs)) => Len(xs) \in T
  BY <1>2
<1> QED BY <1>1, <1>3

---------------------------------------------------------------------------
(* SummaryAgreesWithCsv                                                    *)

\* What on_recv adds to a row it adds to the members too.
ReportInv == RingInv /\ SummaryAgreesWithCsv

\* One field of every row.
Column(rows, field) == [i \in DOMAIN rows |-> rows[i][field]]

(* A column grows with its table.                                          *)
LEMMA ColumnGrows ==
  ASSUME NEW rows \in Seq(CsvRow), NEW row \in CsvRow, NEW field, NEW V,
         \A r \in CsvRow : r[field] \in V
  PROVE  /\ Column(rows, field) \in Seq(V)
         /\ Column(Append(rows, row), field) =
              Append(Column(rows, field), row[field])
<1> DEFINE n == Len(rows)
           more == Append(rows, row)
           c == Column(rows, field)
           d == Column(more, field)
<1>1. /\ n \in Nat /\ DOMAIN rows = 1 .. n
      /\ more \in Seq(CsvRow) /\ Len(more) = n + 1 /\ more[n + 1] = row
      /\ \A k \in 1 .. n : more[k] = rows[k] /\ rows[k] \in CsvRow
  BY AppendProperties, LenProperties, ElementOfSeq
<1>2. DOMAIN more = 1 .. n + 1
  BY <1>1, LenProperties
<1> HIDE DEF more, n
<1>3. c \in Seq(V) /\ Len(c) = n
  <2>1. c = [k \in 1 .. n |-> rows[k][field]]
    BY <1>1 DEF Column
  <2>2. \A k \in 1 .. n : rows[k][field] \in V
    BY <1>1
  <2> HIDE DEF c
  <2> QED BY <1>1, <2>1, <2>2
<1>4. d \in Seq(V) /\ Len(d) = n + 1
  <2>1. d = [k \in 1 .. n + 1 |-> more[k][field]]
    BY <1>2 DEF Column
  <2>2. \A k \in 1 .. n + 1 : more[k][field] \in V
    BY <1>1, ElementOfSeq
  <2> HIDE DEF d
  <2> QED BY <1>1, <2>1, <2>2, n + 1 \in Nat
<1> DEFINE e == Append(c, row[field])
<1>5. /\ e \in Seq(V) /\ Len(e) = n + 1 /\ e[n + 1] = row[field]
      /\ \A k \in 1 .. n : e[k] = c[k]
  <2> HIDE DEF c
  <2> QED BY <1>3, AppendProperties
<1>6. \A k \in 1 .. n + 1 : d[k] = more[k][field]
  BY <1>2 DEF Column
<1>7. \A k \in 1 .. n : c[k] = rows[k][field]
  BY <1>1 DEF Column
<1> HIDE DEF c, d, e
<1>8. \A k \in 1 .. n + 1 : d[k] = e[k]
  <2> SUFFICES ASSUME NEW k \in 1 .. n + 1 PROVE d[k] = e[k]
    OBVIOUS
  <2>1. k \in 1 .. n \/ k = n + 1
    BY <1>1
  <2> QED BY <1>1, <1>5, <1>6, <1>7, <2>1
<1>9. d = e
  BY <1>4, <1>5, <1>8, SeqEqual
<1> QED BY <1>3, <1>9 DEF c, d, e, more

(* on_recv writes to the row what it adds to the totals and, when it found *)
(* the send, to the samples. A row without a round trip holds -1, and      *)
(* load() drops it.                                                        *)
LEMMA RecvKeepsReport ==
  ASSUME ReportInv, NEW m \in Deliverable, RecordRecv(m)
  PROVE  SummaryAgreesWithCsv'
<1> DEFINE loss == InferredLoss(stats, m.peer_seq)
           rtt == ComputedRtt(stats, m.recv_ts_ns, m.acked)
           found == Found(stats, m.acked)
           row == [ peer_seq |-> m.peer_seq, peer_acked_own_seq |-> m.acked,
                    computed_rtt_ns |-> rtt, inferred_loss |-> loss ]
<1>1. /\ stats \in Recorder /\ stats.csv \in Seq(CsvRow)
      /\ stats.rtts_ns \in Seq(Int)
  BY DEF ReportInv, RingInv, TypeOK, Recorder
<1>2. m.peer_seq \in Seqs /\ m.acked \in Seqs /\ m.recv_ts_ns \in Int
  <2>1. m \in Inbound
    BY DeliverableIsInbound DEF ReportInv, RingInv
  <2> QED BY <2>1, CallersAssumption, RingAssumption DEF Inbound, PeerSeqs, Seqs
<1>3. rtt \in Int /\ loss \in Nat
  BY <1>1, <1>2, RowIsTyped
<1>4. row \in CsvRow
  BY <1>2, <1>3 DEF CsvRow
<1>5. ~ found => ~ (rtt > 0)
  BY DEF ComputedRtt, NoRtt
<1>6. /\ stats'.csv_open = stats.csv_open
      /\ stats'.row_count = stats.row_count + 1
      /\ stats'.loss_count = stats.loss_count + loss
      /\ stats'.rtts_ns = IF found THEN Append(stats.rtts_ns, rtt)
                                   ELSE stats.rtts_ns
      /\ stats'.csv = IF stats.csv_open THEN Append(stats.csv, row)
                                        ELSE stats.csv
  <2> DEFINE rtts == IF found THEN Append(stats.rtts_ns, rtt)
                              ELSE stats.rtts_ns
             rows == IF stats.csv_open THEN Append(stats.csv, row)
                                       ELSE stats.csv
  <2>1. stats' =
          [stats EXCEPT !.loss_count = stats.loss_count + loss,
                        !.last_peer_seq_seen = m.peer_seq,
                        !.any_peer_seq = TRUE,
                        !.rtts_ns = rtts, !.csv = rows,
                        !.row_count = stats.row_count + 1]
    BY DEF RecordRecv, OnRecv
  <2> HIDE DEF rtts, rows, loss
  <2>2. /\ stats'.csv_open = stats.csv_open
        /\ stats'.row_count = stats.row_count + 1
        /\ stats'.loss_count = stats.loss_count + loss
        /\ stats'.rtts_ns = rtts /\ stats'.csv = rows
    BY <1>1, <2>1 DEF Recorder
  <2> QED BY <2>2 DEF rtts, rows
<1>7. row.computed_rtt_ns = rtt /\ row.inferred_loss = loss
  OBVIOUS
<1> HIDE DEF loss, rtt, found, row
<1> SUFFICES ASSUME stats.csv_open
             PROVE  /\ stats'.row_count = Len(stats'.csv)
                    /\ stats'.loss_count = LoadedLoss'
                    /\ Positive(stats'.rtts_ns) = LoadedRtts'
  BY <1>6 DEF SummaryAgreesWithCsv
<1>8. /\ stats.row_count = Len(stats.csv)
      /\ stats.loss_count = Total(Column(stats.csv, "inferred_loss"))
      /\ Positive(stats.rtts_ns) =
           Positive(Column(stats.csv, "computed_rtt_ns"))
  BY DEF ReportInv, SummaryAgreesWithCsv, LoadedLoss, LoadedRtts, CsvColumn,
         Column
<1>9. stats'.csv = Append(stats.csv, row)
  BY <1>6
<1>10. stats'.row_count = Len(stats'.csv)
  BY <1>1, <1>4, <1>6, <1>8, <1>9, AppendProperties
<1>11. stats'.loss_count = LoadedLoss'
  <2>1. \A r \in CsvRow : r["inferred_loss"] \in Nat
    BY DEF CsvRow
  <2>2. /\ Column(stats.csv, "inferred_loss") \in Seq(Nat)
        /\ Column(stats'.csv, "inferred_loss") =
             Append(Column(stats.csv, "inferred_loss"), loss)
    BY <1>1, <1>4, <1>7, <1>9, <2>1, ColumnGrows
  <2>3. LoadedLoss' = Total(Column(stats'.csv, "inferred_loss"))
    BY DEF LoadedLoss, CsvColumn, Column
  <2>4. Total(Append(Column(stats.csv, "inferred_loss"), loss)) =
          Total(Column(stats.csv, "inferred_loss")) + loss
    BY <1>3, <2>2, TotalGrows
  <2> QED BY <1>6, <1>8, <2>2, <2>3, <2>4
<1>12. Positive(stats'.rtts_ns) = LoadedRtts'
  <2>1. \A r \in CsvRow : r["computed_rtt_ns"] \in Int
    BY DEF CsvRow
  <2> DEFINE c == Column(stats.csv, "computed_rtt_ns")
  <2>2. /\ c \in Seq(Int)
        /\ Column(stats'.csv, "computed_rtt_ns") = Append(c, rtt)
    BY <1>1, <1>4, <1>7, <1>9, <2>1, ColumnGrows
  <2>3. LoadedRtts' = Positive(Column(stats'.csv, "computed_rtt_ns"))
    BY DEF LoadedRtts, CsvColumn, Column
  <2> HIDE DEF c
  <2>4. Positive(Append(c, rtt)) =
          IF rtt > 0 THEN Append(Positive(c), rtt) ELSE Positive(c)
    BY <1>3, <2>2, PositiveGrows
  <2>5. Positive(Append(stats.rtts_ns, rtt)) =
          IF rtt > 0 THEN Append(Positive(stats.rtts_ns), rtt)
                     ELSE Positive(stats.rtts_ns)
    BY <1>1, <1>3, PositiveGrows
  <2>6. Positive(stats.rtts_ns) = Positive(c)
    BY <1>8 DEF c
  <2>7. LoadedRtts' = Positive(Append(stats.rtts_ns, rtt))
    BY <2>2, <2>3, <2>4, <2>5, <2>6
  <2>8. ~ found => Positive(Append(stats.rtts_ns, rtt)) =
                     Positive(stats.rtts_ns)
    BY <1>5, <2>5
  <2> QED BY <1>6, <2>7, <2>8
<1> QED BY <1>10, <1>11, <1>12

(* Every step keeps the two reports in agreement.                          *)
LEMMA ReportStep == ReportInv /\ [Next]_vars => ReportInv'
<1> SUFFICES ASSUME ReportInv, [Next]_vars PROVE ReportInv'
  OBVIOUS
<1>1. RingInv'
  BY RingStep DEF ReportInv
<1>2. ASSUME stats' = stats PROVE SummaryAgreesWithCsv'
  BY <1>2
  DEF ReportInv, SummaryAgreesWithCsv, LoadedLoss, LoadedRtts, CsvColumn
<1>3. CASE RecordSend
  <2>1. stats \in Recorder
    BY DEF ReportInv, RingInv, TypeOK
  <2>2. /\ stats'.csv_open = stats.csv_open /\ stats'.csv = stats.csv
        /\ stats'.row_count = stats.row_count
        /\ stats'.loss_count = stats.loss_count
        /\ stats'.rtts_ns = stats.rtts_ns
    BY <1>3, <2>1 DEF RecordSend, OnSend, Recorder
  <2> QED
    BY <1>1, <2>2
    DEF ReportInv, SummaryAgreesWithCsv, LoadedLoss, LoadedRtts, CsvColumn
<1>4. CASE \E m \in Deliverable : RecordRecv(m)
  BY <1>1, <1>4, RecvKeepsReport DEF ReportInv
<1>5. CASE Tick \/ UNCHANGED vars
  BY <1>1, <1>2, <1>5 DEF Tick, vars, ReportInv
<1> QED BY <1>3, <1>4, <1>5 DEF Next

(* And so they always agree.                                               *)
LEMMA ReportHolds == Spec => []ReportInv
<1>1. Init => ReportInv
  <2> SUFFICES ASSUME Init PROVE SummaryAgreesWithCsv
    BY RingInit DEF ReportInv
  <2>1. PICK opened \in BOOLEAN : stats = NewRecorder(opened)
    BY CallersAssumption DEF Init
  <2>2. /\ stats.csv = << >> /\ stats.rtts_ns = << >>
        /\ stats.row_count = 0 /\ stats.loss_count = 0
    BY <2>1 DEF NewRecorder
  <2>3. \A f : CsvColumn(f) = << >>
    <3>1. DOMAIN stats.csv = {}
      BY <2>2
    <3> QED BY <3>1 DEF CsvColumn
  <2>4. Total(<< >>) = 0 /\ Positive(<< >>) = << >>
    BY TotalGrows, PositiveGrows, << >> \in Seq(Int), 0 \in Int
  <2>5. Len(<< >>) = 0
    OBVIOUS
  <2> QED
    BY <2>2, <2>3, <2>4, <2>5 DEF SummaryAgreesWithCsv, LoadedLoss, LoadedRtts
<1>2. ReportInv /\ [Next]_vars => ReportInv'
  BY ReportStep
<1> QED BY <1>1, <1>2, PTL DEF Spec

(* SummaryAgreesWithCsv, for every ring size, every width of the sequence  *)
(* numbers and every history of on_send and on_recv: while the file is     *)
(* open, its rows give analyze.py the totals and the positive samples of   *)
(* summary().                                                              *)
THEOREM ReportsAgree == Spec => []SummaryAgreesWithCsv
<1>1. ReportInv => SummaryAgreesWithCsv
  BY DEF ReportInv
<1> QED BY ReportHolds, <1>1, PTL

---------------------------------------------------------------------------
(* PercentilesAgree                                                        *)

(* Counting sets of indices.                                               *)
LEMMA SubsetCounts ==
  ASSUME NEW n \in Nat, NEW S, NEW T, S \subseteq T, T \subseteq 1 .. n
  PROVE  /\ IsFiniteSet(S) /\ Cardinality(S) \in Nat
         /\ Cardinality(T) \in Nat /\ Cardinality(S) <= Cardinality(T)
         /\ Cardinality(T) <= n
         /\ S # T => Cardinality(S) < Cardinality(T)
         /\ S # {} => Cardinality(S) >= 1
<1>1. IsFiniteSet(1 .. n) /\ Cardinality(1 .. n) = n
  BY FS_Interval, 1 \in Int, n \in Int
<1>2. IsFiniteSet(T) /\ Cardinality(T) <= n
  BY <1>1, FS_Subset
<1>3. /\ IsFiniteSet(S) /\ Cardinality(S) <= Cardinality(T)
      /\ Cardinality(S) = Cardinality(T) => S = T
  BY <1>2, FS_Subset
<1>4. Cardinality(S) \in Nat /\ Cardinality(T) \in Nat
  BY <1>2, <1>3, FS_CardinalityType
<1>5. S # {} => Cardinality(S) # 0
  BY <1>3, FS_EmptySet
<1> QED BY <1>2, <1>3, <1>4, <1>5

(* Every sequence can be sorted: index i goes to the place that is the     *)
(* number of values before it, ties in their order.                        *)
LEMMA Sortable ==
  ASSUME NEW xs \in Seq(Int)
  PROVE  Ascending(xs) # {}
<1> DEFINE n == Len(xs)
           D == 1 .. n
           B(i) == {j \in D : xs[j] < xs[i] \/ (xs[j] = xs[i] /\ j <= i)}
           place == [i \in D |-> Cardinality(B(i))]
<1>1. n \in Nat /\ DOMAIN xs = D /\ \A i \in D : xs[i] \in Int
  BY LenProperties, ElementOfSeq
<1>2. ASSUME NEW i \in D PROVE place[i] \in D
  <2>1. i \in B(i) /\ B(i) \subseteq D
    BY <1>1
  <2> HIDE DEF B
  <2>2. Cardinality(B(i)) \in Nat /\ Cardinality(B(i)) <= n
        /\ Cardinality(B(i)) >= 1
    BY <1>1, <2>1, SubsetCounts
  <2> QED BY <1>1, <2>2
<1>3. ASSUME NEW i \in D, NEW j \in D,
             xs[i] < xs[j] \/ (xs[i] = xs[j] /\ i < j)
      PROVE  place[i] < place[j]
  <2>1. B(i) \subseteq B(j) /\ B(j) \subseteq D /\ j \in B(j) /\ j \notin B(i)
    BY <1>1, <1>3
  <2> HIDE DEF B
  <2>2. Cardinality(B(i)) < Cardinality(B(j))
    BY <1>1, <2>1, SubsetCounts
  <2> QED BY <2>2
<1> HIDE DEF place
<1>4. \A i, j \in D : i # j => place[i] # place[j]
  <2> SUFFICES ASSUME NEW i \in D, NEW j \in D, i # j
               PROVE  place[i] # place[j]
    OBVIOUS
  <2>1. \/ xs[i] < xs[j] \/ (xs[i] = xs[j] /\ i < j)
        \/ xs[j] < xs[i] \/ (xs[j] = xs[i] /\ j < i)
    BY <1>1
  <2>2. place[i] < place[j] \/ place[j] < place[i]
    BY <1>3, <2>1
  <2>3. place[i] \in Int /\ place[j] \in Int
    BY <1>2
  <2> QED BY <2>2, <2>3
<1>5. \A k \in D : \E i \in D : place[i] = k
  <2>1. place \in Injection(D, D)
    BY <1>2, <1>4 DEF Injection, IsInjective, place
  <2>2. IsFiniteSet(D)
    BY <1>1, FS_Interval
  <2>3. place \in Surjection(D, D)
    BY <2>1, <2>2, FS_Injection
  <2> QED BY <2>3 DEF Surjection
<1> DEFINE order == [k \in D |-> CHOOSE i \in D : place[i] = k]
<1>6. \A k \in D : order[k] \in D /\ place[order[k]] = k
  BY <1>5
<1>7. order \in [D -> D]
  BY <1>5
<1> HIDE DEF order
<1>8. ASSUME NEW j \in D, NEW k \in D, j < k
      PROVE  order[j] # order[k] /\ xs[order[j]] <= xs[order[k]]
  <2>1. j # k
    BY <1>8
  <2>2. order[j] # order[k]
    BY <1>6, <2>1
  <2>3. ~ (xs[order[k]] < xs[order[j]])
    <3>1. ~ (k < j)
      BY <1>8
    <3> QED BY <1>3, <1>6, <3>1
  <2>4. xs[order[j]] \in Int /\ xs[order[k]] \in Int
    BY <1>1, <1>6
  <2> QED BY <2>2, <2>3, <2>4
<1>9. order \in Ascending(xs)
  BY <1>1, <1>7, <1>8 DEF Ascending
<1> QED BY <1>9

(* So Sorted is the sequence in an order in which it ascends.              *)
LEMMA SortedAscends ==
  ASSUME NEW xs \in Seq(Int)
  PROVE  \E order \in [1 .. Len(xs) -> 1 .. Len(xs)] :
           /\ \A i \in 1 .. Len(xs) : \E k \in 1 .. Len(xs) : order[k] = i
           /\ \A j, k \in 1 .. Len(xs) : j # k => order[j] # order[k]
           /\ \A j, k \in 1 .. Len(xs) :
                j <= k => xs[order[j]] <= xs[order[k]]
           /\ \A k \in 1 .. Len(xs) : Sorted(xs)[k] = xs[order[k]]
<1> DEFINE n == Len(xs)
           D == 1 .. n
           o == CHOOSE order \in Ascending(xs) : TRUE
<1>1. n \in Nat /\ DOMAIN xs = D /\ \A i \in D : xs[i] \in Int
  BY LenProperties, ElementOfSeq
<1>2. o \in Ascending(xs)
  BY Sortable
<1>3. \A k \in D : Sorted(xs)[k] = xs[o[k]]
  BY <1>1 DEF Sorted
<1> HIDE DEF o, n
<1>4. /\ o \in [D -> D]
      /\ \A j, k \in D : j < k => o[j] # o[k] /\ xs[o[j]] <= xs[o[k]]
  BY <1>1, <1>2 DEF Ascending
<1>5. \A j, k \in D : j # k => j < k \/ k < j
  BY <1>1
<1>6. \A j, k \in D : j # k => o[j] # o[k]
  BY <1>4, <1>5
<1>7. \A j, k \in D : j <= k => xs[o[j]] <= xs[o[k]]
  <2> SUFFICES ASSUME NEW j \in D, NEW k \in D, j <= k
               PROVE  xs[o[j]] <= xs[o[k]]
    OBVIOUS
  <2>1. j = k \/ j < k
    BY <1>1
  <2>2. xs[o[j]] \in Int
    BY <1>1, <1>4
  <2> QED BY <1>4, <2>1, <2>2
<1>8. \A i \in D : \E k \in D : o[k] = i
  <2>1. o \in Injection(D, D)
    BY <1>4, <1>6 DEF Injection, IsInjective
  <2>2. IsFiniteSet(D)
    BY <1>1, FS_Interval
  <2>3. o \in Surjection(D, D)
    BY <2>1, <2>2, FS_Injection
  <2> QED BY <2>3 DEF Surjection
<1> QED BY <1>3, <1>4, <1>6, <1>7, <1>8 DEF n

(* All that is not greater than x is less than a greater y.                *)
LEMMA PlaceIsOrdered ==
  ASSUME NEW xs \in Seq(Int), NEW x \in Int, NEW y \in Int, x < y
  PROVE  /\ Below(xs, x) \in Nat /\ UpTo(xs, x) \in Nat
         /\ UpTo(xs, x) <= Below(xs, y)
<1> DEFINE n == Len(xs)
           A == {i \in 1 .. n : xs[i] < x}
           B == {i \in 1 .. n : xs[i] <= x}
           C == {i \in 1 .. n : xs[i] < y}
<1>1. n \in Nat /\ DOMAIN xs = 1 .. n /\ \A i \in 1 .. n : xs[i] \in Int
  BY LenProperties, ElementOfSeq
<1>2. A \subseteq B /\ B \subseteq C /\ C \subseteq 1 .. n
  BY <1>1
<1>3. /\ Below(xs, x) = Cardinality(A) /\ UpTo(xs, x) = Cardinality(B)
      /\ Below(xs, y) = Cardinality(C)
  BY <1>1 DEF Below, UpTo
<1> HIDE DEF A, B, C, n
<1>4. /\ B \subseteq 1 .. n
  BY <1>2
<1>5. Cardinality(A) \in Nat /\ Cardinality(B) \in Nat
  BY <1>1, <1>2, <1>4, SubsetCounts
<1>6. Cardinality(B) <= Cardinality(C)
  BY <1>1, <1>2, SubsetCounts
<1> QED BY <1>3, <1>5, <1>6

(* What nth_element leaves at place k is what a sort puts there.           *)
LEMMA NthIsSorted ==
  ASSUME NEW xs \in Seq(Int), NEW k \in 0 .. Len(xs) - 1
  PROVE  NthElement(xs, k) = Sorted(xs)[k + 1]
<1> DEFINE n == Len(xs)
           D == 1 .. n
<1>1. n \in Nat /\ DOMAIN xs = D /\ \A i \in D : xs[i] \in Int
  BY LenProperties, ElementOfSeq
<1>2. k \in Nat /\ k + 1 \in D /\ k + 1 \in Nat /\ k + 1 <= n
  BY <1>1
<1>3. PICK order \in [D -> D] :
        /\ \A i \in D : \E j \in D : order[j] = i
        /\ \A i, j \in D : i # j => order[i] # order[j]
        /\ \A i, j \in D : i <= j => xs[order[i]] <= xs[order[j]]
        /\ \A j \in D : Sorted(xs)[j] = xs[order[j]]
  BY SortedAscends
<1> DEFINE v == xs[order[k + 1]]
           Front(m) == {order[j] : j \in 1 .. m}
           Lower == {i \in D : xs[i] < v}
           Upper == {i \in D : xs[i] <= v}
<1>4. v \in Range(xs) /\ v \in Int
  <2>1. order[k + 1] \in D
    BY <1>2, <1>3
  <2> QED BY <1>1, <2>1 DEF Range
<1>5. ASSUME NEW m \in 0 .. n
      PROVE  Front(m) \subseteq D /\ Cardinality(Front(m)) = m
  <2> DEFINE part == [j \in 1 .. m |-> order[j]]
  <2>1. m \in Nat /\ \A j \in 1 .. m : j \in D
    BY <1>1
  <2>2. Front(m) \subseteq D
    <3>1. \A j \in 1 .. m : order[j] \in D
      BY <1>3, <2>1
    <3> QED BY <3>1
  <2>3. part \in Bijection(1 .. m, Front(m))
    <3>1. part \in [1 .. m -> Front(m)]
      OBVIOUS
    <3>2. \A i, j \in 1 .. m : part[i] = part[j] => i = j
      BY <1>3, <2>1
    <3>3. \A e \in Front(m) : \E j \in 1 .. m : part[j] = e
      OBVIOUS
    <3> HIDE DEF part, Front
    <3> QED BY <3>1, <3>2, <3>3
            DEF Bijection, Injection, Surjection, IsInjective
  <2>4. IsFiniteSet(1 .. m) /\ Cardinality(1 .. m) = m
    BY <2>1, FS_Interval, 1 \in Int, m \in Int
  <2> HIDE DEF part, Front
  <2>5. Cardinality(Front(m)) = Cardinality(1 .. m)
    BY <2>3, <2>4, FS_Bijection DEF ExistsBijection
  <2> QED BY <2>2, <2>4, <2>5
<1>6. Lower \subseteq Front(k)
  <2> SUFFICES ASSUME NEW i \in D, xs[i] < v
               PROVE  i \in Front(k)
    OBVIOUS
  <2>1. PICK j \in D : order[j] = i
    BY <1>3
  <2>2. ~ (k + 1 <= j)
    <3>1. k + 1 <= j => v <= xs[i]
      BY <1>2, <1>3, <2>1
    <3>2. xs[i] \in Int
      BY <1>1
    <3> HIDE DEF v
    <3> QED BY <1>4, <3>1, <3>2
  <2>3. j \in 1 .. k
    BY <1>2, <2>2
  <2> QED BY <2>1, <2>3
<1>7. Front(k + 1) \subseteq Upper
  <2> SUFFICES ASSUME NEW j \in 1 .. k + 1
               PROVE  order[j] \in D /\ xs[order[j]] <= v
    OBVIOUS
  <2>1. j \in D /\ j <= k + 1
    BY <1>2
  <2> QED BY <1>2, <1>3, <2>1
<1>8. Below(xs, v) = Cardinality(Lower) /\ UpTo(xs, v) = Cardinality(Upper)
  BY <1>1 DEF Below, UpTo
<1>9. Upper \subseteq D /\ k \in 0 .. n /\ k + 1 \in 0 .. n
  BY <1>1, <1>2
<1> HIDE DEF v, Front, Lower, Upper
<1>10. Below(xs, v) <= k
  <2>1. Cardinality(Front(k)) = k /\ Front(k) \subseteq 1 .. n
    BY <1>5, <1>9
  <2>2. Cardinality(Lower) <= Cardinality(Front(k))
    BY <1>1, <1>6, <2>1, SubsetCounts
  <2> QED BY <1>8, <2>1, <2>2
<1>11. k < UpTo(xs, v)
  <2>1. Cardinality(Front(k + 1)) = k + 1
    BY <1>5, <1>9
  <2>2. /\ Cardinality(Front(k + 1)) <= Cardinality(Upper)
        /\ Cardinality(Upper) \in Nat
    BY <1>1, <1>7, <1>9, SubsetCounts
  <2> QED BY <1>2, <1>8, <2>1, <2>2
<1>12. \A x \in Range(xs) : Below(xs, x) <= k /\ k < UpTo(xs, x) => x = v
  <2> SUFFICES ASSUME NEW x \in Range(xs),
                      Below(xs, x) <= k, k < UpTo(xs, x)
               PROVE  x = v
    OBVIOUS
  <2>1. x \in Int
    BY <1>1 DEF Range
  <2>2. ~ (x < v)
    <3>1. x < v => UpTo(xs, x) <= Below(xs, v) /\ UpTo(xs, x) \in Nat
      BY <1>4, <2>1, PlaceIsOrdered
    <3>2. v - 1 < v /\ v < v + 1 /\ v + 1 \in Int
      BY <1>4
    <3>3. Below(xs, v) \in Nat
      BY <1>4, <3>2, PlaceIsOrdered
    <3> QED BY <1>2, <1>10, <3>1, <3>3
  <2>3. ~ (v < x)
    <3>1. v < x => UpTo(xs, v) <= Below(xs, x) /\ UpTo(xs, v) \in Nat
      BY <1>4, <2>1, PlaceIsOrdered
    <3>2. x < x + 1 /\ x + 1 \in Int
      BY <2>1
    <3>3. Below(xs, x) \in Nat
      BY <2>1, <3>2, PlaceIsOrdered
    <3> QED BY <1>2, <1>11, <3>1, <3>3
  <2> QED BY <1>4, <2>1, <2>2, <2>3
<1>13. NthElement(xs, k) = v
  BY <1>4, <1>10, <1>11, <1>12 DEF NthElement
<1> QED BY <1>2, <1>3, <1>13 DEF v

(* At the last place it is the greatest value.                             *)
LEMMA LastIsGreatest ==
  ASSUME NEW xs \in Seq(Int), xs # << >>
  PROVE  /\ NthElement(xs, Len(xs) - 1) \in Range(xs)
         /\ \A x \in Range(xs) : x <= NthElement(xs, Len(xs) - 1)
<1> DEFINE n == Len(xs)
           D == 1 .. n
<1>1. n \in Nat /\ DOMAIN xs = D /\ \A i \in D : xs[i] \in Int
  BY LenProperties, ElementOfSeq
<1>2. n # 0 /\ n - 1 \in 0 .. n - 1 /\ n \in D /\ (n - 1) + 1 = n
  <2>1. n # 0
    BY EmptySeq
  <2> QED BY <1>1, <2>1
<1>3. PICK order \in [D -> D] :
        /\ \A i \in D : \E j \in D : order[j] = i
        /\ \A i, j \in D : i <= j => xs[order[i]] <= xs[order[j]]
        /\ \A j \in D : Sorted(xs)[j] = xs[order[j]]
  BY SortedAscends
<1>4. NthElement(xs, n - 1) = xs[order[n]]
  <2>1. NthElement(xs, n - 1) = Sorted(xs)[(n - 1) + 1]
    BY <1>2, NthIsSorted
  <2> QED BY <1>2, <1>3, <2>1
<1>5. order[n] \in D
  BY <1>2, <1>3
<1>6. \A i \in D : xs[i] <= xs[order[n]]
  <2> SUFFICES ASSUME NEW i \in D PROVE xs[i] <= xs[order[n]]
    OBVIOUS
  <2>1. PICK j \in D : order[j] = i
    BY <1>3
  <2>2. j <= n
    BY <1>1
  <2> QED BY <1>2, <1>3, <2>1, <2>2
<1> QED BY <1>1, <1>4, <1>5, <1>6 DEF Range

(* The rank of a percentile is a place in the sequence.                    *)
LEMMA RankIsIndex ==
  ASSUME NEW n \in Nat, n # 0, NEW p \in Percentiles
  PROVE  Rank(n, p) \in 0 .. n - 1
<1>1. \/ p = [num |-> 1, den |-> 2] \/ p = [num |-> 9, den |-> 10]
      \/ p = [num |-> 99, den |-> 100] \/ p = [num |-> 999, den |-> 1000]
  BY DEF Percentiles
<1> DEFINE k == n - 1
<1>2. k \in Nat
  OBVIOUS
<1> HIDE DEF k
<1>3. /\ (1 * k) \div 2 \in 0 .. k /\ (9 * k) \div 10 \in 0 .. k
      /\ (99 * k) \div 100 \in 0 .. k /\ (999 * k) \div 1000 \in 0 .. k
  BY <1>2
<1>4. Rank(n, p) \in 0 .. k
  BY <1>1, <1>3 DEF Rank, k
<1> QED BY <1>4 DEF k

(* The same samples give the same percentiles, and the samples that load() *)
(* drops are never the greatest.                                           *)
LEMMA ReportsCoincide ==
  ASSUME RingInv, SummaryAgreesWithCsv
  PROVE  PercentilesAgree
<1> DEFINE rtts == stats.rtts_ns
           kept == LoadedRtts
<1> SUFFICES ASSUME stats.csv_open, kept # << >>
             PROVE  /\ SummaryMax = LoadedMax
                    /\ Len(kept) = Len(rtts) =>
                         \A p \in Percentiles :
                           SummaryPercentile(p) = LoadedPercentiles[p]
  BY DEF PercentilesAgree
<1>1. rtts \in Seq(Int)
  BY DEF RingInv, TypeOK, Recorder
<1>2. kept = Positive(rtts)
  BY DEF SummaryAgreesWithCsv
<1>3. Filtered(rtts, kept)
  BY <1>1, <1>2, PositiveFilters
<1>4. SummaryMax = NthElement(rtts, Len(rtts) - 1)
  BY DEF SummaryMax
<1>5. LoadedMax = CHOOSE x \in Range(kept) : \A y \in Range(kept) : y <= x
  BY DEF LoadedMax
<1>6. \A p \in Percentiles :
        /\ SummaryPercentile(p) = NthElement(rtts, Rank(Len(rtts), p))
        /\ LoadedPercentiles[p] = Sorted(kept)[Rank(Len(kept), p) + 1]
  BY DEF SummaryPercentile, LoadedPercentiles
<1> HIDE DEF rtts, kept
<1>7. /\ kept \in Seq(Int) /\ Len(kept) <= Len(rtts)
      /\ Range(kept) = {x \in Range(rtts) : x > 0}
      /\ Len(kept) = Len(rtts) => kept = rtts
  BY <1>3 DEF Filtered
<1>8. rtts # << >>
  <2>1. Len(kept) \in Nat /\ Len(kept) # 0
    BY <1>7, LenProperties, EmptySeq
  <2> QED BY <1>1, <1>7, <2>1, Len(<< >>) = 0
<1>9. SummaryMax = LoadedMax
  <2> DEFINE x == NthElement(rtts, Len(rtts) - 1)
  <2>1. x \in Range(rtts) /\ \A y \in Range(rtts) : y <= x
    BY <1>1, <1>8, LastIsGreatest
  <2> HIDE DEF x
  <2>2. \A y \in Range(rtts) : y \in Int
    BY <1>1, ElementOfSeq, LenProperties DEF Range
  <2>3. PICK z \in Range(kept) : TRUE
    <3>1. 1 \in DOMAIN kept
      BY <1>7, LenProperties, EmptySeq
    <3> QED BY <3>1 DEF Range
  <2>4. x \in Range(kept)
    <3>1. z \in Int /\ z > 0 /\ z <= x /\ x \in Int
      BY <1>7, <2>1, <2>2, <2>3
    <3>2. x > 0
      BY <3>1
    <3> QED BY <1>7, <2>1, <3>2
  <2>5. \A y \in Range(kept) : y <= x
    BY <1>7, <2>1
  <2>6. ASSUME NEW w \in Range(kept), \A y \in Range(kept) : y <= w
        PROVE  w = x
    <3>1. w <= x /\ x <= w /\ w \in Int /\ x \in Int
      BY <1>7, <2>1, <2>2, <2>4, <2>5, <2>6
    <3> QED BY <3>1
  <2>7. LoadedMax = x
    BY <1>5, <2>4, <2>5, <2>6
  <2> QED BY <1>4, <2>7 DEF x
<1>10. ASSUME Len(kept) = Len(rtts), NEW p \in Percentiles
       PROVE  SummaryPercentile(p) = LoadedPercentiles[p]
  <2>1. kept = rtts
    BY <1>7, <1>10
  <2>2. Len(rtts) \in Nat /\ Len(rtts) # 0
    BY <1>1, <1>8, LenProperties, EmptySeq
  <2>3. Rank(Len(rtts), p) \in 0 .. Len(rtts) - 1
    BY <2>2, RankIsIndex
  <2>4. NthElement(rtts, Rank(Len(rtts), p)) =
          Sorted(rtts)[Rank(Len(rtts), p) + 1]
    BY <1>1, <2>3, NthIsSorted
  <2> QED BY <1>6, <2>1, <2>4
<1> QED BY <1>9, <1>10

(* PercentilesAgree, for every history: stats.cpp and analyze.py report    *)
(* the same maximum, and the same percentiles as long as no sample is zero *)
(* or negative.                                                            *)
THEOREM PercentilesCoincide == Spec => []PercentilesAgree
<1>1. ReportInv => PercentilesAgree
  BY ReportsCoincide DEF ReportInv
<1> QED BY ReportHolds, <1>1, PTL
==============================================================================
