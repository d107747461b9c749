----------------------------- MODULE Histograms -----------------------------
(***************************************************************************)
(* Latency histograms with fixed boundaries: recorded by agents, merged by *)
(* buckets of the ring and by the backend, and read as percentiles.        *)
(***************************************************************************)
EXTENDS Integers, Sequences, FiniteSets, SequencesExt, FiniteSetsExt, Functions

CONSTANTS
  Boundaries,           \* upper bounds of the buckets, ascending
  Values, Recorders, Percents, MinCount, MaxValues

VARIABLES
  taken,     \* [recorder -> values taken, in order]
  histogram     \* [recorder -> its histogram]

histogramVars == <<taken, histogram>>

None == -1
Overflow == Len(Boundaries) + 1
Empty == [count |-> 0, sum |-> 0, min |-> None, max |-> None,
          buckets |-> [i \in 1 .. Overflow |-> 0]]
Smaller(a, b) == IF a = None THEN b ELSE IF b = None THEN a ELSE Min({a, b})
Larger(a, b) == Max({a, b})

BucketOf(v) == LET fits == {i \in DOMAIN Boundaries : v <= Boundaries[i]} IN
               IF fits = {} THEN Overflow ELSE Min(fits)
Recorded(h, v) ==
  [count |-> h.count + 1, sum |-> h.sum + v, min |-> Smaller(h.min, v), max |-> Larger(h.max, v),
   buckets |-> [h.buckets EXCEPT ![BucketOf(v)] = @ + 1]]
Merged(g, h) ==
  [count |-> g.count + h.count, sum |-> g.sum + h.sum,
   min |-> Smaller(g.min, h.min), max |-> Larger(g.max, h.max),
   buckets |-> [i \in DOMAIN g.buckets |-> g.buckets[i] + h.buckets[i]]]

(* percentile, as a fraction: interpolated in the first bucket that reaches
   the rank, from the bound of the bucket before it. *)
Below(h, i) == MapThenSumSet(LAMBDA j : h.buckets[j], 1 .. (i - 1))
Lower(i) == IF i = 1 THEN 0 ELSE Boundaries[i - 1]
Upper(h, i) == IF i < Overflow THEN Boundaries[i] ELSE IF h.max = None THEN Lower(i) ELSE h.max
Reaches(h, i, p) == 100 * (Below(h, i) + h.buckets[i]) >= p * h.count
Percentile(h, p) ==
  IF h.count < MinCount \/ h.count = 0 THEN <<None, 1>>
  ELSE LET i == Min({j \in 1 .. Overflow : Reaches(h, j, p)})
           n == h.buckets[i]
       IN IF n = 0 THEN <<Upper(h, i), 1>>
          ELSE <<Lower(i) * 100 * n + (p * h.count - 100 * Below(h, i)) * (Upper(h, i) - Lower(i)), 100 * n>>

HistogramInit == /\ taken = [r \in Recorders |-> <<>>]
                 /\ histogram = [r \in Recorders |-> Empty]
RecordValue(r, v) ==
  /\ Len(taken[r]) < MaxValues
  /\ taken' = [taken EXCEPT ![r] = Append(@, v)]
  /\ histogram' = [histogram EXCEPT ![r] = Recorded(@, v)]
HistogramNext == \E r \in Recorders, v \in Values : RecordValue(r, v)

-----------------------------------------------------------------------------

All == FoldSet(LAMBDA r, s : s \o taken[r], <<>>, Recorders)
AllMerged == FoldSet(LAMBDA r, h : Merged(h, histogram[r]), Empty, Recorders)
NotAbove(x, y) == x[1] * y[2] <= y[1] * x[2]
ExactRank(p) ==  \* the smallest value that p percent of the values do not exceed
  Min({v \in ToSet(All) : 100 * Cardinality({i \in DOMAIN All : All[i] <= v}) >= p * Len(All)})

(* FR-STM-004, FR-QRY-012: merged histograms are the histogram of all the values;
   percentiles do not fall as the percentage grows, and each lies in the
   bucket of the value that has its rank. *)
HistogramsMerge ==
  LET h == AllMerged IN
  /\ h = FoldLeft(Recorded, Empty, All)
  /\ Len(All) >= MinCount /\ All # <<>> =>
       /\ \A p, q \in Percents : p <= q => NotAbove(Percentile(h, p), Percentile(h, q))
       /\ \A p \in Percents \ {0} :
            LET i == BucketOf(ExactRank(p)) IN
            /\ NotAbove(<<Lower(i), 1>>, Percentile(h, p))
            /\ NotAbove(Percentile(h, p), <<Upper(h, i), 1>>)

=============================================================================
