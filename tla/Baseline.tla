------------------------------- MODULE Baseline -------------------------------
(***************************************************************************)
(* The baseline an anomaly rule learns: one sample per non-overlapping     *)
(* window, anomalous windows left out.  Pure operators: RuleEngine keeps   *)
(* one baseline per rule and Age lets time pass.                           *)
(*                                                                         *)
(* A baseline is a record [shape, history, pending, lastAnomalous]; a      *)
(* sample is [age, value, weight].  Ages count evaluations and stop at     *)
(* AgeCap, which is past every window and every baseline length.           *)
(***************************************************************************)
EXTENDS RuleFiles

CONSTANTS
  MIN_BASELINE_WINDOWS,
  AgeCap,
  AnomalyMetrics  \* [metric -> [kind, numerators, denominators, histogram]]

ASSUME BaselineAssumption ==
  /\ AgeCap \in Nat \ {0} /\ MIN_BASELINE_WINDOWS \in Nat \ {0}
  /\ DOMAIN WindowNames \subseteq Nat
  /\ DOMAIN WindowTicks # {} /\ DOMAIN WindowTicks \subseteq ToSet(WindowNames) \ {Absent}
  /\ \A w \in DOMAIN WindowTicks : WindowTicks[w] \in Nat \ {0}

Never == AgeCap
NoBaseline == [shape |-> <<>>, history |-> <<>>, pending |-> <<>>, lastAnomalous |-> Never]

Older(age) == IF age < AgeCap THEN age + 1 ELSE age
AgeSample(x) == [x EXCEPT !.age = Older(@)]
Aged(b) == [b EXCEPT !.history = [i \in DOMAIN @ |-> AgeSample(@[i])],
                     !.pending = [i \in DOMAIN @ |-> AgeSample(@[i])],
                     !.lastAnomalous = Older(@)]

Shape(r) == <<r.metric, r.window, r.baseline>>
StateOf(r, b) == IF b.shape = Shape(r) THEN b ELSE [NoBaseline EXCEPT !.shape = Shape(r)]

(* A pending sample joins once its window is over; samples past the horizon
   leave, never below the minimum. *)
Promote(r, b) ==
  LET due == b.pending # <<>> /\ b.pending[1].age >= WindowTicks[r.window]
      joined == IF due THEN b.history \o b.pending ELSE b.history
      stale == Cardinality({i \in DOMAIN joined : joined[i].age > r.baseline})
      spare == Len(joined) - MIN_BASELINE_WINDOWS
      gone == IF spare <= 0 THEN 0 ELSE IF stale < spare THEN stale ELSE spare
  IN [b EXCEPT !.history = SubSeq(joined, gone + 1, Len(joined)),
               !.pending = IF due THEN <<>> ELSE @]

SumOf(g, names) == FoldLeft(LAMBDA sum, c : sum + Get(g.counters, c, 0), 0, names)
NoSample == [age |-> 0, value |-> 0, weight |-> 0]
CurrentSample(r, s) ==
  LET m == AnomalyMetrics[r.metric]
      g == s.groups[1]
      l == Get(g.latency, m.histogram, [count |-> 0, p95 |-> NoReading])
      den == SumOf(g, m.denominators)
  IN IF s.groups = <<>> THEN NoSample
     ELSE IF m.kind = "latency"
     THEN IF l.p95 = NoReading \/ l.count < r.minSamples THEN NoSample
          ELSE [age |-> 0, value |-> l.p95.num, weight |-> l.count]
     ELSE IF den <= 0 \/ den < r.minSamples THEN NoSample
          ELSE [age |-> 0, value |-> SumOf(g, m.numerators), weight |-> den]

Total(h, F(_)) == FoldLeft(LAMBDA sum, x : sum + F(x), 0, h)
Weight(h) == Total(h, LAMBDA x : x.weight)

(* The median of the values, as a rational. *)
Median(h) ==
  LET v == SortSeq([i \in DOMAIN h |-> h[i].value], <)
      n == Len(h)
  IN IF n % 2 = 1 THEN Whole(v[(n + 1) \div 2])
     ELSE [num |-> v[n \div 2] + v[n \div 2 + 1], den |-> 2]

BaselineValue(r, h) ==
  IF AnomalyMetrics[r.metric].kind = "latency" THEN Median(h)
  ELSE [num |-> Total(h, LAMBDA x : x.value), den |-> Weight(h)]
CurrentValue(r, x) ==
  IF AnomalyMetrics[r.metric].kind = "latency" THEN Whole(x.value)
  ELSE [num |-> x.value, den |-> x.weight]

Trusted(r, b, warm) ==
  /\ warm /\ Len(b.history) >= MIN_BASELINE_WINDOWS
  /\ BaselineValue(r, b.history).num # 0 /\ BaselineValue(r, b.history).den # 0
  /\ Weight(b.history) >= r.baselineMinSamples

(* (current - baseline) / baseline, in hundredths. *)
Deviation(r, b, x) ==
  LET c == CurrentValue(r, x)
      base == BaselineValue(r, b.history)
  IN [num |-> 100 * (c.num * base.den - base.num * c.den), den |-> base.num * c.den]

OfferSoon(r, b, x, warm, anomalous) ==  \* mutant: an anomaly spoils its own sample only
  IF anomalous \/ ~warm \/ b.pending # <<>> THEN b ELSE [b EXCEPT !.pending = <<x>>]
Offer(r, b, x, warm, anomalous) ==
  IF \/ anomalous \/ ~warm \/ b.pending # <<>>
     \/ b.lastAnomalous # Never /\ b.lastAnomalous < WindowTicks[r.window]
  THEN b ELSE [b EXCEPT !.pending = <<x>>]

(* assess: the reading, NoReading while it cannot be judged. *)
Assess(r, b, s, warm) ==
  LET p == Promote(r, StateOf(r, b))
      x == CurrentSample(r, s)
  IN IF x = NoSample THEN [baseline |-> p, reading |-> NoReading, sample |-> x]
     ELSE IF ~Trusted(r, p, warm)
     THEN [baseline |-> Offer(r, p, x, warm, FALSE), reading |-> NoReading, sample |-> x]
     ELSE [baseline |-> p, reading |-> Deviation(r, p, x), sample |-> x]

(* settle: a window the rule found anomalous stays out. *)
Settle(r, a, anomalous) ==
  IF a.reading = NoReading THEN a.baseline
  ELSE Offer(r, IF anomalous THEN [a.baseline EXCEPT !.lastAnomalous = 0] ELSE a.baseline,
             a.sample, TRUE, anomalous)

=============================================================================
