------------------------------ MODULE RuleFiles ------------------------------
(***************************************************************************)
(* What the agent reads a rule from: a rules file with the anomaly file    *)
(* beside it, and a snapshot of the metrics.                               *)
(*                                                                         *)
(* A file is a record [yaml, rules, anomalies, actions].  A rule is a      *)
(* record with the fields of RuleConfig that steer the engine.  A value    *)
(* that a rule reads is a rational [num, den]; den = 0 is "no reading".    *)
(* Ratios are in hundredths.                                               *)
(***************************************************************************)
EXTENDS Integers, Sequences, FiniteSets, SequencesExt

CONSTANTS
  WindowNames,    \* window names a file may hold, in their order
  WindowTicks,    \* the aggregator's windows: [name -> length in evaluations]
  Counters,       \* counters that have a level dimension
  Indicators,     \* ratios a snapshot computes
  DefaultRules    \* DEFAULT_RULES

NoReading == [num |-> 0, den |-> 0]
Whole(n) == [num |-> n, den |-> 1]
Absent == "none"        \* None, for an optional name

-----------------------------------------------------------------------------
(* Loading: what is accepted, and what comes out. *)

Operators == {">", ">=", "<", "<=", "=="}
Levels == {"N", "W", "E", "I", "F"}

WellFormed(r) ==
  /\ r.operator \in Operators
  /\ r.kind # "anomaly"
  /\ (r.kind = "signature") = (r.signature # Absent)
  /\ r.level # Absent => /\ r.kind = "threshold"
                         /\ r.metric \in Counters
                         /\ r.level \in Levels
  /\ r.tiers # <<>>

NoDuplicates(rs) == \A i, j \in DOMAIN rs : rs[i].name = rs[j].name => i = j
ActionsDefined(r, actions) == \A i \in DOMAIN r.actions : r.actions[i] \in actions

(* An entry of anomaly.yaml: its window is one of the aggregator's, and three
   of them fit in the baseline. *)
AnomalyWellFormed(r) ==
  /\ r.window \in DOMAIN WindowTicks
  /\ r.baseline >= 3 * WindowTicks[r.window]
  /\ r.tiers # <<>>
EnabledAnomalies(f) == SelectSeq(f.anomalies, LAMBDA r : r.enabled)

BaseRules(f) == IF f.yaml = "absent" THEN DefaultRules ELSE f.rules
LoadRules(f) == BaseRules(f) \o EnabledAnomalies(f)

(* RuleConfigError: the reload is rejected and everything stays.  The actions
   are staged before the rules are applied. *)
Accepted(f) ==
  /\ f.yaml \in {"ok", "absent"}
  /\ f.yaml = "ok" =>
       /\ f.rules # <<>> /\ NoDuplicates(f.rules)
       /\ \A i \in DOMAIN f.rules : /\ WellFormed(f.rules[i])
                                    /\ ActionsDefined(f.rules[i], f.actions)
  /\ \A i \in DOMAIN f.anomalies : AnomalyWellFormed(f.anomalies[i])
  /\ NoDuplicates(LoadRules(f))

(* Anything else than RuleConfigError leaves reload: the text cannot be read. *)
Unreadable(f) == f.yaml = "unreadable"

-----------------------------------------------------------------------------
(* Reading a snapshot [window, groupBy, groups, gauges]; a group is a record
   [dims, counters, indicators, latency] of functions. *)

NoGroup == [dims |-> <<>>, counters |-> <<>>, indicators |-> <<>>, latency |-> <<>>]
Get(f, x, default) == IF x \in DOMAIN f THEN f[x] ELSE default

GroupKey(r) == IF r.kind = "signature" THEN "error_signature"
               ELSE IF r.level # Absent THEN "level" ELSE Absent
GroupLabel(r) == IF r.kind = "signature" THEN r.signature ELSE r.level

EvaluatesOn(r, s) == s.groupBy = GroupKey(r)
RuleGroup(r, s) ==
  LET own == SelectSeq(s.groups, LAMBDA g : GroupKey(r) = Absent \/
                       Get(g.dims, GroupKey(r), Absent) = GroupLabel(r))
  IN IF own = <<>> THEN NoGroup ELSE own[1]

(* getattr on the indicators: a name the snapshot does not have raises. *)
ReadRaises(r, s) ==
  /\ r.kind = "rate" /\ s.groups # <<>> /\ r.metric \notin Indicators

ReadCounterSum(r, g) ==
  Whole(FoldLeft(LAMBDA sum, c : sum + Get(g.counters, c, 0),
                 Get(g.counters, r.metric, 0), r.extraCounters))
ReadIndicator(r, g) ==
  LET i == Get(g.indicators, r.metric, [value |-> NoReading, denominator |-> 0])
  IN IF i.denominator < r.minSamples THEN NoReading ELSE i.value
ReadLatency(r, g) ==
  LET l == Get(g.latency, r.metric, [count |-> 0, p95 |-> NoReading])
  IN IF l.count < r.minSamples THEN NoReading ELSE l.p95
ReadAbsence(r, g) ==
  IF r.guardMetric # Absent /\ Get(g.counters, r.guardMetric, 0) <= 0
  THEN NoReading ELSE ReadCounterSum(r, g)
ReadGauge(r, s) == Get(s.gauges, r.metric, NoReading)

ReadObserved(r, s) ==
  LET g == RuleGroup(r, s) IN
  CASE r.kind = "rate" -> ReadIndicator(r, g)
    [] r.kind = "latency" -> ReadLatency(r, g)
    [] r.kind = "absence" -> ReadAbsence(r, g)
    [] OTHER -> IF r.source = "gauge" THEN ReadGauge(r, s) ELSE ReadCounterSum(r, g)

Holds(op, x, threshold) ==
  LET t == threshold * x.den IN
  CASE op = ">" -> x.num > t [] op = ">=" -> x.num >= t
    [] op = "<" -> x.num < t [] op = "<=" -> x.num <= t [] op = "==" -> x.num = t

(* The last tier whose condition holds; 0 for none. *)
MatchedTier(r, x) ==
  LET met == {i \in DOMAIN r.tiers : x # NoReading /\ Holds(r.operator, x, r.tiers[i].threshold)}
  IN IF met = {} THEN 0 ELSE CHOOSE i \in met : \A j \in met : j <= i

=============================================================================
