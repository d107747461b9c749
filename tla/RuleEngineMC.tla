----------------------------- MODULE RuleEngineMC -----------------------------
(***************************************************************************)
(* Instances of RuleEngine: the rules, files and metrics TLC runs it on.   *)
(***************************************************************************)
EXTENDS RuleEngine

Tier1(t) == <<[severity |-> "warning", threshold |-> t]>>
Tier2(t, u) == Tier1(t) \o <<[severity |-> "critical", threshold |-> u]>>

BaseRule ==
  [name |-> "NoLogActivity", kind |-> "threshold", source |-> "gauge",
   metric |-> "silence", operator |-> ">", tiers |-> Tier1(5), window |-> Absent,
   minSamples |-> 0, guardMetric |-> Absent, extraCounters |-> <<>>,
   signature |-> Absent, level |-> Absent, for |-> 0, resolveAfter |-> 0,
   dependsOnLog |-> FALSE, actions |-> <<>>, state |-> "active",
   baseline |-> 0, baselineMinSamples |-> 0, enabled |-> TRUE]

NoLogActivity == BaseRule
Rejects == [BaseRule EXCEPT !.name = "Rejects", !.kind = "rate", !.source = "indicator",
              !.metric = "reject_rate", !.tiers = Tier2(3, 5), !.window = "1m",
              !.minSamples = 2, !.for = 1, !.resolveAfter = 1, !.dependsOnLog = TRUE]
Memory == [BaseRule EXCEPT !.name = "Memory", !.kind = "signature", !.source = "counter",
              !.metric = "signatures", !.tiers = Tier1(0), !.window = "5m",
              !.signature = "oom", !.dependsOnLog = TRUE]
Fatal == [BaseRule EXCEPT !.name = "Fatal", !.source = "counter", !.metric = "errors",
              !.operator = ">=", !.tiers = Tier1(1), !.window = "1m", !.level = "F"]
NoFills == [BaseRule EXCEPT !.name = "NoFills", !.kind = "absence", !.source = "counter",
              !.metric = "fills", !.operator = "==", !.tiers = Tier1(0), !.window = "1m",
              !.guardMetric = "orders", !.for = 1, !.dependsOnLog = TRUE]
Slow == [BaseRule EXCEPT !.name = "Slow", !.kind = "latency", !.source = "latency_p95",
              !.metric = "ack", !.tiers = Tier2(5, 9), !.window = "1m", !.minSamples = 2]
Abnormal == [BaseRule EXCEPT !.name = "Abnormal", !.kind = "anomaly", !.source = "indicator",
              !.metric = "reject_rate", !.tiers = Tier1(40), !.window = "2t",
              !.minSamples = 1, !.baseline = 6, !.baselineMinSamples = 2]

File(rs) == [yaml |-> "ok", rules |-> rs, anomalies |-> <<>>, actions |-> {}]
Trading == File(<<NoLogActivity, Rejects>>)
Crowded == File(<<Memory, Fatal>>)
Drafted == File(<<NoLogActivity, [Rejects EXCEPT !.state = "draft"], Memory>>)
Others == File(<<NoFills, Slow>>)
Typo == File(<<Memory, [Rejects EXCEPT !.metric = "rejct_rate"]>>)
BadWindow == File(<<Memory, [Fatal EXCEPT !.window = "2m", !.level = Absent]>>)
Refused == File(<<Rejects, [Rejects EXCEPT !.actions = <<"page">>]>>)
Broken == [Trading EXCEPT !.yaml = "unreadable"]
Missing == [Trading EXCEPT !.yaml = "absent", !.rules = <<>>]
Learning == [File(<<NoLogActivity>>) EXCEPT !.anomalies = <<Abnormal>>]

MCDefaultRules == <<NoLogActivity>>
MCWindowNames == <<"1m", "2m", "2t", "5m">>
MCWindowTicks == [w \in {"1m", "2t", "5m"} |-> IF w = "2t" THEN 2 ELSE 1]
MCAnomalyMetrics ==
  [m \in {"reject_rate"} |-> [kind |-> "ratio", numerators |-> <<"rejects">>,
                              denominators |-> <<"orders">>, histogram |-> Absent]]

Group(dims, counters, rate, samples, p95) ==
  [dims |-> dims, counters |-> counters,
   indicators |-> [m \in {"reject_rate"} |-> [value |-> Whole(rate), denominator |-> samples]],
   latency |-> [m \in {"ack"} |-> [count |-> samples, p95 |-> Whole(p95)]]]
(* One state of the metrics: reject rate, order samples, fatal lines and
   out-of-memory lines, and the seconds since the last event. *)
Metrics(rate, samples, fatal, oom, quiet) ==
  [groups |-> [p \in {"1m", "2t", "5m"} \X {Absent, "error_signature", "level"} |->
     CASE p[2] = Absent ->
            <<Group(<<>>, [c \in {"orders", "rejects", "fills"} |->
                      CASE c = "orders" -> samples [] c = "rejects" -> rate
                        [] c = "fills" -> IF rate = 0 THEN 1 ELSE 0], rate, samples, rate)>>
       [] p[2] = "level" ->
            IF fatal = 0 THEN <<>>
            ELSE <<Group([d \in {"level"} |-> "F"], [c \in {"errors"} |-> fatal], 0, 0, 0)>>
       [] p[2] = "error_signature" ->
            IF oom = 0 THEN <<>>
            ELSE <<Group([d \in {"error_signature"} |-> "oom"], [c \in {"signatures"} |-> oom], 0, 0, 0)>>],
   gauges |-> [g \in {"silence"} |-> Whole(quiet)]]

MCTelemetry ==
  [t \in {"calm", "poor", "worse", "silent"} |->
     CASE t = "calm" -> Metrics(0, 2, 0, 0, 0)
       [] t = "poor" -> Metrics(4, 2, 0, 0, 0)
       [] t = "worse" -> Metrics(6, 2, 1, 1, 0)
       [] t = "silent" -> Metrics(0, 0, 0, 0, 9)]
MCFiles ==
  [trading |-> Trading, crowded |-> Crowded, drafted |-> Drafted, others |-> Others,
   typo |-> Typo, badWindow |-> BadWindow, refused |-> Refused,
   broken |-> Broken, missing |-> Missing, learning |-> Learning]

(* For liveness: one accepted file, one with a draft, one refused, and one that
   cannot be read. *)
LiveFiles == [trading |-> Trading, drafted |-> Drafted, refused |-> Refused, broken |-> Broken]
LiveTelemetry == [t \in {"calm", "worse", "silent"} |-> MCTelemetry[t]]
=============================================================================
