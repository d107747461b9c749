----------------------------- MODULE NlLanguage -----------------------------
(***************************************************************************)
(* What a question in words says, as far as answers depend on it: which    *)
(* patterns of which intents it matches, what it says of the time, and     *)
(* what it names.  A question is [small, hits, when, names]:               *)
(*   small   the pleasantry it is as a whole, or "none"                    *)
(*   hits    [intent -> "strong" or "weak"], the intents whose patterns hit *)
(*   when    [phrase -> what it says], the phrases of time in it           *)
(*   names   the dimensions it names a value of                            *)
(* Times are in units of half an hour; a day begins at the user's midnight. *)
(***************************************************************************)
EXTENDS Integers, Sequences, FiniteSets, SequencesExt, FiniteSetsExt, Functions

CONSTANTS
  Day, Zone, Morning,   \* units in a day, of the user's zone, before 6:00
  MaxRange,             \* max_range_seconds and retention_window_seconds
  DefaultLast           \* defaultTimeRange

Relative(n) == [kind |-> "last", n |-> n]
Absolute(from, to) == [kind |-> "absolute", from |-> from, to |-> to]
Unparsable == [kind |-> "junk"]

-----------------------------------------------------------------------------

(* The intents in the order of the patterns, and what each asks for. *)
Order == <<"symbol_drilldown", "rejection_summary", "order_flow_summary", "latency_summary",
           "alert_status", "session_status", "agent_health", "parse_health", "compare_period", "trend">>
Intents == ToSet(Order)
Priority(i) == CASE i = "symbol_drilldown" -> 10 [] i = "rejection_summary" -> 5 [] OTHER -> 0
Grouped == [rejection_summary |-> {"rejectReason", "instanceId"}, order_flow_summary |-> {"instanceId"},
            latency_summary |-> {"instanceId"}, alert_status |-> {}, session_status |-> {"sessionId", "instanceId"},
            symbol_drilldown |-> {"rejectReason"}, agent_health |-> {"instanceId"},
            parse_health |-> {"rejectReason"}, compare_period |-> {"instanceId"}, trend |-> {}]
Series(i) == i = "trend"
NeedsSymbol(i) == i = "symbol_drilldown"
Scope == {"application", "instanceId"}   \* filters that choose what is read
Dimensions == {"sessionId", "session", "rejectReason", "symbol", "side"} \cup Scope

-----------------------------------------------------------------------------

(* parse_time_expression: the first kind of phrase found, whatever else the
   question says of the time. *)
Midnight(now) == ((now + Zone) \div Day) * Day - Zone
ThisMorning(now) == LET start == Midnight(now) + Morning IN IF now < start THEN start - Day ELSE start
At(h, now) == Midnight(now) + h
Since(h, now) == IF At(h, now) > now THEN At(h, now) - Day ELSE At(h, now)
Today(now) == IF now - Midnight(now) > MaxRange THEN now - MaxRange ELSE Midnight(now)
Moment(token, now) == CASE token[1] = "now" -> now
                        [] token[1] = "today" -> Midnight(now)
                        [] token[1] = "yesterday" -> Midnight(now) - Day
                        [] token[1] = "at" -> At(token[2], now)
                        [] token[1] = "ago" -> now - token[2]
Between(pair, now) == LET ends == {Moment(pair[1], now), Moment(pair[2], now)}
                      IN Absolute(Min(ends), Max(ends))
Phrases == <<"last", "today", "yesterday", "morning", "since", "between">>
Said(when) == SelectSeq(Phrases, LAMBDA p : p \in DOMAIN when)
Explicit(when) == DOMAIN when # {}
Times(when, now) ==
  IF ~Explicit(when) THEN Relative(DefaultLast)
  ELSE LET phrase == Said(when)[1] IN
       CASE phrase = "last" -> Relative(when.last)
         [] phrase = "today" -> Absolute(Today(now), now)
         [] phrase = "yesterday" -> Absolute(Midnight(now) - Day, Midnight(now))
         [] phrase = "morning" -> Absolute(ThisMorning(now), now)
         [] phrase = "since" -> Absolute(Since(when.since, now), now)
         [] phrase = "between" -> Between(when.between, now)
TimeCaveats(when, now) ==
  IF ~Explicit(when) THEN {"default"}
  ELSE IF Said(when)[1] = "today" /\ Today(now) # Midnight(now) THEN {"cut"} ELSE {}

(* baseline_time_range_before *)
BaselineOf(from, to) == LET n == IF to > from THEN to - from ELSE 1 IN Absolute(from - n, from)

-----------------------------------------------------------------------------

(* _score_patterns and the choice of match_rules; in percent. *)
Score(q, i) == IF i \notin DOMAIN q.hits THEN 0 ELSE IF q.hits[i] = "strong" THEN 92 ELSE 78
Best(q) ==
  LET better(i, j) == Score(q, i) > Score(q, j) \/ (Score(q, i) = Score(q, j) /\ Priority(i) > Priority(j))
  IN SelectSeq(Order, LAMBDA i : i \in DOMAIN q.hits /\ \A j \in DOMAIN q.hits : ~better(j, i))[1]
Confidence(q) == LET score == Score(q, Best(q)) IN
                 IF Explicit(q.when) THEN Min({100, score + 5})
                 ELSE IF score < 90 THEN Min({84, score}) ELSE score
HighConfidence == 85
Matched(q) == DOMAIN q.hits # {} /\ (NeedsSymbol(Best(q)) => "symbol" \in q.names)

(* _extract_filters, over the default of the application. *)
Named(q) == {"application"} \cup q.names

(* An interpreted query, with the percentage it is believed. *)
Interpreted(intent, range, filters, groupBy, series, step) ==
  [intent |-> intent, range |-> range, filters |-> filters, groupBy |-> groupBy,
   series |-> series, step |-> step]
Nothing == Interpreted("none", Unparsable, {}, {}, FALSE, "1m")
ByRule(q, now) ==
  LET i == Best(q) IN Interpreted(i, Times(q.when, now), Named(q), Grouped[i], Series(i), "1m")

-----------------------------------------------------------------------------

(* Slots as a model fills them: [intent, last, from, to, filters, groupBy,
   series, step, reply, sound].  last, from and to hold a moment, a duration,
   junk or Absent; sound: the rest of the object validates. *)
Absent == [kind |-> "absent"]
For(n) == [kind |-> "for", n |-> n]
When(t) == [kind |-> "at", t |-> t]
Junk == [kind |-> "junk"]

(* _normalize_time_range: read as it stands, or as one of the forms a model
   confuses it with; Unparsable is a relative range that no query accepts. *)
Whole(s) == IF s.last = Absent
            THEN IF s.from.kind = "at" /\ s.to.kind = "at" THEN {Absolute(s.from.t, s.to.t)} ELSE {}
            ELSE IF s.from # Absent \/ s.to # Absent THEN {}
                 ELSE {IF s.last.kind = "for" THEN Relative(s.last.n) ELSE Unparsable}
RangeOf(s) ==
  IF Whole(s) # {} THEN Whole(s)
  ELSE IF s.last.kind = "for" THEN {Relative(s.last.n)}
  ELSE IF s.from.kind = "for" /\ s.to.kind \in {"absent", "for"} THEN {Relative(s.from.n)}
  ELSE IF s.from.kind = "at" /\ s.to.kind = "at" THEN {Absolute(s.from.t, s.to.t)}
  ELSE {}
Allowed == {"application", "instanceId", "symbol", "session"}

(* merge_interpreted_query over the defaults of the intent: names no query
   knows are left out, and a series can only be turned off. *)
ByModel(s, q, now) ==
  LET range == IF RangeOf(s) # {} THEN CHOOSE r \in RangeOf(s) : TRUE ELSE Times(q.when, now)
      known == s.groupBy \cap Dimensions
  IN Interpreted(s.intent, range, {"application"} \cup (s.filters \cap Allowed),
                 IF known = {} THEN Grouped[s.intent] ELSE known,
                 Series(s.intent) /\ s.series # "off",
                 IF s.step \in {"10s", "1m", "5m"} THEN s.step ELSE "1m")
ModelCaveats(s, q, now) == IF RangeOf(s) = {} /\ Explicit(q.when) THEN TimeCaveats(q.when, now) ELSE {}

(* InterpretedQuery: at most three dimensions. *)
WellFormed(s, p) == s.sound /\ Cardinality(p.groupBy) <= 3

(* guard_reply: a pleasantry about telemetry, or none. *)
Shown(s) == IF s.reply = "telemetry" THEN "reply" ELSE "template"

=============================================================================
