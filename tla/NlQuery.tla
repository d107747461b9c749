------------------------------- MODULE NlQuery -------------------------------
(***************************************************************************)
(* A question in words, answered: a pleasantry from a template, a strong   *)
(* match of the rules at once, any other question by the slots a language  *)
(* model fills, or by a weak match of the rules when the model fails.  The *)
(* time it is asked at is fixed as it arrives; the store and the alerts go *)
(* on changing while the model and the queries are waited for.             *)
(***************************************************************************)
EXTENDS NlLanguage

CONSTANTS
  Questions, Fills,   \* questions asked; objects the model may answer with
  Providers, Failures,   \* of {"ollama", "openai"}; ways the model may fail
  Ring,               \* buckets of the store's ring, of one unit each
  Points, MaxPoints,  \* [step -> points in one unit]; maxSeriesPoints
  AlertNames,
  AskAt, NlUntil, MaxAsks   \* bounds: times of the first question, of the clock, questions

VARIABLES
  nlClock, kept, openAlerts,   \* the time, the buckets of the ring, the active alerts
  provider, jsonMode,          \* the model, and whether JSON mode is asked of it
  question, askedWhen, stage, posts,
  plan, wanted, caveats, source,   \* what was understood, the span it meant, of what
  span, baseSpan, answer,
  asks, rejectedAt,            \* history: questions, the one whose JSON mode was refused,
  heldThen                     \* and the buckets retained when the range was validated

nlVars == <<nlClock, kept, openAlerts, provider, jsonMode, question, askedWhen, stage, posts,
            plan, wanted, caveats, source, span, baseSpan, answer, asks, rejectedAt, heldThen>>
environment == <<nlClock, kept, openAlerts, provider>>
asking == <<question, askedWhen, asks>>
understood == <<plan, wanted, caveats, source, heldThen>>

NoSpan == <<>>
NoQuestion == [small |-> "none", hits |-> <<>>, when |-> <<>>, names |-> {}]
Pending == [kind |-> "pending"]
Refusal(reason) == [kind |-> "clarification", reason |-> reason, by |-> "template"]

NlInit ==
  /\ nlClock \in AskAt /\ kept \in {{}, (nlClock - 1)..nlClock} /\ openAlerts = {} /\ provider \in Providers
  /\ jsonMode = TRUE /\ question = NoQuestion /\ askedWhen = 0 /\ stage = "idle" /\ posts = 0
  /\ plan = Nothing /\ wanted = NoSpan /\ caveats = {} /\ source = "none"
  /\ span = NoSpan /\ baseSpan = NoSpan /\ answer = Pending /\ asks = 0 /\ rejectedAt = 0
  /\ heldThen = {}

-----------------------------------------------------------------------------

(* The time passes and a snapshot of the bucket is merged, into the slot of the
   bucket a whole ring before; alerts fire and resolve. *)
Merge ==
  /\ nlClock < NlUntil
  /\ nlClock' = nlClock + 1 /\ kept' = (kept \ {nlClock' - Ring}) \cup {nlClock'}
  /\ UNCHANGED <<openAlerts, provider, jsonMode, asking, stage, posts, understood, span, baseSpan,
                 answer, rejectedAt>>
AlertMoves(a) ==
  /\ stage \in {"query", "baseline", "alerts"}
  /\ openAlerts' = IF a \in openAlerts THEN openAlerts \ {a} ELSE openAlerts \cup {a}
  /\ UNCHANGED <<nlClock, kept, provider, jsonMode, asking, stage, posts, understood, span, baseSpan,
                 answer, rejectedAt>>

(* retention_bounds, of the time the question was asked at. *)
Bounds(now) == {b \in kept : b >= now - Ring + 1}
Oldest(now) == Min(Bounds(now))
Newest(now) == Max(Bounds(now)) + 1

(* prepare_metrics_query: the span of a range that is accepted. *)
Resolved(range, now) ==
  CASE range.kind = "last" -> {<<now - range.n, now>>}
    [] range.kind = "absolute" -> IF range.from < range.to THEN {<<range.from, range.to>>} ELSE {}
    [] OTHER -> {}
Fits(p, s) == /\ s[2] - s[1] <= MaxRange
              /\ p.series => Points[p.step] * (s[2] - s[1]) + 1 <= MaxPoints
Retained(s, now) == Bounds(now) = {} \/ (s[2] >= Oldest(now) /\ s[1] <= Newest(now))
Prepared(p, range, now) == {s \in Resolved(range, now) : Fits(p, s) /\ Retained(s, now)}

(* _clamp_time_range: of absolute ranges only. *)
Clamp(range, now) ==
  IF range.kind # "absolute" \/ Bounds(now) = {} THEN range
  ELSE Absolute(Max({range.from, Oldest(now)}), Min({range.to, Newest(now)}))
ClampCaveats(range, now) ==
  IF range.kind # "absolute" \/ Bounds(now) = {} THEN {}
  ELSE {c \in {"from", "to"} : IF c = "from" THEN range.from < Oldest(now) ELSE range.to > Newest(now)}

-----------------------------------------------------------------------------

Forgotten == /\ plan' = Nothing /\ wanted' = NoSpan /\ caveats' = {} /\ source' = "none"
             /\ heldThen' = {} /\ span' = NoSpan /\ baseSpan' = NoSpan
Ends(reply) == stage' = "done" /\ answer' = reply /\ Forgotten

(* validate_interpreted_query, in one go with what came before. *)
Validated(p, now) ==
  IF NeedsSymbol(p.intent) /\ "symbol" \notin p.filters THEN {} ELSE Prepared(p, Clamp(p.range, now), now)
Understand(p, by, told, now) ==
  IF Validated(p, now) = {} THEN Ends(Refusal("clarify"))
  ELSE /\ stage' = "query" /\ source' = by
       /\ plan' = [p EXCEPT !.range = Clamp(p.range, now)]
       /\ wanted' = (IF p.range.kind = "absolute" THEN <<p.range.from, p.range.to>>
                     ELSE <<now - p.range.n, now>>)
       /\ caveats' = told \cup ClampCaveats(p.range, now) /\ heldThen' = Bounds(now)
       /\ answer' = Pending /\ span' = NoSpan /\ baseSpan' = NoSpan

(* interpret_and_query up to the model. *)
Strong(q) == Matched(q) /\ Confidence(q) >= HighConfidence
Ask(q) ==
  /\ stage \in {"idle", "done"} /\ asks < MaxAsks
  /\ asks' = asks + 1 /\ question' = q /\ askedWhen' = nlClock
  /\ UNCHANGED <<environment, jsonMode, rejectedAt>>
  /\ IF q.small # "none"
     THEN posts' = 0 /\ Ends(Refusal(IF q.small = "help" THEN "help" ELSE "greeting"))
     ELSE IF Strong(q)
     THEN posts' = 0 /\ Understand(ByRule(q, nlClock), "rule", TimeCaveats(q.when, nlClock), nlClock)
     ELSE stage' = "llm" /\ posts' = 1 /\ answer' = Pending /\ Forgotten

(* A server that refuses JSON mode is asked again without it, and never with
   it from then on. *)
ModelRefusesJson ==
  /\ stage = "llm" /\ provider = "openai" /\ jsonMode /\ posts = 1
  /\ posts' = 2 /\ jsonMode' = FALSE /\ rejectedAt' = asks
  /\ UNCHANGED <<environment, asking, stage, understood, span, baseSpan, answer>>

(* FR-NLQ-021: without a usable answer in time, the weak match or a question back. *)
FallBack(how) ==
  IF ~Matched(question)
  THEN Ends(Refusal(IF how = "unusable" THEN "clarify" ELSE "llm_unavailable"))
  ELSE Understand(ByRule(question, askedWhen), "rule",
                  TimeCaveats(question.when, askedWhen) \cup {"weak"}, askedWhen)
ModelAnswers(s) ==
  /\ stage = "llm"
  /\ IF s.intent = "none" THEN Ends([Refusal("out_of_scope") EXCEPT !.by = Shown(s)])
     ELSE IF s.intent \notin Intents THEN FallBack("unusable")
     ELSE LET p == ByModel(s, question, askedWhen) IN
          IF ~WellFormed(s, p) THEN Ends(Refusal("clarify"))
          ELSE Understand(p, "llm", ModelCaveats(s, question, askedWhen), askedWhen)
  /\ UNCHANGED <<environment, jsonMode, asking, posts, rejectedAt>>
ModelFails(how) ==
  /\ stage = "llm" /\ how \in {"timeout", "unreachable", "unusable"} /\ FallBack(how)
  /\ UNCHANGED <<environment, jsonMode, asking, posts, rejectedAt>>

(* A body of another shape raises past every handler of this client. *)
Escapes == [kind |-> "error"]
ModelMisshapen ==
  /\ stage = "llm" /\ provider = "openai" /\ Ends(Escapes)
  /\ UNCHANGED <<environment, jsonMode, asking, posts, rejectedAt>>

-----------------------------------------------------------------------------

(* The query in its thread, which prepares the range again; what it raises -
   a span no longer retained, the deadline, too many groups - escapes. *)
QueryFails ==
  /\ stage \in {"query", "baseline"} /\ stage' = "done" /\ answer' = Escapes
  /\ UNCHANGED <<environment, jsonMode, asking, posts, understood, span, baseSpan, rejectedAt>>
Baseline(s) == BaselineOf(s[1], s[2])
Query ==
  /\ stage = "query"
  /\ \E s \in Prepared(plan, plan.range, askedWhen) :
       /\ span' = s
       /\ stage' = IF plan.intent = "compare_period" /\ Prepared(plan, Baseline(s), askedWhen) # {}
                   THEN "baseline" ELSE "alerts"
  /\ UNCHANGED <<environment, jsonMode, asking, posts, understood, baseSpan, answer, rejectedAt>>
QueryLate ==
  /\ stage = "query" /\ Prepared(plan, plan.range, askedWhen) = {}
  /\ stage' = "done" /\ answer' = Escapes
  /\ UNCHANGED <<environment, jsonMode, asking, posts, understood, span, baseSpan, rejectedAt>>
QueryBaseline ==
  /\ stage = "baseline"
  /\ \E s \in Prepared(plan, Baseline(span), askedWhen) : baseSpan' = s
  /\ stage' = "alerts"
  /\ UNCHANGED <<environment, jsonMode, asking, posts, understood, span, answer, rejectedAt>>

(* _alerts_for_intent, of the moment of the answer; render_answer, of which an
   answer to a summary may be cut before its range and its caveats. *)
Listed(intent) ==
  CASE intent \in {"alert_status", "order_flow_summary"} -> {openAlerts}
    [] intent = "rejection_summary" -> {s \in SUBSET openAlerts : Cardinality(s) = Min({1, Cardinality(openAlerts)})}
    [] OTHER -> {{}}
Summaries == {"rejection_summary", "order_flow_summary", "latency_summary"}
Rendered(intent, alerts) ==
  {[kind |-> "answer", intent |-> intent, by |-> source, alerts |-> alerts,
    caveats |-> caveats, whole |-> whole,
    confidence |-> IF source = "llm" THEN 75 ELSE Confidence(question)] :
     whole \in {TRUE} \cup (IF intent \in Summaries THEN {FALSE} ELSE {})}
Answer ==
  /\ stage = "alerts" /\ stage' = "done"
  /\ \E alerts \in Listed(plan.intent) : answer' \in Rendered(plan.intent, alerts)
  /\ UNCHANGED <<environment, jsonMode, asking, posts, understood, span, baseSpan, rejectedAt>>

NlNext ==
  \/ Merge \/ \E a \in AlertNames : AlertMoves(a)
  \/ \E q \in Questions : Ask(q)
  \/ ModelRefusesJson \/ \E s \in Fills : ModelAnswers(s)
  \/ \E how \in Failures : ModelFails(how)
  \/ ModelMisshapen \/ Query \/ QueryLate \/ QueryFails \/ QueryBaseline \/ Answer

-----------------------------------------------------------------------------

Answered == answer.kind = "answer"
EmptyByRequest == plan.range.kind = "last" /\ plan.range.n = 0

(* FR-NLQ-008, 013: an answer is of the span that was meant, or says at which end
   it was cut.  Only a range with two ends is cut, to what was retained when it
   was validated, and no bucket retained then that was meant is left out; a range
   "last n" is not bounded by what is retained, nor is either by what a snapshot
   evicts between the validation and the query. *)
SpanTold ==
  Answered =>
    /\ wanted[1] <= span[1] /\ span[2] <= wanted[2] /\ span[2] - span[1] <= MaxRange
    /\ span[1] < span[2] \/ EmptyByRequest
    /\ (span[1] # wanted[1]) = ("from" \in answer.caveats)
    /\ (span[2] # wanted[2]) = ("to" \in answer.caveats)
    /\ \A b \in heldThen : wanted[1] <= b /\ b < wanted[2] => span[1] <= b /\ b < span[2]
    /\ plan.range.kind = "absolute" /\ heldThen # {} =>
         Min(heldThen) <= span[1] /\ span[2] <= Max(heldThen) + 1

(* FR-NLQ-006, 014, 021: what the rules are sure of needs no model; what they
   understood by themselves names the default of the time, and a weak match
   says that it is one. *)
SourceTold ==
  /\ posts > 0 => ~Strong(question)
  /\ Answered /\ answer.by = "rule" =>
       /\ ("default" \in answer.caveats) = ~Explicit(question.when)
       /\ ("weak" \in answer.caveats) = (answer.confidence < HighConfidence)
       /\ wanted = CHOOSE s \in Resolved(Times(question.when, askedWhen), askedWhen) : TRUE

(* A comparison is of two spans of one length that follow one another. *)
PeriodsCompare ==
  baseSpan # NoSpan => /\ baseSpan[2] = span[1] /\ baseSpan[1] < baseSpan[2]
                       /\ span[1] < span[2] => baseSpan[2] - baseSpan[1] = span[2] - span[1]

(* FR-NLQ-021, 030: a model that fails costs no answer: a question ends in an
   answer or in a question back unless a query fails (of the OpenAI client, or a
   body of an unexpected shape), and the model's words are shown only when they
   are a pleasantry about telemetry. *)
ModelContained ==
  /\ answer.kind = "error" => plan # Nothing \/ provider = "openai"
  /\ answer.kind = "clarification" /\ answer.by # "template" => answer.reason = "out_of_scope"
  /\ posts = 2 => rejectedAt = asks

NlRight == SpanTold /\ SourceTold /\ PeriodsCompare /\ ModelContained

=============================================================================
