---------------------------- MODULE EventEmitter ----------------------------
(***************************************************************************)
(* The agent's event emitter: which of the things a line or an alert shows *)
(* become events, under a rate limit for each type.  Errors are counted    *)
(* over a bucket and sent when it is over; executions are sampled; an      *)
(* alert is sent when its state changes.  A line carries the time it was   *)
(* read, which a later flush by the evaluator may have overtaken.          *)
(***************************************************************************)
EXTENDS Integers, Sequences, FiniteSets, SequencesExt, FiniteSetsExt, Functions

CONSTANTS
  EventLimit, RateWindow,     \* events of one type in one window
  SampleEvery, CountBucket,
  AlertIds, AlertStates,      \* [alert id -> the states routed, in order]
  AlertMemory,                \* _alert_states holds as many
  ReadLag,                    \* how late a line may be ingested
  EmitUntil, MaxInputs        \* bounds

EmitterAssumption ==
  /\ EventLimit \in Nat \ {0} /\ RateWindow \in Nat \ {0}
  /\ SampleEvery \in Nat \ {0} /\ CountBucket \in Nat \ {0}
  /\ IsFiniteSet(AlertIds) /\ AlertMemory \in Nat /\ EmitUntil \in Nat
  /\ \A a \in AlertIds : AlertStates[a] \in Seq([status : {"firing", "resolved"}, severity : Nat])

VARIABLES
  emitClock,
  rates,       \* [event type -> times of the events sent in the last window]
  executions, countBucket, errorCounts, alertSent,   \* _executions, _bucket, _counts, _alert_states
  sent,        \* events handed to the publisher, in order
  limited,     \* events the limit refused
  routed,      \* [alert id -> states routed]
  inputs, observed   \* inputs so far; errors and executions among them

emitVars == <<emitClock, rates, executions, countBucket, errorCounts, alertSent, sent, limited,
              routed, inputs, observed>>

CountLabels == {"app.error", "parse.error"}
AlertTypes == {"alert.fired", "alert.resolved"}
EventTypes == CountLabels \cup AlertTypes \cup {"fix.execution", "fix.session_state", "fix.order_reject"}
NoBucket == -1
BucketOf(t) == (t \div CountBucket) * CountBucket

(* emit, on the emitter's state e: an old send leaves the window, and the
   event is refused when the window is full. *)
StillCounted(t) == t > emitClock - RateWindow
Recent(q) == LET gone == {n \in 0..Len(q) : \A j \in 1..n : ~StillCounted(q[j])}
             IN SubSeq(q, Max(gone) + 1, Len(q))
Emit(e, event) ==
  LET recent == Recent(e.rates[event.type])
      rated(q) == [e.rates EXCEPT ![event.type] = q]
  IN IF Len(recent) >= EventLimit
     THEN [rates |-> rated(recent), sent |-> e.sent, limited |-> Append(e.limited, event)]
     ELSE [rates |-> rated(Append(recent, emitClock)), limited |-> e.limited,
           sent |-> Append(e.sent, [event EXCEPT !.at = emitClock])]
Now == [rates |-> rates, sent |-> sent, limited |-> limited]
Becomes(e) == rates' = e.rates /\ sent' = e.sent /\ limited' = e.limited

Unsent == -1
Event(type, of, n) == [type |-> type, of |-> of, n |-> n, at |-> Unsent]

(* flush: the counts of a bucket that is over, one event for each label, and
   none of them kept whether or not the limit let them through. *)
EmitCount(e, l) ==
  IF errorCounts[l] > 0 THEN Emit(e, Event(l, countBucket, errorCounts[l])) ELSE e
Over(at, force) == countBucket # NoBucket /\ (BucketOf(at) > countBucket \/ force)
NoCounts == [l \in CountLabels |-> 0]
KeptAlways(at, force) == errorCounts  \* mutant: the counts are not cleared
Kept(at, force) == IF Over(at, force) THEN NoCounts ELSE errorCounts
Flushed(at, force) == IF Over(at, force) THEN EmitCount(EmitCount(Now, "app.error"), "parse.error") ELSE Now
Bucket(at) == IF countBucket = NoBucket \/ BucketOf(at) > countBucket THEN BucketOf(at) ELSE countBucket

EmitInit ==
  /\ emitClock = 0 /\ rates = [t \in EventTypes |-> <<>>] /\ executions = 0
  /\ countBucket = NoBucket /\ errorCounts = NoCounts /\ alertSent = <<>>
  /\ sent = <<>> /\ limited = <<>> /\ routed = [a \in AlertIds |-> 0] /\ inputs = 0
  /\ observed = [x \in CountLabels \cup {"execution"} |-> 0]

Input == inputs < MaxInputs /\ inputs' = inputs + 1 /\ UNCHANGED emitClock

(* observe: the flush comes first, then the counts, then the line's event. *)
ObserveError(label, at) ==
  /\ Input /\ Becomes(Flushed(at, FALSE)) /\ countBucket' = Bucket(at)
  /\ errorCounts' = [Kept(at, FALSE) EXCEPT ![label] = @ + 1]
  /\ observed' = [observed EXCEPT ![label] = @ + 1]
  /\ UNCHANGED <<executions, alertSent, routed>>
ObserveMessage(type, at) ==
  /\ Input /\ Becomes(Emit(Flushed(at, FALSE), Event(type, "line", 1)))
  /\ countBucket' = Bucket(at) /\ errorCounts' = Kept(at, FALSE)
  /\ UNCHANGED <<executions, alertSent, routed, observed>>
SampledAt(n) == n % SampleEvery = 0
ObserveExecution(at) ==
  LET n == (executions + 1) % SampleEvery IN
  /\ Input /\ executions' = n
  /\ Becomes(IF SampledAt(n) THEN Emit(Flushed(at, FALSE), Event("fix.execution", "line", SampleEvery))
             ELSE Flushed(at, FALSE))
  /\ countBucket' = Bucket(at) /\ errorCounts' = Kept(at, FALSE)
  /\ observed' = [observed EXCEPT !["execution"] = @ + 1]
  /\ UNCHANGED <<alertSent, routed>>

(* session_timeout, and the events of the agent's own life: no flush comes first. *)
SessionTimeout ==
  /\ Input /\ Becomes(Emit(Now, Event("fix.session_state", "line", 1)))
  /\ UNCHANGED <<executions, countBucket, errorCounts, alertSent, routed, observed>>

(* The evaluator's flush at a tick, and the forced one when the agent stops. *)
Flush(force) ==
  /\ Input /\ Becomes(Flushed(emitClock, force)) /\ countBucket' = Bucket(emitClock)
  /\ errorCounts' = Kept(emitClock, force)
  /\ UNCHANGED <<executions, alertSent, routed, observed>>

(* alert: only a transition, and only what was sent is remembered. *)
Remembered(a) == {i \in DOMAIN alertSent : alertSent[i].id = a}
Known(a, state) == \E i \in Remembered(a) : alertSent[i].state = state
Remember(a, state) ==
  LET rest == IF Remembered(a) = {} THEN alertSent ELSE RemoveAt(alertSent, Max(Remembered(a)))
      all == Append(rest, [id |-> a, state |-> state])
  IN IF Len(all) > AlertMemory THEN Tail(all) ELSE all
RouteAlert(a) ==
  LET state == AlertStates[a][routed[a] + 1]
      type == IF state.status = "resolved" THEN "alert.resolved" ELSE "alert.fired"
      e == Emit(Now, Event(type, a, state))
  IN /\ routed[a] < Len(AlertStates[a]) /\ routed' = [routed EXCEPT ![a] = @ + 1]
     /\ IF Known(a, state) THEN UNCHANGED <<rates, sent, limited, alertSent>>
        ELSE /\ Becomes(e)
             /\ alertSent' = IF Len(e.sent) > Len(sent) THEN Remember(a, state) ELSE alertSent
     /\ UNCHANGED <<emitClock, executions, countBucket, errorCounts, inputs, observed>>

EmitTick == /\ emitClock < EmitUntil /\ emitClock' = emitClock + 1
            /\ UNCHANGED <<rates, executions, countBucket, errorCounts, alertSent, sent, limited,
                           routed, inputs, observed>>

EmitNext ==
  \/ \E at \in {t \in (emitClock - ReadLag)..emitClock : t >= 0} :
       \/ \E label \in CountLabels : ObserveError(label, at)
       \/ \E type \in {"fix.session_state", "fix.order_reject"} : ObserveMessage(type, at)
       \/ ObserveExecution(at)
  \/ SessionTimeout \/ \E force \in BOOLEAN : Flush(force)
  \/ \E a \in AlertIds : RouteAlert(a)
  \/ EmitTick

-----------------------------------------------------------------------------

(* No window of the configured length holds more events of one type than the
   limit, wherever it begins. *)
RateBounded ==
  \A i \in DOMAIN sent :
    Cardinality({j \in DOMAIN sent :
      /\ sent[j].type = sent[i].type
      /\ sent[j].at >= sent[i].at /\ sent[j].at < sent[i].at + RateWindow}) <= EventLimit

(* Every error that was counted is in one event, sent or refused by the
   limit, or still in the bucket that is open; one execution in SampleEvery is. *)
CountIn(q, type) ==
  FoldFunction(+, 0, [i \in {j \in DOMAIN q : q[j].type = type} |-> q[i].n])
InEvents(type) == CountIn(sent, type) + CountIn(limited, type)
ErrorsAccounted ==
  /\ \A l \in CountLabels : InEvents(l) + errorCounts[l] = observed[l]
  /\ InEvents("fix.execution") = observed["execution"] - executions

(* While no more alerts are active than are remembered, the events of one alert
   alternate: a renotification is no event, and a transition the limit refused
   is one when the alert is routed again. *)
AlertEvents(a) == {i \in DOMAIN sent : sent[i].type \in AlertTypes /\ sent[i].of = a}
TransitionsOnce ==
  Cardinality(AlertIds) <= AlertMemory =>
    \A a \in AlertIds :
      /\ \A i, j \in AlertEvents(a) :
           i < j /\ (\A k \in AlertEvents(a) : ~(i < k /\ k < j)) => sent[i].n # sent[j].n
      /\ AlertEvents(a) # {} => Known(a, sent[Max(AlertEvents(a))].n)

=============================================================================
