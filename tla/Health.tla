------------------------------- MODULE Health -------------------------------
(***************************************************************************)
(* The health reporter: what each heartbeat says, from signals that other  *)
(* threads feed it (parse results, drops), poll (the outbox, the log       *)
(* monitors) or have not produced yet.  The publisher asks for one         *)
(* heartbeat a tick, to ride in its batch, and evicts what overflows: a    *)
(* drop here.  A signal without a producer is Unmeasured.                  *)
(***************************************************************************)
EXTENDS Integers, Sequences, FiniteSets, FiniteSetsExt, Functions, TLC

CONSTANTS
  Files,                                \* names of the files monitored
  RollingWindow,                               \* buckets in a rolling window
  LagDegraded, ErrorPercentDegraded, ErrorPercentUnhealthy,
  HighWatermark, CriticalWatermark,
  Lags, Depths,                         \* what the polled signals may be
  Unmeasured,
  ReportLag, HealthUntil, MaxRecords, MaxHeartbeats   \* bounds

HealthAssumption ==
  /\ RollingWindow \in Nat \ {0}
  /\ ReportLag \in Nat /\ HealthUntil \in Nat /\ Unmeasured \notin Nat
  /\ ErrorPercentDegraded \in Nat /\ ErrorPercentUnhealthy \in Nat
  /\ ErrorPercentDegraded < ErrorPercentUnhealthy /\ HighWatermark < CriticalWatermark

VARIABLES
  healthClock,
  errors, lines, drops,      \* the three SlidingWindowCounters: [bucket -> count]
  parseSeen, dropSeen,       \* _parse_signal_seen, _dropped_signal_seen
  connected,                 \* connect_reporter_to_publisher has run
  lastDepth, readLag,        \* _last_queue_depth; [file -> read_lag_ms]
  recorded,                  \* [kind, time -> how many were recorded]
  beats, said                \* heartbeats built; what the last one said

healthVars == <<healthClock, errors, lines, drops, parseSeen, dropSeen, connected, lastDepth,
                readLag, recorded, beats, said>>
counterVars == <<errors, lines, drops, parseSeen, dropSeen, recorded>>

(* SlidingWindowCounter: expiry by the time of the access, on every access. *)
Live(c, now) == Restrict(c, {b \in DOMAIN c : b >= now - RollingWindow + 1})
Record(c, at, n) ==
  LET live == Live(c, at) IN
  [b \in DOMAIN live \cup {at} |-> (IF b \in DOMAIN live THEN live[b] ELSE 0) + (IF b = at THEN n ELSE 0)]
Count(c, now) == MapThenSumSet(LAMBDA b : c[b], {b \in DOMAIN Live(c, now) : b <= now})

RecordKinds == {"line", "error", "drop"}
NothingSaid == [status |-> "healthy", lag |-> Unmeasured, errors |-> Unmeasured,
                lines |-> Unmeasured, depth |-> Unmeasured, trend |-> Unmeasured, drops |-> Unmeasured]
AllRecorded == FoldFunction(+, 0, recorded)

HealthInit ==
  /\ healthClock = 0 /\ errors = <<>> /\ lines = <<>> /\ drops = <<>>
  /\ parseSeen = FALSE /\ dropSeen = FALSE /\ connected = FALSE
  /\ lastDepth = Unmeasured /\ readLag = [f \in Files |-> Unmeasured]
  /\ recorded = [x \in RecordKinds \X (0..HealthUntil) |-> 0] /\ beats = 0 /\ said = NothingSaid

(* record_parse_result: a line was read at `at`, a little before now. *)
RecordParse(bad, at) ==
  /\ AllRecorded < MaxRecords /\ parseSeen' = TRUE
  /\ recorded' = [recorded EXCEPT ![<<IF bad THEN "error" ELSE "line", at>>] = @ + 1]
  /\ lines' = Record(lines, at, 1)
  /\ errors' = IF bad THEN Record(errors, at, 1) ELSE errors
  /\ UNCHANGED <<healthClock, drops, dropSeen, connected, lastDepth, readLag, beats, said>>

(* connect_reporter_to_publisher marks the drops as measured. *)
Connect ==
  /\ ~connected /\ connected' = TRUE /\ lastDepth' = Unmeasured
  /\ dropSeen' = TRUE /\ drops' = Record(drops, healthClock, 0)
  /\ UNCHANGED <<healthClock, errors, lines, parseSeen, readLag, recorded, beats, said>>
Drop ==
  /\ connected /\ AllRecorded < MaxRecords /\ dropSeen' = TRUE
  /\ recorded' = [recorded EXCEPT ![<<"drop", healthClock>>] = @ + 1]
  /\ drops' = Record(drops, healthClock, 1)
  /\ UNCHANGED <<healthClock, errors, lines, parseSeen, connected, lastDepth, readLag, beats, said>>
ReadMore(f, lag) ==
  /\ readLag' = [readLag EXCEPT ![f] = lag]
  /\ UNCHANGED <<healthClock, counterVars, connected, lastDepth, beats, said>>

-----------------------------------------------------------------------------
(* snapshot, derive_status, build_heartbeat.  A rate is a pair of counts. *)

Measured(seen, n) == IF seen THEN n ELSE Unmeasured
Trend(depth) ==
  CASE depth = Unmeasured \/ lastDepth = Unmeasured -> Unmeasured
    [] depth > lastDepth -> "rising" [] depth < lastDepth -> "draining" [] OTHER -> "flat"
Worst == LET known == {readLag[f] : f \in Files} \ {Unmeasured} IN
         IF known = {} THEN Unmeasured ELSE Max(known)
Signals(depth) ==
  [lag |-> Worst,
   errors |-> Measured(parseSeen, Count(errors, healthClock)),
   lines |-> Measured(parseSeen, Count(lines, healthClock)),
   depth |-> depth, trend |-> Trend(depth),
   drops |-> Measured(dropSeen, Count(drops, healthClock))]

LagReasons == {f \in Files : readLag[f] # Unmeasured /\ readLag[f] > LagDegraded}
Exceeds(s, percent) == s.lines # Unmeasured /\ s.lines > 0 /\ s.errors * 100 > percent * s.lines
AtLeast(s, mark) == s.depth # Unmeasured /\ s.depth >= mark
Unhealthy(s) == Exceeds(s, ErrorPercentUnhealthy) \/ AtLeast(s, CriticalWatermark)
Degraded(s) == LagReasons # {} \/ Exceeds(s, ErrorPercentDegraded) \/ AtLeast(s, HighWatermark)
Status(s) == IF Unhealthy(s) THEN "unhealthy" ELSE IF Degraded(s) THEN "degraded" ELSE "healthy"
(* to_ingestion_heartbeat: on the wire an unmeasured signal is a zero. *)
Wire(s) == [s EXCEPT !.errors = IF @ = Unmeasured THEN 0 ELSE @,
                     !.depth = IF @ = Unmeasured THEN 0 ELSE @,
                     !.drops = IF @ = Unmeasured THEN 0 ELSE @]

(* heartbeat_provider: what the publisher is given for its next batch. *)
Heartbeat(depth) ==
  LET s == Signals(depth) IN
  /\ beats < MaxHeartbeats /\ beats' = beats + 1
  /\ said' = Wire(s) @@ [status |-> Status(s)]
  /\ lastDepth' = IF depth = Unmeasured THEN lastDepth ELSE depth
  /\ UNCHANGED <<healthClock, counterVars, connected, readLag>>

HealthTick == /\ healthClock < HealthUntil /\ healthClock' = healthClock + 1
              /\ UNCHANGED <<counterVars, connected, lastDepth, readLag, beats, said>>

HealthNext ==
  \/ \E bad \in BOOLEAN, at \in {t \in (healthClock - ReportLag)..healthClock : t >= 0} : RecordParse(bad, at)
  \/ Connect \/ Drop \/ HealthTick
  \/ \E f \in Files, lag \in Lags : ReadMore(f, lag)
  \/ \E depth \in IF connected THEN Depths ELSE {Unmeasured} : Heartbeat(depth)

-----------------------------------------------------------------------------

(* FR-HLT-002/004: whatever order late lines, polls and expiries come in, a
   heartbeat built now says what the last window recorded, an agent is never
   unhealthy for less, and a signal without a producer is not a zero. *)
Recorded(kinds) ==
  MapThenSumSet(LAMBDA x : recorded[x], kinds \X {t \in 0..healthClock : t > healthClock - RollingWindow})
WindowExact ==
  LET s == Signals(Unmeasured) bad == Recorded({"error"}) all == Recorded({"error", "line"}) IN
  /\ IF parseSeen THEN s.errors = bad /\ s.lines = all ELSE s.errors = Unmeasured
  /\ s.drops = IF dropSeen THEN Recorded({"drop"}) ELSE Unmeasured
  /\ Status(s) = "unhealthy" <=> bad * 100 > ErrorPercentUnhealthy * all

=============================================================================
