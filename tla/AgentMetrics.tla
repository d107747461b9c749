----------------------------- MODULE AgentMetrics -----------------------------
(***************************************************************************)
(* The agent's aggregator and what is published from it.  Samples go into  *)
(* a ring of one-unit buckets by the time they carry, which is not the     *)
(* time they arrive; every wire bucket of Width units that is over is      *)
(* published once, oldest first.                                           *)
(*                                                                         *)
(* A sample is counted under one label; a bucket admits Labels up to its   *)
(* cap and folds the others together.  The agent's own counters enter as   *)
(* the increase since they were last looked at.                            *)
(***************************************************************************)
EXTENDS Integers, Sequences, FiniteSets, FiniteSetsExt, Functions

CONSTANTS
  Capacity,     \* buckets of the ring
  Width,        \* buckets of one wire bucket
  Labels, MaxLabelSets,
  Lag, Skew,    \* bounds: how old or how far ahead a sample's time may be
  Jump,         \* bound: the longest time between two steps
  MaxTime, MaxSamples   \* bounds: the clock, the samples

ASSUME MetricsAssumption ==
  /\ Capacity \in Nat \ {0} /\ Width \in Nat \ {0} /\ Capacity >= 2 * Width
  /\ MaxLabelSets \in Nat /\ IsFiniteSet(Labels) /\ Labels # {} /\ "__other__" \notin Labels
  /\ Lag \in Nat /\ Skew \in Nat /\ Jump \in Nat \ {0} /\ MaxTime \in Nat /\ MaxTime >= 2 * Capacity

VARIABLES
  now,           \* the clock
  ring,          \* MetricsAggregator._buckets: [0 .. Capacity - 1 -> bucket]
  lastEmitted,   \* SnapshotEmitter._last_emitted
  wire,          \* the snapshots enqueued, in order: [start, series]
  skipped,       \* snapshot_buckets_skipped
  registry, baseline,  \* the publisher's counter and the sampler's last look at it
  samples,       \* samples so far
  since,         \* the first wire bucket the emitter was asked for
  onTime, erased, late \* [time -> samples]: before their bucket was published;
                       \* of those, wiped by a later time in their slot; after it

ringVars == <<ring, onTime, erased, late>>
emitVars == <<lastEmitted, wire, skipped, since>>
vars == <<now, ringVars, emitVars, registry, baseline, samples>>

None == -1
Times == 0 .. (MaxTime + Skew)
Slots == 0 .. (Capacity - 1)
Other == "__other__"
NoBucket == [start |-> None, series |-> [l \in Labels \cup {Other} |-> 0], admitted |-> {}]

Init ==
  /\ now = 2 * Capacity /\ ring = [i \in Slots |-> NoBucket]
  /\ lastEmitted = None /\ wire = <<>> /\ skipped = 0 /\ since = None
  /\ registry = 0 /\ baseline = 0 /\ samples = 0
  /\ onTime = [t \in Times |-> 0] /\ erased = [t \in Times |-> 0] /\ late = [t \in Times |-> 0]

OldestRetained == now - Capacity + 1

(* tick: buckets that left the retained window are cleared. *)
Ticked(r) == [i \in Slots |-> IF r[i].start # None /\ r[i].start < OldestRetained
                              THEN NoBucket ELSE r[i]]

Size(b) == MapThenSumSet(LAMBDA l : b.series[l], Labels \cup {Other})

(* _admit_label *)
AdmitLabel(b, l) ==
  IF l \in b.admitted \/ Cardinality(b.admitted) < MaxLabelSets THEN l ELSE Other

Added(b, l, amount) ==
  LET label == AdmitLabel(b, l) IN
  [b EXCEPT !.series = [x \in DOMAIN @ |-> @[x] + IF x = label THEN amount ELSE 0],
            !.admitted = IF label = Other THEN @ ELSE @ \cup {label}]

(* _get_bucket: the slot of a time is reused as soon as another time needs it,
   whichever of the two is later. *)
Slot(t) == t % Capacity
Bucket(r, t) == IF r[Slot(t)].start = t THEN r[Slot(t)] ELSE [NoBucket EXCEPT !.start = t]
Published(t) == lastEmitted # None /\ t < lastEmitted + Width

AddNoClear(r, t, l, amount) ==  \* mutant: a reused slot keeps its old samples
  [r EXCEPT ![Slot(t)] = [Added(r[Slot(t)], l, amount) EXCEPT !.start = t]]
Add(r, t, l, amount) == [r EXCEPT ![Slot(t)] = Added(Bucket(r, t), l, amount)]

(* Writing `amount` for time t: dropped when older than the window. *)
Write(t, l, amount) ==
  LET before == Ticked(ring)
      old == before[Slot(t)]
      wiped == t >= OldestRetained /\ old.start \notin {None, t}
  IN /\ ring' = IF t >= OldestRetained THEN Add(before, t, l, amount) ELSE before
     /\ erased' = IF wiped /\ ~Published(old.start)
                  THEN [erased EXCEPT ![old.start] = onTime[old.start]] ELSE erased
     /\ onTime' = IF t >= OldestRetained /\ ~Published(t)
                  THEN [onTime EXCEPT ![t] = @ + amount] ELSE onTime
     /\ late' = IF Published(t) THEN [late EXCEPT ![t] = @ + amount] ELSE late

(* ingest_counters, observe_latency: an event's own time. *)
Ingest(t, l) ==
  /\ samples < MaxSamples /\ samples' = samples + 1
  /\ Write(t, l, 1)
  /\ UNCHANGED <<now, emitVars, registry, baseline>>

(* AgentCounterSampler.sample, at the evaluator's time. *)
Count ==
  /\ samples < MaxSamples /\ samples' = samples + 1 /\ registry' = registry + 1
  /\ UNCHANGED <<now, ringVars, emitVars, baseline>>
Agent == CHOOSE l \in Labels : TRUE
Sample ==
  /\ registry > baseline /\ baseline' = registry
  /\ Write(now, Agent, registry - baseline)
  /\ UNCHANGED <<now, emitVars, registry, samples>>

Tick ==
  /\ ring' = Ticked(ring) /\ ring' # ring
  /\ UNCHANGED <<now, onTime, erased, late, emitVars, registry, baseline, samples>>

Advance(d) ==
  /\ now + d <= MaxTime /\ now' = now + d
  /\ UNCHANGED <<ringVars, emitVars, registry, baseline, samples>>

-----------------------------------------------------------------------------
(* SnapshotEmitter.emit. *)

Latest == (now \div Width) * Width - Width
First == IF lastEmitted = None THEN Latest ELSE lastEmitted + Width
Earliest == ((OldestRetained + Width - 1) \div Width) * Width

(* bucket_delta: what the ring holds for one wire bucket. *)
Delta(start) ==
  LET held == {i \in Slots : ring[i].start \in start .. (start + Width - 1)}
  IN [start |-> start,
      series |-> [l \in Labels \cup {Other} |-> FoldFunction(+, 0, [i \in held |-> ring[i].series[l]])]]

Behind == First < Earliest
LostGap == (Min({Earliest, Latest + Width}) - First) \div Width

Emit ==
  LET first == IF Behind THEN Earliest ELSE First
      count == IF first > Latest THEN 0 ELSE (Latest - first) \div Width + 1
  IN /\ (Behind \/ count > 0)
     /\ skipped' = IF Behind THEN skipped + LostGap ELSE skipped
     /\ wire' = wire \o [k \in 1 .. count |-> Delta(first + (k - 1) * Width)]
     /\ lastEmitted' = IF count > 0 \/ Behind THEN Latest ELSE lastEmitted
     /\ since' = IF since = None THEN First ELSE since
     /\ UNCHANGED <<now, ringVars, registry, baseline, samples>>

Next ==
  \/ \E t \in (now - Lag) .. (now + Skew), l \in Labels : Ingest(t, l)
  \/ Count \/ Sample \/ Tick \/ Emit
  \/ \E d \in 1 .. Jump : Advance(d)

Spec == Init /\ [][Next]_vars

-----------------------------------------------------------------------------
(* Properties. *)

(* Every slot of the ring holds a time that belongs to it, so that no time is
   held twice. *)
RingSlots ==
  \A i \in Slots : ring[i].start # None => ring[i].start % Capacity = i

(* A snapshot holds exactly the samples of its bucket that came before it was
   taken - however they were folded, and whatever shares its slots - except
   those that a sample with a time a whole ring away has wiped. *)
WireTotal(k) == Size(wire[k])
Span(k) == wire[k].start .. (wire[k].start + Width - 1)
SnapshotsExact ==
  \A k \in DOMAIN wire :
    WireTotal(k) = FoldFunction(+, 0, [t \in Span(k) |-> onTime[t] - erased[t]])

(* FR-MET-024: one snapshot for every bucket, oldest first, however long the
   emitter was held up; what left the ring meanwhile is counted, once. *)
EveryBucketOnce ==
  /\ \A j, k \in DOMAIN wire : j < k => wire[j].start < wire[k].start
  /\ \A k \in DOMAIN wire : wire[k].start % Width = 0
  /\ since # None => Len(wire) + skipped = (lastEmitted - since) \div Width + 1

=============================================================================
