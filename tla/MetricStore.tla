----------------------------- MODULE MetricStore -----------------------------
(***************************************************************************)
(* The backend's metric store: for every instance a ring of canonical      *)
(* buckets, fed by snapshots that arrive late, early, twice or in any      *)
(* order.  A snapshot names the time of its own (native) bucket; Width of  *)
(* those times share a canonical bucket.                                   *)
(*                                                                         *)
(* A snapshot is [agent, instance, native, series, amount, gauge,          *)
(* restarted]: series lists its sets of dimensions, each counts `amount`,  *)
(* and gauge is None when it carries no gauges.                            *)
(***************************************************************************)
EXTENDS Integers, Sequences, FiniteSets, SequencesExt, FiniteSetsExt, Functions

CONSTANTS
  Instances,
  Width, Capacity,         \* canonical_bucket_seconds; buckets of a ring
  MaxAge, SeriesCap, Warmup,
  MemoryShed, CheckEvery   \* estimate that sheds; seconds between two checks

ASSUME StoreAssumption ==
  /\ Width \in Nat \ {0} /\ Capacity \in Nat \ {0} /\ SeriesCap \in Nat \ {0}
  /\ MaxAge \in 0 .. (Width * Capacity)

VARIABLES
  rings,         \* MetricStore._rings: [instance -> [slot -> bucket]]
  warmingUntil,  \* _warming_until: [instance -> time], None when never
  lastCheck,     \* _last_memory_check_epoch
  dropped,       \* [old, retention, cap]: the counters of what was not merged
  log            \* every snapshot processed, in order, with what became of it

storeVars == <<rings, warmingUntil, lastCheck, dropped, log>>

None == -1
Slots == 0 .. (Capacity - 1)
Index(t) == t \div Width
Oldest(now) == Index(now) - Capacity + 1
Unused == [start |-> None, series |-> <<>>, gauge |-> None, gaugeFrom |-> None,
           agents |-> {}, restarted |-> {}]

StoreInit ==
  /\ rings = [i \in Instances |-> [s \in Slots |-> Unused]]
  /\ warmingUntil = [i \in Instances |-> None] /\ lastCheck = None
  /\ dropped = [old |-> 0, retention |-> 0, cap |-> 0] /\ log = <<>>

(* _evict_stale and _get_bucket: a slot belongs to whoever asked last. *)
EvictStale(ring, now) ==
  [s \in Slots |-> IF ring[s].start < Oldest(now) THEN Unused ELSE ring[s]]
GetBucketDirty(ring, k) ==  \* mutant: the reused slot is not cleared
  [ring[k % Capacity] EXCEPT !.start = k]
GetBucket(ring, k) ==
  IF ring[k % Capacity].start = k THEN ring[k % Capacity] ELSE [Unused EXCEPT !.start = k]

(* One series entry: what this agent said of this native bucket is replaced. *)
Contribute(held, key, amount) ==
  [x \in DOMAIN held \cup {key} |-> IF x = key THEN amount ELSE held[x]]
AddSeries(b, dims, snap) ==
  LET held == IF dims \in DOMAIN b.series THEN b.series[dims] ELSE <<>>
      key == <<snap.agent, snap.native>>
  IN [b EXCEPT !.series = [d \in DOMAIN @ \cup {dims} |->
        IF d = dims THEN Contribute(held, key, snap.amount) ELSE @[d]]]
OverCap(b, dims) == dims \notin DOMAIN b.series /\ Cardinality(DOMAIN b.series) >= SeriesCap

TakesGauge(b, snap) == snap.gauge # None /\ snap.native >= b.gaugeFrom
Header(b, snap) ==
  [b EXCEPT !.agents = @ \cup {snap.agent},
            !.restarted = IF snap.restarted THEN @ \cup {snap.agent} ELSE @,
            !.gauge = IF TakesGauge(b, snap) THEN snap.gauge ELSE @,
            !.gaugeFrom = IF TakesGauge(b, snap) THEN snap.native ELSE @]
AddOne(x, dims, snap) ==
  IF OverCap(x.bucket, dims) THEN [bucket |-> x.bucket, refused |-> x.refused + 1]
  ELSE [bucket |-> AddSeries(x.bucket, dims, snap), refused |-> x.refused]
AddAll(b, snap) ==
  LET added[n \in 0 .. Len(snap.series)] ==
        IF n = 0 THEN [bucket |-> Header(b, snap), refused |-> 0]
        ELSE AddOne(added[n - 1], snap.series[n], snap)
  IN added[Len(snap.series)]

(* estimated_memory_bytes, in contributions and occupied buckets. *)
Occupied(r) == {x \in Instances \X Slots : r[x[1]][x[2]].start # None}
Estimate(r) ==
  Cardinality(Occupied(r))
  + MapThenSumSet(LAMBDA x : LET b == r[x[1]][x[2]] IN
                    MapThenSumSet(LAMBDA d : Cardinality(DOMAIN b.series[d]), DOMAIN b.series),
                  Occupied(r))

(* _shed_oldest_tier: the older half of what is retained, of every instance. *)
ShedBefore(now) == Index(now) - Max({Capacity \div 2, 1}) + 1
Shed(r, now) ==
  [i \in Instances |-> [s \in Slots |->
     IF r[i][s].start < ShedBefore(now) THEN Unused ELSE r[i][s]]]

(* _maybe_check_memory_pressure, after every merge that kept the snapshot. *)
CheckDue(now) == lastCheck = None \/ now - lastCheck >= CheckEvery
Entry(snap, now, kept, shed) == [snap |-> snap, at |-> now, kept |-> kept, shed |-> shed]

(* process_snapshot: too old, beyond retention (its ring is swept first), or merged. *)
TooOld(snap, now) == now - Index(snap.native) * Width > MaxAge
Discard(snap, now) ==
  /\ TooOld(snap, now)
  /\ dropped' = [dropped EXCEPT !.old = @ + 1]
  /\ log' = Append(log, Entry(snap, now, FALSE, FALSE))
  /\ UNCHANGED <<rings, warmingUntil, lastCheck>>
Unretained(snap, now) ==
  /\ ~TooOld(snap, now) /\ Index(snap.native) < Oldest(now)
  /\ rings' = [rings EXCEPT ![snap.instance] = EvictStale(@, now)]
  /\ dropped' = [dropped EXCEPT !.retention = @ + 1]
  /\ log' = Append(log, Entry(snap, now, FALSE, FALSE))
  /\ UNCHANGED <<warmingUntil, lastCheck>>
Merge(snap, now) ==
  LET k == Index(snap.native)
      ring == EvictStale(rings[snap.instance], now)
      added == AddAll(GetBucket(ring, k), snap)
      merged == [rings EXCEPT ![snap.instance] = [ring EXCEPT ![k % Capacity] = added.bucket]]
      shed == CheckDue(now) /\ Estimate(merged) >= MemoryShed
  IN /\ ~TooOld(snap, now) /\ k >= Oldest(now)
     /\ rings' = IF shed THEN Shed(merged, now) ELSE merged
     /\ dropped' = [dropped EXCEPT !.cap = @ + added.refused]
     /\ warmingUntil' = IF snap.restarted
                        THEN [warmingUntil EXCEPT ![snap.instance] = Max({@, k * Width + Warmup})]
                        ELSE warmingUntil
     /\ lastCheck' = IF CheckDue(now) THEN now ELSE lastCheck
     /\ log' = Append(log, Entry(snap, now, TRUE, shed))
Process(snap, now) == Discard(snap, now) \/ Unretained(snap, now) \/ Merge(snap, now)

(* _in_range_buckets and read: counters summed over a range of buckets, which
   is cut to the last Capacity of it. *)
InRangeUnchecked(i, from, to) ==  \* mutant: whatever the slot holds is read
  {k \in Max({from, to - Capacity + 1}) .. to : rings[i][k % Capacity].start # None}
InRange(i, from, to) ==
  {k \in Max({from, to - Capacity + 1}) .. to : rings[i][k % Capacity].start = k}
SumOf(held) == MapThenSumSet(LAMBDA key : held[key], DOMAIN held)
CountIn(b, dims) == IF dims \in DOMAIN b.series THEN SumOf(b.series[dims]) ELSE 0
Read(i, from, to, dims) ==
  SumOf([k \in InRange(i, from, to) |-> CountIn(rings[i][k % Capacity], dims)])

-----------------------------------------------------------------------------
(* What the store should hold, told by the log alone. *)

At(j) == Index(log[j].snap.native)
WipedBy(j, i, k) ==
  \/ /\ log[j].snap.instance = i /\ ~TooOld(log[j].snap, log[j].at) /\ k < Oldest(log[j].at)
  \/ /\ log[j].snap.instance = i /\ log[j].kept /\ At(j) # k /\ At(j) % Capacity = k % Capacity
  \/ log[j].shed /\ k < ShedBefore(log[j].at)
LiveMerges(i, k) ==
  {j \in DOMAIN log :
     /\ log[j].kept /\ log[j].snap.instance = i /\ At(j) = k
     /\ \A later \in j .. Len(log) : ~WipedBy(later, i, k)}
Speaker(j) == <<log[j].snap.agent, log[j].snap.native>>
Naming(live, dims) == {j \in live : dims \in ToSet(log[j].snap.series)}
Said(live, dims, key) == {j \in Naming(live, dims) : Speaker(j) = key}
ExpectedSeries(live, dims) ==
  [key \in {Speaker(j) : j \in Naming(live, dims)} |-> log[Max(Said(live, dims, key))].snap.amount]
ExpectedCount(i, k, dims) ==
  LET live == LiveMerges(i, k) IN
  IF Naming(live, dims) = {} THEN 0 ELSE SumOf(ExpectedSeries(live, dims))
Gauged(live) == {j \in live : log[j].snap.gauge # None}
Latest(live) ==
  {j \in Gauged(live) : \A other \in Gauged(live) : log[other].snap.native <= log[j].snap.native}
ExpectedGauge(live) ==
  IF Gauged(live) = {} THEN None ELSE log[Max(Latest(live))].snap.gauge

Buckets == {At(j) : j \in DOMAIN log}
AllDims == UNION {ToSet(log[j].snap.series) : j \in DOMAIN log}

(* FR-STM-003, FR-MET-028: whatever order snapshots arrive in and however often,
   every bucket that was not evicted, shed or displaced counts the last thing
   each agent said of each native bucket, once, and shows its latest gauges. *)
BucketsExact ==
  \A i \in Instances, k \in Buckets :
    LET b == rings[i][k % Capacity] live == LiveMerges(i, k) IN
    /\ b.start = k <=> live # {}
    /\ live # {} =>
         /\ b.agents = {log[j].snap.agent : j \in live}
         /\ b.restarted = {log[j].snap.agent : j \in {x \in live : log[x].snap.restarted}}
         /\ b.gauge = ExpectedGauge(live)
         /\ \A d \in DOMAIN b.series : b.series[d] = ExpectedSeries(live, d)
         /\ DOMAIN b.series = UNION {ToSet(log[j].snap.series) : j \in live}

(* A query that ends now sums the retained buckets of its range and no other,
   although expired buckets stay in the ring until something sweeps it. *)
ReadsRetained(now) ==
  \A i \in Instances, d \in AllDims, from \in Buckets :
    Read(i, from, Index(now), d) =
      SumOf([k \in {x \in Buckets : /\ from <= x /\ x \in Oldest(now) .. Index(now)
                                   /\ LiveMerges(i, x) # {}}
               |-> ExpectedCount(i, k, d)])

=============================================================================
