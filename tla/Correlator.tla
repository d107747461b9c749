----------------------------- MODULE Correlator -----------------------------
(***************************************************************************)
(* The latency correlator: requests tracked by client order id, responses  *)
(* matched to them, expiry by age and by capacity.  Time is the agent's    *)
(* clock; an event carries a time of its own, which may lag or lead it.    *)
(***************************************************************************)
EXTENDS Integers, FiniteSets, FiniteSetsExt, Functions

CONSTANTS
  Orders,             \* (session, client order id hash) pairs
  Ttl, MaxEntries, MaxPlausible,
  OrderLag, Lead,          \* how far an event's time may be from the clock
  OrdersUntil, MaxMessages   \* bounds: clock, messages ingested

CorrelatorAssumption == IsFiniteSet(Orders) /\ MaxEntries \in Nat \ {0} /\ Ttl \in Nat

VARIABLES
  orderClock,
  open,       \* LatencyCorrelator._open: [order -> context]
  stats,      \* CorrelatorStats
  tracked,    \* [order -> times it was tracked]
  measured,    \* [histogram, order -> latencies observed]
  messages    \* messages ingested

corrVars == <<orderClock, open, stats, tracked, measured, messages>>

Histograms == {"ack", "exec", "cancel"}
CancelOrigins == {"OrderCancelRequest", "OrderCancelReplaceRequest"}
RequestTypes == {"NewOrderSingle"} \cup CancelOrigins
Responses == {"New", "Trade", "Canceled", "Rejected", "CancelReject"}

Context(type, at) == [origin |-> type, first |-> at, recorded |-> {}]
Expired == {k \in DOMAIN open : open[k].first < orderClock - Ttl}
Kept == Restrict(open, DOMAIN open \ Expired)
Expiry(s) == [s EXCEPT !.ttl = @ + Cardinality(Expired), !.unmatched = @ + Cardinality(Expired)]

(* Which histogram a response to a request of this origin belongs to. *)
HistogramOf(origin, response) ==
  CASE origin = "NewOrderSingle" /\ response = "New" -> "ack"
    [] origin = "NewOrderSingle" /\ response = "Trade" -> "exec"
    [] origin \in CancelOrigins /\ response \in {"Canceled", "CancelReject"} -> "cancel"
    [] OTHER -> "none"

FirstResponseSeen(c) == (IF c.origin \in CancelOrigins THEN "cancel" ELSE "ack") \in c.recorded
Pending == {k \in DOMAIN Kept : ~FirstResponseSeen(Kept[k])}

CorrInit ==
  /\ orderClock = 0 /\ open = <<>> /\ messages = 0
  /\ stats = [ttl |-> 0, cap |-> 0, unmatched |-> 0, orphan |-> 0, anomalies |-> 0]
  /\ tracked = [k \in Orders |-> 0]
  /\ measured = [x \in Histograms \X Orders |-> 0]

CorrTime == {t \in (orderClock - OrderLag)..(orderClock + Lead) : t >= 0}
CorrMessage == /\ messages < MaxMessages /\ messages' = messages + 1
               /\ UNCHANGED orderClock

(* _track_new_order: the capacity is checked before the key is known to be
   new.  Among entries of one age the first tracked goes: any of them here. *)
Room(k) == Cardinality(DOMAIN Kept) < MaxEntries
Oldest == {k \in DOMAIN Kept : \A other \in DOMAIN Kept : Kept[k].first <= Kept[other].first}
Track(k, type, at) ==
  /\ CorrMessage
  /\ \E gone \in IF Room(k) THEN {{}} ELSE {{o} : o \in Oldest} :
       /\ open' = [x \in (DOMAIN Kept \ gone) \cup {k} |->
                     IF x = k THEN Context(type, at) ELSE Kept[x]]
       /\ stats' = LET n == Cardinality(gone) s == Expiry(stats) IN
                   [s EXCEPT !.cap = @ + n, !.unmatched = @ + n]
  /\ tracked' = [tracked EXCEPT ![k] = @ + 1]
  /\ UNCHANGED measured

Orphan(k) ==
  /\ CorrMessage /\ k \notin DOMAIN Kept
  /\ open' = Kept /\ stats' = [Expiry(stats) EXCEPT !.orphan = @ + 1]
  /\ UNCHANGED <<tracked, measured>>

Again(k, h) == h \in Kept[k].recorded
(* A response without a histogram, or one already measured, changes nothing. *)
Ignored(k, response) ==
  LET h == HistogramOf(Kept[k].origin, response) IN
  /\ CorrMessage /\ k \in DOMAIN Kept /\ (h = "none" \/ Again(k, h))
  /\ open' = Kept /\ stats' = Expiry(stats) /\ UNCHANGED <<tracked, measured>>

(* _record_latency: the response counts as seen even when the latency it
   gives is implausible and no sample is taken. *)
Plausible(ms) == ms \in 0..MaxPlausible
Measure(k, response, at) ==
  LET h == HistogramOf(Kept[k].origin, response) IN
  /\ CorrMessage /\ k \in DOMAIN Kept /\ h # "none" /\ ~Again(k, h)
  /\ open' = [Kept EXCEPT ![k].recorded = @ \cup {h}]
  /\ IF Plausible(at - Kept[k].first)
     THEN measured' = [measured EXCEPT ![<<h, k>>] = @ + 1] /\ stats' = Expiry(stats)
     ELSE stats' = [Expiry(stats) EXCEPT !.anomalies = @ + 1] /\ UNCHANGED measured
  /\ UNCHANGED tracked

(* The clock moves; tick and the gauges only expire, as every message does. *)
CorrTick == /\ orderClock < OrdersUntil /\ orderClock' = orderClock + 1
            /\ UNCHANGED <<open, stats, tracked, measured, messages>>
Sweep == /\ Expired # {} /\ open' = Kept /\ stats' = Expiry(stats)
         /\ UNCHANGED <<orderClock, tracked, measured, messages>>

CorrNext ==
  \/ \E k \in Orders, type \in RequestTypes, at \in CorrTime : Track(k, type, at)
  \/ \E k \in Orders, response \in Responses, at \in CorrTime :
       Ignored(k, response) \/ Measure(k, response, at)
  \/ \E k \in Orders : Orphan(k)
  \/ CorrTick \/ Sweep

-----------------------------------------------------------------------------

(* However often a venue repeats an acknowledgement or a fill, and however
   late: a histogram has at most one sample for each time a request was
   tracked, and an answered request is not counted as pending. *)
SampledOnce ==
  \A k \in Orders :
    /\ \A h \in Histograms : measured[h, k] <= tracked[k]
    /\ k \in Pending => measured["ack", k] + measured["cancel", k] < tracked[k]

(* Every request that was tracked is still open, was tracked again under the
   same key, or is counted as an eviction; there are never more than the cap. *)
OpenAccounted ==
  /\ Cardinality(DOMAIN open) <= MaxEntries
  /\ stats.unmatched = stats.ttl + stats.cap
  /\ LET sum == FoldFunction(+, 0, tracked)
         again == sum - Cardinality({k \in Orders : tracked[k] > 0})
     IN Cardinality(DOMAIN open) + stats.unmatched \in (sum - again)..sum

=============================================================================
