------------------------------ MODULE Ingestion ------------------------------
(***************************************************************************)
(* The backend's ingestion: the duplicate and rate guard, the admission of *)
(* series against the cap of their bucket, the bounded queue and its one   *)
(* consumer, which feeds the metric store and the event store.             *)
(*                                                                         *)
(* A request handler does not await between its checks and its answer, so  *)
(* each is one action.  The consumer works in another thread: the time it  *)
(* took an item is the `now` of all the item's snapshots.                  *)
(***************************************************************************)
EXTENDS MetricStore

CONSTANTS
  Batches,    \* [name -> [agent, id, snapshots, events]]: what agents send
  QueueSize, DedupeTtl, DedupeSize, RateLimit, RateWindow, EventLimit,
  IngestFrom, IngestUntil, MaxSends   \* bounds: clock, requests

(* What a request carries once it is validated. *)
IsList(s) == s \in Seq(ToSet(s))
IsSnapshot(s) ==
  /\ s.instance \in Instances /\ s.native \in Nat /\ s.restarted \in BOOLEAN /\ IsList(s.series)

ASSUME IngestionAssumption ==
  /\ \A n \in DOMAIN Batches :
       /\ IsList(Batches[n].snapshots) /\ IsList(Batches[n].events)
       /\ \A s \in ToSet(Batches[n].snapshots) : IsSnapshot(s)
  /\ QueueSize \in Nat \ {0} /\ DedupeSize \in Nat \ {0} /\ RateLimit \in Nat \ {0}
  /\ DedupeTtl \in Nat /\ RateWindow \in Nat /\ EventLimit \in Nat \ {0} /\ IngestFrom \in Nat

VARIABLES
  ingestClock,
  seenIds,    \* IngestGuard._seen: [agent -> [id, at], oldest first]
  times,      \* IngestGuard._accepted: [agent -> times accepted]
  reserved,   \* _admitted_series_by_bucket: [bucket key, dims -> batches]
  inbox,      \* the queue: names of batches
  working,    \* the item being processed: [batch, now, left]
  events,     \* EventStore: ids of the events held, oldest first
  accepted,   \* every 202 that was not a duplicate: [batch, at]
  sends

guardVars == <<seenIds, times>>
ingestVars == <<storeVars, ingestClock, guardVars, reserved, inbox, working, events, accepted, sends>>

SendingAgents == {Batches[b].agent : b \in DOMAIN Batches}
NoItem == [batch |-> "none", now |-> 0, left |-> <<>>]

IngestInit ==
  /\ StoreInit /\ ingestClock = IngestFrom /\ sends = 0
  /\ seenIds = [a \in SendingAgents |-> <<>>] /\ times = [a \in SendingAgents |-> <<>>]
  /\ reserved = <<>> /\ inbox = <<>> /\ working = NoItem /\ events = <<>> /\ accepted = <<>>

(* IngestGuard.check: the expired ids at the front go, then the old times, each
   up to the first that is to stay. *)
From(s, staying) == IF staying = {} THEN <<>> ELSE SubSeq(s, Min(staying), Len(s))
ExpiredId(x) == ingestClock - x.at >= DedupeTtl
Unexpired(s) == From(s, {i \in DOMAIN s : ~ExpiredId(s[i])})
RecentLonger(s) == From(s, {i \in DOMAIN s : ingestClock - s[i] < RateWindow - 1})  \* mutant: forgets early
Recent(s) == From(s, {i \in DOMAIN s : ingestClock - s[i] < RateWindow})
Duplicate(b) == \E x \in ToSet(Unexpired(seenIds[b.agent])) : x.id = b.id
Limited(b) == ~Duplicate(b) /\ Len(Recent(times[b.agent])) >= RateLimit
Accepts(b) == ~Duplicate(b) /\ ~Limited(b)

(* check() leaves the ids expired, and the times slid unless it found a duplicate. *)
CheckOnly(b) ==
  /\ seenIds' = [seenIds EXCEPT ![b.agent] = Unexpired(@)]
  /\ times' = IF Duplicate(b) THEN times ELSE [times EXCEPT ![b.agent] = Recent(@)]
NewestIds(s) == IF Len(s) > DedupeSize THEN Tail(s) ELSE s
Commit(b) ==
  /\ seenIds' = [seenIds EXCEPT ![b.agent] =
                   NewestIds(Append(Unexpired(@), [id |-> b.id, at |-> ingestClock]))]
  /\ times' = [times EXCEPT ![b.agent] = Append(Recent(@), ingestClock)]

(* Admission.  A bucket is keyed by its start in seconds, and reservations
   are expired by comparing that with a bucket's index. *)
KeyOf(snap) == <<snap.instance, Index(snap.native) * Width>>
Candidates(b) == UNION {{<<KeyOf(s), d>> : d \in ToSet(s.series)} : s \in ToSet(b.snapshots)}
Unexpiring(r) == Restrict(r, {x \in DOMAIN r : x[1][2] >= Oldest(ingestClock)})
SeriesOf(r, key) == {x \in DOMAIN r : x[1] = key}
FitsAtCap(r, b) ==  \* mutant: off by one
  \A c \in Candidates(b) :
    Cardinality(SeriesOf(r, c[1]) \cup {x \in Candidates(b) : x[1] = c[1]}) <= SeriesCap + 1
Fits(r, b) ==
  \A c \in Candidates(b) :
    Cardinality(SeriesOf(r, c[1]) \cup {x \in Candidates(b) : x[1] = c[1]}) <= SeriesCap
Reserve(r, b) ==
  [x \in DOMAIN r \cup Candidates(b) |->
     (IF x \in DOMAIN r THEN r[x] ELSE 0) + (IF x \in Candidates(b) THEN 1 ELSE 0)]
Release(r, b) ==
  LET left == [x \in DOMAIN r |-> r[x] - (IF x \in Candidates(b) THEN 1 ELSE 0)] IN
  Restrict(left, {x \in DOMAIN r : left[x] > 0})

-----------------------------------------------------------------------------
(* POST /telemetry/batch *)

Send == sends < MaxSends /\ sends' = sends + 1 /\ UNCHANGED <<ingestClock, working, events, storeVars>>
Quiet == UNCHANGED <<inbox, accepted>>

Repeat(b) ==  \* 202, duplicate; 429
  /\ Send /\ Quiet /\ ~Accepts(b) /\ CheckOnly(b) /\ UNCHANGED reserved
Refuse(b) ==  \* 400: a key that is not allowed, or a bucket over its cap
  /\ Send /\ Quiet /\ Accepts(b) /\ CheckOnly(b)
  /\ ~b.valid \/ ~Fits(Unexpiring(reserved), b)
  /\ reserved' = IF b.valid THEN Unexpiring(reserved) ELSE reserved
Full(b) ==  \* 503: what was reserved is released, and the guard knows nothing
  /\ Send /\ Quiet /\ Accepts(b) /\ CheckOnly(b)
  /\ b.valid /\ Fits(Unexpiring(reserved), b) /\ Len(inbox) >= QueueSize
  /\ reserved' = Release(Reserve(Unexpiring(reserved), b), b)
Accept(name) ==  \* 202
  LET b == Batches[name] IN
  /\ Send /\ Accepts(b) /\ Commit(b)
  /\ b.valid /\ Fits(Unexpiring(reserved), b) /\ Len(inbox) < QueueSize
  /\ reserved' = Reserve(Unexpiring(reserved), b)
  /\ inbox' = Append(inbox, name)
  /\ accepted' = Append(accepted, [batch |-> name, at |-> ingestClock])
Post(name) ==
  \/ Repeat(Batches[name]) \/ Refuse(Batches[name]) \/ Full(Batches[name]) \/ Accept(name)

-----------------------------------------------------------------------------
(* IngestionService.run *)

Requests == <<ingestClock, guardVars, reserved, accepted, sends>>
Take ==
  /\ working = NoItem /\ inbox # <<>> /\ inbox' = Tail(inbox)
  /\ working' = [batch |-> inbox[1], now |-> ingestClock, left |-> Batches[inbox[1]].snapshots]
  /\ UNCHANGED <<Requests, events, storeVars>>
ProcessNext ==
  /\ working.left # <<>> /\ working' = [working EXCEPT !.left = Tail(@)]
  /\ Process(working.left[1], working.now)
  /\ UNCHANGED <<Requests, inbox, events>>

(* EventStore.append: an event held is not stored again; the oldest go. *)
AppendEvent(held, e) == IF e \in ToSet(held) THEN held ELSE Append(held, e)
Evict(held) == IF Len(held) > EventLimit THEN Tail(held) ELSE held
Stored(held, sent) ==
  LET stored[n \in 0 .. Len(sent)] ==
        IF n = 0 THEN held ELSE Evict(AppendEvent(stored[n - 1], sent[n]))
  IN stored[Len(sent)]
Done ==
  /\ working # NoItem /\ working.left = <<>> /\ working' = NoItem
  /\ events' = Stored(events, Batches[working.batch].events)
  /\ UNCHANGED <<Requests, inbox, storeVars>>

IngestTick ==
  /\ ingestClock < IngestUntil /\ ingestClock' = ingestClock + 1
  /\ UNCHANGED <<storeVars, guardVars, reserved, inbox, working, events, accepted, sends>>

IngestNext ==
  \/ \E name \in DOMAIN Batches : Post(name)
  \/ Take \/ ProcessNext \/ Done \/ IngestTick

IngestSpec == IngestInit /\ [][IngestNext]_ingestVars

-----------------------------------------------------------------------------

(* FR-ING-004, FR-ING-006: every batch that was accepted is taken once and in
   order, and all its snapshots are processed in order, however many batches
   were refused in between; no series of it is dropped by the store's own cap;
   the series reserved in a bucket are exactly those of the batches accepted,
   until the bucket's reservations lapse; and an event is held once however
   often it was sent. *)
Joined(snaps, taking) == snaps \o Batches[taking.batch].snapshots
Flat(taken) ==
  LET flat[n \in 0 .. Len(taken)] ==
        IF n = 0 THEN <<>> ELSE Joined(flat[n - 1], taken[n])
  IN flat[Len(taken)]
Taken == Len(accepted) - Len(inbox)
Conserved ==
  /\ inbox = [n \in 1 .. Len(inbox) |-> accepted[Taken + n].batch]
  /\ [j \in DOMAIN log |-> log[j].snap] \o working.left = Flat(SubSeq(accepted, 1, Taken))
CandidatesOf(i) == Candidates(Batches[accepted[i].batch])
Holders(x) == {i \in DOMAIN accepted : x \in CandidatesOf(i)}
ReservedExactly ==
  \A x \in DOMAIN reserved \cup UNION {CandidatesOf(i) : i \in DOMAIN accepted} :
    x[1][2] >= Oldest(ingestClock) =>
      (IF x \in DOMAIN reserved THEN reserved[x] ELSE 0) = Cardinality(Holders(x))
AdmittedConserved ==
  /\ Conserved /\ dropped.cap = 0 /\ ReservedExactly
  /\ \A i, j \in DOMAIN events : events[i] = events[j] => i = j

(* FR-ING-004, FR-ING-008: a batch id is not accepted again within its time to
   live unless DedupeSize others of the agent came between, and no window
   holds more accepted batches of an agent than the limit. *)
AgentOf(i) == Batches[accepted[i].batch].agent
IdOf(i) == Batches[accepted[i].batch].id
GuardSound ==
  \A i, j \in DOMAIN accepted :
    i < j /\ AgentOf(i) = AgentOf(j) =>
      /\ IdOf(i) = IdOf(j) =>
           \/ accepted[j].at - accepted[i].at >= DedupeTtl
           \/ Cardinality({x \in (i + 1)..(j - 1) : AgentOf(x) = AgentOf(i)}) >= DedupeSize
      /\ Cardinality({x \in i..j : AgentOf(x) = AgentOf(i)}) > RateLimit =>
           accepted[j].at - accepted[i].at >= RateWindow

(* ReadsRetained, at any time of the clock. *)
RetainedAnswers == ReadsRetained(ingestClock)

=============================================================================
