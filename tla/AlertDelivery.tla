---------------------------- MODULE AlertDelivery ----------------------------
(***************************************************************************)
(* What happens to an alert once the engine has told it: the router hands  *)
(* each notification to the callback dispatcher and to the publisher; the  *)
(* outcome of a callback is published a second time, and the backend       *)
(* merges what it is sent.  (The third hand-over is module ActionRunner.)  *)
(*                                                                         *)
(* A notification is [id, n]: the n-th the engine tells about alert id,    *)
(* with the status and count of Life[id][n].  The publisher is a queue that    *)
(* keeps its order, may send an item again and may give one up, which is   *)
(* what module Publisher shows of it.                                      *)
(***************************************************************************)
EXTENDS AlertStore, FiniteSets, SequencesExt

CONSTANTS
  Alerts, Life,       \* alert ids; [alert -> its notifications in order]
  Workers,            \* max_inflight callbacks
  QueueSize,          \* queue_size of the callbacks
  MaxAttempts,
  MAX_NOTIFICATIONS_PER_ALERT,
  MaxAgain, MaxLost   \* bounds: items sent again, alerts with an item given up

ASSUME DeliveryAssumption ==
  /\ QueueSize \in Nat \ {0} /\ MaxAttempts \in Nat \ {0}
  /\ MAX_NOTIFICATIONS_PER_ALERT \in Nat \ {0} /\ IsFiniteSet(Workers)
  /\ \A a \in Alerts : Len(Life[a]) \in Nat /\ DOMAIN Life[a] = 1 .. Len(Life[a])

VARIABLES
  told,       \* [Alerts -> notifications routed]
  queue,      \* CallbackDispatcher._queue
  worker,     \* [Workers -> the delivery a worker is in, or Idle]
  tracker,    \* DeliveryTracker._records: [Alerts -> records, latest update last]
  dropped, settled, forgotten,
              \* notifications the queue dropped; with an outcome; no longer tracked
  pub, again, lost,   \* the publisher's queue; sent again; alerts with an item given up
  store       \* the backend's alerts of this agent

callbackVars == <<queue, worker, tracker, dropped, settled, forgotten>>
publishVars == <<pub, again, lost, store>>
vars == <<told, callbackVars, publishVars>>

Notes == UNION {[id : {a}, n : DOMAIN Life[a]] : a \in Alerts}
Routed == {x \in Notes : x.n <= told[x.id]}
NoNote == [id |-> "none", n |-> 0]
Idle == [note |-> NoNote, attempt |-> 0, phase |-> "idle"]

Init ==
  /\ told = [a \in Alerts |-> 0]
  /\ queue = <<>> /\ worker = [w \in Workers |-> Idle] /\ tracker = [a \in Alerts |-> <<>>]
  /\ dropped = {} /\ settled = {} /\ forgotten = {}
  /\ pub = <<>> /\ again = 0 /\ lost = {} /\ store = NoAlerts

-----------------------------------------------------------------------------
(* The queue and the tracker. *)

(* put_dropping_oldest. *)
PutRefusing(q, x, size) ==  \* mutant: the newest is refused
  IF Len(q) >= size THEN q ELSE Append(q, x)
Put(q, x, size) == IF Len(q) >= size THEN Append(Tail(q), x) ELSE Append(q, x)

Tracked(trk, x) == \E i \in DOMAIN trk[x.id] : trk[x.id][i].n = x.n
PlaceOf(trk, x) == CHOOSE i \in DOMAIN trk[x.id] : trk[x.id][i].n = x.n
RecordOf(trk, x) == trk[x.id][PlaceOf(trk, x)]

(* DeliveryTracker.record: pending starts afresh, sent is an attempt; the
   oldest records of the alert leave. *)
RecordShared(trk, x, status) ==  \* mutant: the notifications of an alert share a record
  LET attempts == IF trk[x.id] = <<>> \/ status = "pending" THEN 0 ELSE Head(trk[x.id]).attempts
  IN [trk EXCEPT ![x.id] = <<[n |-> x.n, status |-> status,
                              attempts |-> attempts + IF status = "sent" THEN 1 ELSE 0]>>]
Record(trk, x, status) ==
  LET before == IF Tracked(trk, x) /\ status # "pending" THEN RecordOf(trk, x).attempts ELSE 0
      others == IF Tracked(trk, x) THEN RemoveAt(trk[x.id], PlaceOf(trk, x)) ELSE trk[x.id]
      new == [n |-> x.n, status |-> status, attempts |-> before + IF status = "sent" THEN 1 ELSE 0]
  IN [trk EXCEPT ![x.id] = Lasts(Append(others, new), MAX_NOTIFICATIONS_PER_ALERT)]
Forget(trk) == forgotten' = forgotten \cup
  {x \in Notes : Tracked(tracker, x) /\ ~Tracked(trk, x)}

Track(x, status) == tracker' = Record(tracker, x, status) /\ Forget(tracker')

(* enrich_alert_delivery, by _API_STATUS. *)
ApiStatus(status) == IF status \in {"sent", "retrying"} THEN "retrying" ELSE status
Enriched(trk, x) ==
  [id |-> x.id, status |-> Life[x.id][x.n].status, count |-> Life[x.id][x.n].count,
   delivery |-> IF Tracked(trk, x) THEN ApiStatus(RecordOf(trk, x).status) ELSE NoDelivery]

-----------------------------------------------------------------------------
(* AlertRouter.route. *)

Route(a) ==
  LET x == [id |-> a, n |-> told[a] + 1] IN
  /\ told[a] < Len(Life[a]) /\ told' = [told EXCEPT ![a] = @ + 1]
  /\ Track(x, "pending")
  /\ queue' = Put(queue, x, QueueSize)
  /\ dropped' = dropped \cup (IF Len(queue) >= QueueSize THEN {Head(queue)} ELSE {})
  /\ pub' = Append(pub, Enriched(tracker', x))
  /\ UNCHANGED <<worker, settled, again, lost, store>>

-----------------------------------------------------------------------------
(* A worker of the dispatcher. *)

Job(w) == worker[w].note
Settle(w, status) ==
  /\ Track(Job(w), status)
  /\ settled' = settled \cup {Job(w)}
  /\ pub' = Append(pub, Enriched(tracker', Job(w)))
  /\ worker' = [worker EXCEPT ![w] = Idle]
  /\ UNCHANGED <<told, queue, dropped, again, lost, store>>

Attempt(w, x, attempt) ==
  /\ worker' = [worker EXCEPT ![w] = [note |-> x, attempt |-> attempt, phase |-> "sent"]]
  /\ Track(x, "sent")
  /\ UNCHANGED <<told, dropped, settled, publishVars>>

Get(w) ==
  /\ worker[w] = Idle /\ queue # <<>> /\ queue' = Tail(queue)
  /\ Attempt(w, Head(queue), 1)

(* The payload is larger than max_bytes: an outcome without an attempt. *)
GetTooLarge(w) ==
  /\ worker[w] = Idle /\ queue # <<>> /\ queue' = Tail(queue)
  /\ Track(Head(queue), "failed")
  /\ settled' = settled \cup {Head(queue)}
  /\ pub' = Append(pub, Enriched(tracker', Head(queue)))
  /\ UNCHANGED <<told, worker, dropped, again, lost, store>>

Delivered(w) == worker[w].phase = "sent" /\ Settle(w, "delivered")
PermanentFailure(w) == worker[w].phase = "sent" /\ Settle(w, "failed")

RetriesExhausted(w) ==
  /\ worker[w].phase = "sent" /\ worker[w].attempt >= MaxAttempts /\ Settle(w, "failed")
RetryLater(w) ==
  /\ worker[w].phase = "sent" /\ worker[w].attempt < MaxAttempts
  /\ worker' = [worker EXCEPT ![w].phase = "retrying"]
  /\ Track(Job(w), "retrying")
  /\ UNCHANGED <<told, queue, dropped, settled, publishVars>>
RetryOffByOne(w) ==  \* mutant: the last attempt is never made
  /\ worker[w].phase = "retrying" /\ UNCHANGED queue /\ worker[w].attempt + 1 < MaxAttempts
  /\ Attempt(w, Job(w), worker[w].attempt + 1)
Retry(w) ==
  /\ worker[w].phase = "retrying" /\ UNCHANGED queue
  /\ Attempt(w, Job(w), worker[w].attempt + 1)

Work(w) == Get(w) \/ GetTooLarge(w) \/ Delivered(w) \/ PermanentFailure(w)
           \/ RetriesExhausted(w) \/ RetryLater(w) \/ Retry(w)

-----------------------------------------------------------------------------
(* The publisher and the backend. *)

Publish ==
  /\ pub # <<>> /\ pub' = Tail(pub) /\ store' = Merge(store, Head(pub))
  /\ UNCHANGED <<told, callbackVars, again, lost>>
PublishAgain ==
  /\ pub # <<>> /\ again < MaxAgain /\ again' = again + 1
  /\ store' = Merge(store, Head(pub))
  /\ UNCHANGED <<told, callbackVars, pub, lost>>
GiveUp ==
  /\ pub # <<>> /\ Cardinality(lost) < MaxLost /\ pub' = Tail(pub)
  /\ lost' = lost \cup {Head(pub).id}
  /\ UNCHANGED <<told, callbackVars, again, store>>

-----------------------------------------------------------------------------

Next ==
  \/ \E a \in Alerts : Route(a)
  \/ \E w \in Workers : Work(w)
  \/ Publish \/ PublishAgain \/ GiveUp

Spec == Init /\ [][Next]_vars
(* Every send has a timeout; the publisher keeps trying. *)
FairSpec == Spec /\ WF_vars(Publish) /\ \A w \in Workers : WF_vars(Work(w))

-----------------------------------------------------------------------------
(* Properties. *)

At(x, w) == worker[w].note = x
InFlight(x) == \E w \in Workers : At(x, w)

(* Each notification routed is in one place: queued, with one worker, dropped
   or settled, and its own record says which - a dropped one stays pending.
   Attempts are those of this notification, whatever the other notifications
   of its alert do meanwhile (status.py: "never shares attempts or status"), and
   a record is forgotten only for newer ones of an alert that had too many. *)
TrackerAgrees ==
  /\ \A x \in forgotten : told[x.id] > MAX_NOTIFICATIONS_PER_ALERT
  /\ \A x \in Routed \ forgotten :
       LET r == RecordOf(tracker, x) IN
       /\ Tracked(tracker, x)
       /\ r.status = "pending" <=> (x \in ToSet(queue) \/ x \in dropped)
       /\ r.status \in {"delivered", "failed"} <=> x \in settled
       /\ \A w \in Workers :
            At(x, w) => r.status = worker[w].phase /\ r.attempts = worker[w].attempt
       /\ r.status \in {"sent", "retrying"} => \E w \in Workers : At(x, w)

(* Each notification routed has one fate: it is queued once, with one worker,
   was dropped for newer ones, or has its outcome; nothing else is delivered. *)
Queued == {queue[i] : i \in DOMAIN queue}
Calling == {Job(w) : w \in {v \in Workers : worker[v] # Idle}}
Accounted ==
  /\ Routed = Queued \cup Calling \cup dropped \cup settled
  /\ Queued \cap Calling = {} /\ dropped \cap settled = {}
  /\ (Queued \cup Calling) \cap (dropped \cup settled) = {}
  /\ \A i, j \in DOMAIN queue : queue[i] = queue[j] => i = j
  /\ \A v, w \in Workers : worker[v] # Idle /\ Job(v) = Job(w) => v = w

(* Once all callbacks have an outcome and all of it is published, the backend
   shows each alert in the status the engine told last, with the outcome of a
   callback - although the outcomes arrive out of order and are published as
   notifications again - unless an item was given up or a callback dropped. *)
Quiet == pub = <<>> /\ Routed \subseteq settled
BackendCatchesUp ==
  Quiet => \A a \in Alerts \ lost : told[a] > 0 =>
    /\ store.alerts[a].status = Life[a][told[a]].status
    /\ store.alerts[a].delivery \in {"delivered", "failed"}

(* Every notification is settled or dropped in the end. *)
EveryCallbackEnds ==
  \A x \in Notes : (x \in Routed) ~> (x \in settled \cup dropped)

=============================================================================
