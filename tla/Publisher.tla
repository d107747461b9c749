------------------------------- MODULE Publisher -------------------------------
(***************************************************************************)
(* The agent's publisher: a buffer bounded by bytes and by age that drops  *)
(* its oldest items, and the loop that takes a batch off its front, posts  *)
(* it and acts on the answer.                                              *)
(*                                                                         *)
(* Items are enqueued from other threads between any two steps of the      *)
(* loop; the answer comes at any time after the request, or not at all, in *)
(* which case the backend may or may not have the batch.                   *)
(*                                                                         *)
(* Time is counted in units by the ages of the items and by the timers,    *)
(* none of which counts on once it no longer matters.                      *)
(***************************************************************************)
EXTENDS Naturals, Sequences, SequencesExt

CONSTANTS
  Sizes,          \* sizes an item may have
  MaxBytes,       \* buffer_bytes
  MaxAge,         \* buffer_max_age_seconds
  MaxBatchItems,  \* max_batch_items
  ProbeInterval,  \* halt_probe_interval_seconds
  Delays,         \* backoff delays the retry policy may give
  Waits,          \* values of Retry-After the backend may give
  MaxSend,        \* bound: time until the answer or the timeout of a request
  StampDelay,     \* bound: time between the stamp of an item and its append
  MaxItems,       \* bound: items enqueued
  MayStop         \* does the process shut down?

ASSUME PublisherAssumption ==
  /\ Sizes \subseteq Nat \ {0} /\ MaxBytes \in Nat \ {0} /\ MaxAge \in Nat
  /\ MaxBatchItems \in Nat \ {0} /\ ProbeInterval \in Nat
  /\ Delays \subseteq Nat /\ Waits \subseteq Nat
  /\ MaxSend \in Nat /\ StampDelay \in Nat /\ MaxItems \in Nat
  /\ MayStop \in BOOLEAN

Item == [id : 1 .. MaxItems, size : Sizes, age : 0 .. MaxAge + 1]
Bytes(s) ==
  LET total[n \in 0 .. Len(s)] == IF n = 0 THEN 0 ELSE total[n - 1] + s[n].size
  IN total[Len(s)]
Ids(s) == {s[n].id : n \in DOMAIN s}
Oldest(s, n) == SubSeq(s, 1, n)
Rest(s, n) == SubSeq(s, n + 1, Len(s))

VARIABLES
  buf,         \* PublishBuffer._items
  bytes,       \* PublishBuffer._total_bytes
  pc,          \* publish_once: "idle", "take" or "sending"
  due,         \* has the interval since the last publish_once passed?
  phase,       \* "run", "last" (the publish at shutdown) or "done"
  inflight,    \* the items taken and not settled
  sentFor,     \* time since publish_once looked at the clock
  maxItems,    \* _max_batch_items
  halted,      \* _halted
  haltedFor,   \* time since _halted_at
  backoff,     \* time left until _backoff_until
  retryAfter,  \* time left until _retry_after_until
  up,          \* the backend has recovered for good
  \* History.
  enqueued,    \* number of items enqueued
  committed, rejected, dropped, abandoned,  \* what became of them
  received     \* items the backend accepted

bufVars == <<buf, bytes>>
gateVars == <<halted, haltedFor, backoff, retryAfter>>
histVars == <<enqueued, committed, rejected, dropped, abandoned, received>>
vars == <<bufVars, pc, due, phase, inflight, sentFor, maxItems, gateVars, up, histVars>>

Init ==
  /\ buf = <<>> /\ bytes = 0 /\ pc = "idle" /\ due = TRUE /\ phase = "run"
  /\ inflight = <<>> /\ sentFor = 0 /\ maxItems = MaxBatchItems
  /\ halted = FALSE /\ haltedFor = 0 /\ backoff = 0 /\ retryAfter = 0
  /\ up = FALSE
  /\ enqueued = 0 /\ committed = {} /\ rejected = {} /\ dropped = {}
  /\ abandoned = {} /\ received = {}

-----------------------------------------------------------------------------
(* The buffer. *)

(* The oldest go, one at a time, while the buffer is over its limit and not
   down to a single item. *)
Fits(s, total, n) == total - Bytes(Oldest(s, n)) <= MaxBytes \/ n + 1 >= Len(s)
EvictOverflow(s, total) ==
  \E n \in 0 .. Len(s) :
    /\ Fits(s, total, n) /\ \A m \in 0 .. n - 1 : ~Fits(s, total, m)
    /\ buf' = Rest(s, n) /\ bytes' = total - Bytes(Oldest(s, n))
    /\ dropped' = dropped \cup Ids(Oldest(s, n))

Enqueue ==
  /\ enqueued < MaxItems /\ phase # "done"
  /\ enqueued' = enqueued + 1
  /\ \E size \in Sizes, age \in 0 .. StampDelay :
       EvictOverflow(Append(buf, [id |-> enqueued + 1, size |-> size, age |-> age]),
                     bytes + size)
  /\ UNCHANGED <<pc, due, phase, inflight, sentFor, maxItems, gateVars, up,
                 committed, rejected, abandoned, received>>

(* Expired items leave from the head, up to the first that is young enough. *)
ExpireNone == UNCHANGED <<buf, bytes, dropped>>  \* mutant: items never grow too old
Expire ==
  \E n \in 0 .. Len(buf) :
    /\ \A k \in 1 .. n : buf[k].age > MaxAge
    /\ n < Len(buf) => buf[n + 1].age <= MaxAge
    /\ buf' = Rest(buf, n) /\ bytes' = bytes - Bytes(Oldest(buf, n))
    /\ dropped' = dropped \cup Ids(Oldest(buf, n))

RequeueBehind ==  \* mutant: the batch goes to the end of the buffer
  EvictOverflow(buf \o inflight, bytes + Bytes(inflight))
RequeueFront == EvictOverflow(inflight \o buf, bytes + Bytes(inflight))

-----------------------------------------------------------------------------
(* publish_once. *)

GatesOpen ==
  /\ backoff = 0 /\ retryAfter = 0
  /\ halted => haltedFor = ProbeInterval

Begin ==
  /\ pc = "idle" /\ phase # "done" /\ (due \/ phase = "last")
  /\ Expire
  /\ due' = FALSE
  /\ IF GatesOpen THEN pc' = "take" /\ UNCHANGED phase
                  ELSE UNCHANGED pc /\ phase' = IF phase = "last" THEN "done" ELSE phase
  /\ sentFor' = 0
  /\ UNCHANGED <<inflight, maxItems, gateVars, up,
                 enqueued, committed, rejected, abandoned, received>>

(* A batch is sent even if it holds nothing but the heartbeat. *)
TakeKeepBytes ==  \* mutant: the bytes of the batch still count
  /\ pc = "take" /\ pc' = "sending"
  /\ LET n == IF maxItems < Len(buf) THEN maxItems ELSE Len(buf)
     IN inflight' = Oldest(buf, n) /\ buf' = Rest(buf, n)
  /\ UNCHANGED <<bytes, due, phase, sentFor, maxItems, gateVars, up, histVars>>
Take ==
  /\ pc = "take" /\ pc' = "sending"
  /\ LET n == IF maxItems < Len(buf) THEN maxItems ELSE Len(buf)
     IN /\ inflight' = Oldest(buf, n)
        /\ buf' = Rest(buf, n) /\ bytes' = bytes - Bytes(Oldest(buf, n))
  /\ UNCHANGED <<due, phase, sentFor, maxItems, gateVars, up, histVars>>

Answered ==
  /\ pc = "sending" /\ pc' = "idle" /\ inflight' = <<>> /\ sentFor' = 0
  /\ due' = FALSE
  /\ phase' = IF phase = "last" THEN "done" ELSE phase
  /\ UNCHANGED <<up, enqueued, abandoned>>

OnCommitStaySmall == maxItems' = maxItems  \* mutant: a split is never taken back
OnCommit == maxItems' = IF 2 * maxItems < MaxBatchItems THEN 2 * maxItems
                                                         ELSE MaxBatchItems
Commit ==
  /\ Answered /\ OnCommit
  /\ halted' = FALSE /\ haltedFor' = 0 /\ backoff' = 0 /\ retryAfter' = 0
  /\ committed' = committed \cup Ids(inflight)
  /\ received' = received \cup Ids(inflight)
  /\ UNCHANGED <<bufVars, rejected, dropped>>

DropRejected ==
  /\ ~up /\ Answered
  /\ rejected' = rejected \cup Ids(inflight)
  /\ UNCHANGED <<bufVars, maxItems, gateVars, committed, dropped, received>>

(* Every other answer keeps the data. *)
Keep == ~up /\ Answered /\ RequeueFront /\ UNCHANGED <<committed, rejected>>

Halt ==
  /\ Keep
  /\ halted' = TRUE /\ haltedFor' = IF sentFor < ProbeInterval THEN sentFor
                                                               ELSE ProbeInterval
  /\ UNCHANGED <<maxItems, backoff, retryAfter, received>>

Halve == IF maxItems = 1 THEN 1 ELSE maxItems \div 2
SplitDropping ==  \* mutant: the batch too large is not put back
  /\ ~up /\ Answered /\ maxItems' = Halve
  /\ UNCHANGED <<bufVars, gateVars, committed, rejected, dropped, received>>
Split ==
  /\ Keep /\ maxItems' = Halve
  /\ UNCHANGED <<gateVars, received>>

(* What is left of a wait that counts from the moment the clock was read. *)
Left(wait) == IF wait > sentFor THEN wait - sentFor ELSE 0

(* Without a Retry-After there is no wait. *)
RetryAfter ==
  /\ Keep
  /\ retryAfter' = retryAfter \/ \E wait \in Waits : retryAfter' = Left(wait)
  /\ UNCHANGED <<maxItems, halted, haltedFor, backoff, received>>

(* A timeout, a transport error or a 5xx: the backend may have the batch. *)
Backoff ==
  /\ Keep
  /\ \E delay \in Delays : backoff' = Left(delay)
  /\ received' = received \/ received' = received \cup Ids(inflight)
  /\ UNCHANGED <<maxItems, halted, haltedFor, retryAfter>>

Answer == Commit \/ DropRejected \/ Halt \/ Split \/ RetryAfter \/ Backoff

-----------------------------------------------------------------------------
(* The process and time. *)

Stop ==
  /\ MayStop /\ phase = "run" /\ pc = "idle"
  /\ phase' = "last"
  /\ UNCHANGED <<bufVars, pc, due, inflight, sentFor, maxItems, gateVars, up, histVars>>

(* The last publish is cancelled when the grace period ends. *)
Cancel ==
  /\ phase = "last" /\ pc = "sending"
  /\ pc' = "idle" /\ phase' = "done" /\ inflight' = <<>>
  /\ abandoned' = abandoned \cup Ids(inflight)
  /\ received' = received \/ received' = received \cup Ids(inflight)
  /\ UNCHANGED <<bufVars, due, sentFor, maxItems, gateVars, up,
                 enqueued, committed, rejected, dropped>>

Recover ==
  /\ ~up /\ up' = TRUE
  /\ UNCHANGED <<bufVars, pc, due, phase, inflight, sentFor, maxItems, gateVars,
                 histVars>>

Older(s) == [n \in DOMAIN s |->
               [s[n] EXCEPT !.age = IF @ <= MaxAge THEN @ + 1 ELSE @]]
Tick ==
  /\ pc = "sending" => sentFor < MaxSend
  /\ sentFor' = IF pc = "idle" THEN sentFor ELSE sentFor + 1
  /\ pc # "take" /\ due' = (pc = "idle")
  /\ buf' = Older(buf) /\ inflight' = Older(inflight)
  /\ haltedFor' = IF halted /\ haltedFor < ProbeInterval THEN haltedFor + 1
                                                         ELSE haltedFor
  /\ backoff' = IF backoff > 0 THEN backoff - 1 ELSE 0
  /\ retryAfter' = IF retryAfter > 0 THEN retryAfter - 1 ELSE 0
  /\ UNCHANGED <<bytes, pc, phase, maxItems, halted, up, histVars>>

Publish == Begin \/ Take \/ Answer
Next == Enqueue \/ Publish \/ Stop \/ Cancel \/ Recover \/ Tick

(* The loop keeps running, a request ends, and time passes. *)
Fairness == WF_vars(Publish) /\ WF_vars(Tick)

Spec == Init /\ [][Next]_vars
FairSpec == Spec /\ Fairness

-----------------------------------------------------------------------------
(* Properties. *)

Pending == Ids(inflight) \cup Ids(buf)
Settled == committed \cup rejected \cup dropped \cup abandoned

(* Every item is in the buffer, on its way, or has had exactly one end: no
   answer, eviction or requeue loses or doubles one (FR-PUB-004, FR-PUB-006). *)
Conserved ==
  /\ Pending \cup Settled = 1 .. enqueued
  /\ Pending \cap Settled = {}
  /\ committed \cap (rejected \cup dropped \cup abandoned) = {}
  /\ rejected \cap (dropped \cup abandoned) = {} /\ dropped \cap abandoned = {}

(* The bytes counted are those of the buffer, and exceed the limit only for a
   single item. *)
BytesAgree ==
  /\ bytes = Bytes(buf)
  /\ bytes <= MaxBytes \/ Len(buf) <= 1

(* The backend gets items in the order they were enqueued, whatever is retried
   and split: nothing pending is overtaken by an item it has not followed. *)
NotOvertaken == \A j \in Pending : \A k \in received : j < k => j \in received

(* Every item has an end, however large it is and whatever is answered. *)
EventuallySettled ==
  \A i \in 1 .. MaxItems : i <= enqueued ~> (i \in Settled \/ phase # "run")

(* Once the backend accepts everything again, publishing returns to normal. *)
Recovers ==
  up ~> (~halted /\ backoff = 0 /\ retryAfter = 0 /\ maxItems = MaxBatchItems)
          \/ phase # "run"

=============================================================================
