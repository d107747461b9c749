---------------------------- MODULE PublisherProofs ----------------------------
(***************************************************************************)
(* Theorems about Publisher, for every value of its constants: no item is  *)
(* lost or settled twice, none overtakes another, and the bytes counted    *)
(* are those of the buffer.                                                *)
(***************************************************************************)
EXTENDS Publisher, TLAPS, SequenceTheorems, FiniteSetTheorems, WellFoundedInduction

(* What the proofs need of an item: its id.  Its age depends on when it was
   stamped, and is not bounded here. *)
Entry == [id : Nat, size : Sizes, age : Nat]

Before(S, T) == \A i \in S, j \in T : i < j
Ordered(s) == \A m, n \in DOMAIN s : m < n => s[m].id < s[n].id

(* What is on its way precedes what is in the buffer, both in the order they
   were enqueued. *)
InLine ==
  /\ buf \in Seq(Entry) /\ inflight \in Seq(Entry)
  /\ Ordered(inflight) /\ Ordered(buf) /\ Before(Ids(inflight), Ids(buf))

(* Items are on their way only while a request is. *)
NothingIdle == pc # "sending" => inflight = <<>>

Numbered == enqueued \in Nat /\ received \subseteq 1 .. enqueued

BatchSize == maxItems \in 1 .. MaxBatchItems

LineInv ==
  InLine /\ NothingIdle /\ Numbered /\ BatchSize /\ Conserved /\ NotOvertaken

-----------------------------------------------------------------------------
(* Sequences of items, and their ids. *)

LEMMA NoIds == Ids(<<>>) = {} /\ Ordered(<<>>) /\ <<>> \in Seq(Entry)
  BY DEF Ids, Ordered

LEMMA ConcatIds ==
  ASSUME NEW s \in Seq(Entry), NEW t \in Seq(Entry)
  PROVE  s \o t \in Seq(Entry) /\ Ids(s \o t) = Ids(s) \cup Ids(t)
  <1>1. s \o t \in Seq(Entry) /\ Len(s \o t) = Len(s) + Len(t)
    OBVIOUS
  <1>2. \A n \in DOMAIN (s \o t) : (s \o t)[n].id \in Ids(s) \cup Ids(t)
    BY DEF Ids
  <1>3. \A n \in DOMAIN s : n \in DOMAIN (s \o t) /\ (s \o t)[n] = s[n]
    OBVIOUS
  <1>4. \A n \in DOMAIN t : n + Len(s) \in DOMAIN (s \o t) /\ (s \o t)[n + Len(s)] = t[n]
    OBVIOUS
  <1>5. Ids(s \o t) \subseteq Ids(s) \cup Ids(t)
    BY <1>2 DEF Ids
  <1>6. \A i \in Ids(s) : i \in Ids(s \o t)
    BY <1>3 DEF Ids
  <1>7. \A i \in Ids(t) : i \in Ids(s \o t)
    BY <1>4 DEF Ids
  <1> QED
    BY <1>1, <1>5, <1>6, <1>7

LEMMA ConcatOrdered ==
  ASSUME NEW s \in Seq(Entry), NEW t \in Seq(Entry),
         Ordered(s), Ordered(t), Before(Ids(s), Ids(t))
  PROVE  Ordered(s \o t)
  <1> SUFFICES ASSUME NEW m \in DOMAIN (s \o t), NEW n \in DOMAIN (s \o t), m < n
               PROVE  (s \o t)[m].id < (s \o t)[n].id
    BY DEF Ordered
  <1>1. CASE n <= Len(s)
    BY <1>1 DEF Ordered
  <1>2. CASE m > Len(s)
    <2>1. m - Len(s) \in DOMAIN t /\ n - Len(s) \in DOMAIN t /\ m - Len(s) < n - Len(s)
      BY <1>2
    <2>2. (s \o t)[m] = t[m - Len(s)] /\ (s \o t)[n] = t[n - Len(s)]
      BY <1>2
    <2> QED
      BY <2>1, <2>2 DEF Ordered
  <1>3. CASE m <= Len(s) /\ n > Len(s)
    <2>1. m \in DOMAIN s /\ n - Len(s) \in DOMAIN t
      BY <1>3
    <2>2. (s \o t)[m] = s[m] /\ (s \o t)[n] = t[n - Len(s)]
      BY <1>3
    <2> QED
      BY <2>1, <2>2 DEF Before, Ids
  <1> QED
    BY <1>1, <1>2, <1>3

(* Cutting a sequence cuts its ids in two, the smaller in front. *)
LEMMA Cut ==
  ASSUME NEW s \in Seq(Entry), Ordered(s), NEW n \in 0 .. Len(s)
  PROVE  /\ Oldest(s, n) \in Seq(Entry) /\ Rest(s, n) \in Seq(Entry)
         /\ Ordered(Oldest(s, n)) /\ Ordered(Rest(s, n))
         /\ Ids(s) = Ids(Oldest(s, n)) \cup Ids(Rest(s, n))
         /\ Before(Ids(Oldest(s, n)), Ids(Rest(s, n)))
  <1> DEFINE front == SubSeq(s, 1, n)
             back == SubSeq(s, n + 1, Len(s))
  <1>0. Len(s) \in Nat /\ n \in Nat /\ n <= Len(s)
    OBVIOUS
  <1>1. /\ front \in Seq(Entry) /\ Len(front) = n
        /\ \A k \in 1 .. n : front[k] = s[k]
    <2>1. \A k \in 1 .. n : s[k] \in Entry
      BY <1>0
    <2>2. /\ front \in Seq(Entry)
          /\ Len(front) = IF 1 <= n THEN n - 1 + 1 ELSE 0
          /\ \A k \in 1 .. n - 1 + 1 : front[k] = s[1 + k - 1]
      BY <1>0, <2>1, SubSeqProperties
    <2> QED
      BY <1>0, <2>2
  <1>2. /\ back \in Seq(Entry) /\ Len(back) = Len(s) - n
        /\ \A k \in 1 .. Len(s) - n : back[k] = s[n + k]
    <2>1. \A k \in n + 1 .. Len(s) : s[k] \in Entry
      BY <1>0
    <2>2. /\ back \in Seq(Entry)
          /\ Len(back) = IF n + 1 <= Len(s) THEN Len(s) - (n + 1) + 1 ELSE 0
          /\ \A k \in 1 .. Len(s) - (n + 1) + 1 : back[k] = s[(n + 1) + k - 1]
      BY <1>0, <2>1, SubSeqProperties
    <2> QED
      BY <1>0, <2>2
  <1> HIDE DEF front, back
  <1>3. DOMAIN s = 1 .. Len(s) /\ DOMAIN front = 1 .. n /\ DOMAIN back = 1 .. Len(s) - n
    BY <1>0, <1>1, <1>2
  <1>4. Ordered(front) /\ Ordered(back)
    <2>1. Ordered(front)
      BY <1>0, <1>1, <1>3 DEF Ordered
    <2>2. ASSUME NEW k \in DOMAIN back, NEW m \in DOMAIN back, k < m
          PROVE  back[k].id < back[m].id
      <3>1. n + k \in DOMAIN s /\ n + m \in DOMAIN s /\ n + k < n + m
        BY <1>0, <1>3, <2>2
      <3> QED
        BY <3>1, <1>2, <1>3 DEF Ordered
    <2> QED
      BY <2>1, <2>2 DEF Ordered
  <1>5. Ids(s) = Ids(front) \cup Ids(back)
    <2>1. \A k \in 1 .. n : k \in DOMAIN s
      BY <1>0, <1>3
    <2>2. \A k \in 1 .. Len(s) - n : n + k \in DOMAIN s
      BY <1>0, <1>3
    <2>3. \A k \in DOMAIN s : k \in 1 .. n \/ (k - n \in 1 .. Len(s) - n /\ n + (k - n) = k)
      BY <1>0, <1>3
    <2>4. \A i \in Ids(front) : i \in Ids(s)
      BY <2>1, <1>1, <1>3 DEF Ids
    <2>5. \A i \in Ids(back) : i \in Ids(s)
      BY <2>2, <1>2, <1>3 DEF Ids
    <2>6. ASSUME NEW k \in DOMAIN s
          PROVE  s[k].id \in Ids(front) \cup Ids(back)
      <3>1. CASE k \in 1 .. n
        BY <3>1, <1>1, <1>3 DEF Ids
      <3>2. CASE k - n \in 1 .. Len(s) - n /\ n + (k - n) = k
        <4>1. back[k - n] = s[k]
          BY <3>2, <1>2
        <4> QED
          BY <3>2, <4>1, <1>3 DEF Ids
      <3> QED
        BY <2>3, <3>1, <3>2
    <2>7. \A i \in Ids(s) : i \in Ids(front) \cup Ids(back)
      BY <2>6 DEF Ids
    <2> QED
      BY <2>4, <2>5, <2>7
  <1>6. Before(Ids(front), Ids(back))
    <2> SUFFICES ASSUME NEW k \in 1 .. n, NEW m \in 1 .. Len(s) - n
                 PROVE  s[k].id < s[n + m].id
      BY <1>1, <1>2, <1>3 DEF Before, Ids
    <2>1. k \in DOMAIN s /\ n + m \in DOMAIN s /\ k < n + m
      BY <1>0, <1>3
    <2> QED
      BY <2>1 DEF Ordered
  <1> QED
    BY <1>1, <1>2, <1>4, <1>5, <1>6 DEF front, back, Oldest, Rest

LEMMA AppendLine ==
  ASSUME NEW s \in Seq(Entry), Ordered(s), NEW e \in Entry, Before(Ids(s), {e.id})
  PROVE  /\ Append(s, e) \in Seq(Entry) /\ Ordered(Append(s, e))
         /\ Ids(Append(s, e)) = Ids(s) \cup {e.id}
  <1> DEFINE t == <<e>>
  <1>1. t \in Seq(Entry) /\ DOMAIN t = {1} /\ t[1] = e
    OBVIOUS
  <1>2. Append(s, e) = s \o t
    OBVIOUS
  <1> HIDE DEF t
  <1>3. Ordered(t) /\ Ids(t) = {e.id}
    BY <1>1 DEF Ordered, Ids
  <1> QED
    BY <1>1, <1>2, <1>3, ConcatIds, ConcatOrdered

-----------------------------------------------------------------------------
(* Eviction and expiry: some of the oldest of s are dropped, the others are
   the buffer. *)

Shrinks(s) ==
  \E lost \in SUBSET Ids(s) :
    /\ buf' \in Seq(Entry) /\ Ordered(buf')
    /\ Ids(s) = lost \cup Ids(buf') /\ Before(lost, Ids(buf'))
    /\ dropped' = dropped \cup lost

LEMMA EvictShrinks ==
  ASSUME NEW s \in Seq(Entry), Ordered(s), NEW total, EvictOverflow(s, total)
  PROVE  Shrinks(s)
  <1>1. PICK n \in 0 .. Len(s) : buf' = Rest(s, n) /\ dropped' = dropped \cup Ids(Oldest(s, n))
    BY DEF EvictOverflow
  <1> QED
    BY <1>1, Cut DEF Shrinks

LEMMA ExpireShrinks == InLine /\ Expire => Shrinks(buf)
  <1> SUFFICES ASSUME InLine, Expire PROVE Shrinks(buf)
    OBVIOUS
  <1>1. PICK n \in 0 .. Len(buf) :
          buf' = Rest(buf, n) /\ dropped' = dropped \cup Ids(Oldest(buf, n))
    BY DEF Expire
  <1>2. buf \in Seq(Entry) /\ Ordered(buf)
    BY DEF InLine
  <1> QED
    BY <1>1, <1>2, Cut DEF Shrinks

LEMMA PendingNat == Numbered /\ Conserved => Pending \subseteq Nat /\ Pending \subseteq 1 .. enqueued
  BY DEF Numbered, Conserved

(* The batch and the buffer have no id in common. *)
LEMMA BatchApart == InLine /\ Numbered /\ Conserved => Ids(inflight) \cap Ids(buf) = {}
  <1>1. \A i \in Nat : ~(i < i)
    OBVIOUS
  <1> QED
    BY <1>1, PendingNat DEF InLine, Before, Pending

(* Dropping the oldest of what is pending settles them, and lets nothing
   overtake what is left. *)
LEMMA Shed ==
  ASSUME NEW s, Shrinks(s), LineInv,
         Ids(s) \cup Ids(inflight') = Pending, Ids(s) \cap Ids(inflight') = {},
         UNCHANGED <<enqueued, committed, rejected, abandoned>>,
         \A j \in Pending : \A k \in received' : j < k => j \in received'
  PROVE  Conserved' /\ NotOvertaken'
  <1>1. PICK lost \in SUBSET Ids(s) :
          /\ Ids(s) = lost \cup Ids(buf') /\ Before(lost, Ids(buf'))
          /\ dropped' = dropped \cup lost
    BY DEF Shrinks
  <1>2. lost \cap Ids(buf') = {}
    <2>1. Ids(s) \subseteq Nat
      BY PendingNat DEF LineInv
    <2>2. \A i \in Nat : ~(i < i)
      OBVIOUS
    <2> QED
      BY <1>1, <2>1, <2>2 DEF Before
  <1>3. Pending' \subseteq Pending /\ Pending = lost \cup Pending' /\ lost \cap Pending' = {}
    BY <1>1, <1>2 DEF Pending
  <1>4. Conserved'
    BY <1>1, <1>3 DEF LineInv, Conserved, Settled
  <1>5. NotOvertaken'
    BY <1>3 DEF NotOvertaken
  <1> QED
    BY <1>4, <1>5

-----------------------------------------------------------------------------
(* Every step. *)

LEMMA InitLine == Init => LineInv
  BY NoIds, PublisherAssumption DEF Init, LineInv, InLine, NothingIdle, Numbered, BatchSize,
               Conserved, NotOvertaken, Pending, Settled, Before

LEMMA EnqueueLine == LineInv /\ Enqueue => LineInv'
  <1> SUFFICES ASSUME LineInv, Enqueue PROVE LineInv'
    OBVIOUS
  <1> USE DEF LineInv
  <1>1. PICK size \in Sizes, age \in 0 .. StampDelay :
          EvictOverflow(Append(buf, [id |-> enqueued + 1, size |-> size, age |-> age]),
                        bytes + size)
    BY DEF Enqueue
  <1> DEFINE e == [id |-> enqueued + 1, size |-> size, age |-> age]
             s == Append(buf, e)
  <1>2. e \in Entry /\ e.id = enqueued + 1
    BY PublisherAssumption DEF Entry, Numbered
  <1>3. Before(Pending, {enqueued + 1})
    BY PendingNat DEF Before, Numbered
  <1>4. Before(Ids(buf), {e.id})
    BY <1>2, <1>3 DEF Before, Pending
  <1> HIDE DEF e
  <1>5. s \in Seq(Entry) /\ Ordered(s) /\ Ids(s) = Ids(buf) \cup {enqueued + 1}
    BY <1>2, <1>4, AppendLine DEF InLine
  <1>6. EvictOverflow(s, bytes + size)
    BY <1>1 DEF e
  <1> HIDE DEF s
  <1>7. Shrinks(s)
    BY <1>5, <1>6, EvictShrinks
  <1>8. PICK lost \in SUBSET Ids(s) :
          /\ buf' \in Seq(Entry) /\ Ordered(buf')
          /\ Ids(s) = lost \cup Ids(buf') /\ Before(lost, Ids(buf'))
          /\ dropped' = dropped \cup lost
    BY <1>7 DEF Shrinks
  <1>9. /\ enqueued' = enqueued + 1
        /\ UNCHANGED <<pc, inflight, maxItems, committed, rejected, abandoned, received>>
    BY DEF Enqueue
  <1>10. InLine'
    BY <1>3, <1>5, <1>8, <1>9 DEF InLine, Before, Pending
  <1>11. NothingIdle' /\ Numbered' /\ BatchSize'
    BY <1>9 DEF NothingIdle, Numbered, BatchSize
  <1>12. enqueued + 1 \notin Pending \cup Settled /\ 1 .. enqueued + 1 = (1 .. enqueued) \cup {enqueued + 1}
    BY DEF Conserved, Numbered
  <1>13. lost \cap Pending' = {}
    <2>1. lost \subseteq Nat
      BY <1>5, PendingNat DEF Pending, Numbered
    <2>2. lost \cap Ids(buf') = {}
      <3>1. \A i \in Nat : ~(i < i)
        OBVIOUS
      <3> QED
        BY <1>8, <2>1, <3>1 DEF Before
    <2>3. lost \cap Ids(inflight) = {}
      <3>1. \A i \in Ids(inflight) : i \in Nat /\ i # enqueued + 1
        BY <1>12, PendingNat DEF Pending
      <3>2. Ids(inflight) \cap Ids(buf) = {}
        BY PendingNat DEF InLine, Before, Pending
      <3> QED
        BY <1>5, <3>1, <3>2
    <2> QED
      BY <2>2, <2>3, <1>9 DEF Pending
  <1>14. Pending \cup {enqueued + 1} = lost \cup Pending'
    BY <1>5, <1>8, <1>9 DEF Pending
  <1>15. Conserved'
    BY <1>8, <1>9, <1>12, <1>13, <1>14 DEF Conserved, Settled
  <1>16. NotOvertaken'
    <2>1. \A k \in received : ~(enqueued + 1 < k)
      BY DEF Numbered
    <2> QED
      BY <1>9, <1>14, <2>1 DEF NotOvertaken
  <1> QED
    BY <1>10, <1>11, <1>15, <1>16

(* Expire and Take move the front of the buffer; nothing is on its way. *)
LEMMA BeginLine == LineInv /\ Begin => LineInv'
  <1> SUFFICES ASSUME LineInv, Begin PROVE LineInv'
    OBVIOUS
  <1> USE DEF LineInv
  <1>1. /\ Expire /\ pc = "idle" /\ inflight' = inflight /\ inflight = <<>>
        /\ UNCHANGED <<maxItems, enqueued, committed, rejected, abandoned, received>>
    BY DEF Begin, NothingIdle
  <1>2. Shrinks(buf)
    BY <1>1, ExpireShrinks
  <1>3. Ids(inflight') = {} /\ Ids(inflight) = {}
    BY <1>1, NoIds
  <1>4. Conserved' /\ NotOvertaken'
    BY <1>1, <1>2, <1>3, Shed DEF Pending, NotOvertaken
  <1>5. InLine'
    BY <1>1, <1>2, <1>3, NoIds DEF InLine, Shrinks, Before
  <1> QED
    BY <1>1, <1>4, <1>5 DEF NothingIdle, Numbered, BatchSize

LEMMA TakeLine == LineInv /\ Take => LineInv'
  <1> SUFFICES ASSUME LineInv, Take PROVE LineInv'
    OBVIOUS
  <1> USE DEF LineInv
  <1>1. PICK n \in 0 .. Len(buf) : inflight' = Oldest(buf, n) /\ buf' = Rest(buf, n)
    <2> DEFINE n == IF maxItems < Len(buf) THEN maxItems ELSE Len(buf)
    <2>1. inflight' = Oldest(buf, n) /\ buf' = Rest(buf, n)
      BY DEF Take
    <2>2. n \in 0 .. Len(buf)
      BY PublisherAssumption DEF InLine, BatchSize
    <2> QED
      BY <2>1, <2>2
  <1>2. inflight = <<>> /\ pc' = "sending" /\ UNCHANGED <<maxItems, histVars>>
    BY DEF Take, NothingIdle
  <1>3. InLine' /\ Ids(buf) = Ids(inflight') \cup Ids(buf')
    BY <1>1, Cut DEF InLine
  <1>4. Pending' = Pending
    BY <1>2, <1>3, NoIds DEF Pending
  <1> QED
    BY <1>2, <1>3, <1>4 DEF NothingIdle, Numbered, BatchSize, Conserved, NotOvertaken,
                            Settled, histVars

(* What the backend has accepted of a batch, it has accepted in order. *)
LEMMA AcceptedInOrder ==
  ASSUME LineInv, received' = received \/ received' = received \cup Ids(inflight)
  PROVE  /\ received' \subseteq 1 .. enqueued
         /\ \A j \in Pending : \A k \in received' : j < k => j \in received'
  <1>1. Ids(inflight) \subseteq 1 .. enqueued
    BY PendingNat DEF LineInv, Pending
  <1>2. CASE received' = received
    BY <1>2 DEF LineInv, Numbered, NotOvertaken
  <1>3. CASE received' = received \cup Ids(inflight)
    <2>1. ASSUME NEW j \in Ids(buf), NEW k \in Ids(inflight) PROVE ~(j < k)
      <3>1. j \in Nat /\ k \in Nat /\ k < j
        BY PendingNat DEF LineInv, Pending, InLine, Before
      <3> QED
        BY <3>1
    <2> QED
      BY <1>1, <1>3, <2>1 DEF LineInv, Numbered, NotOvertaken, Pending
  <1> QED
    BY <1>2, <1>3

(* An answer that settles the batch leaves the buffer alone. *)
LEMMA CommitLine == LineInv /\ Commit => LineInv'
  <1> SUFFICES ASSUME LineInv, Commit PROVE LineInv'
    OBVIOUS
  <1>1. /\ inflight' = <<>> /\ committed' = committed \cup Ids(inflight)
        /\ received' = received \cup Ids(inflight)
        /\ UNCHANGED <<buf, enqueued, rejected, dropped, abandoned>>
    BY DEF Commit, Answered, bufVars
  <1>2. received' \subseteq 1 .. enqueued
        /\ \A j \in Pending : \A k \in received' : j < k => j \in received'
    BY <1>1, AcceptedInOrder
  <1>3. Pending' = Ids(buf) /\ Ids(inflight) \cap Ids(buf) = {}
    BY <1>1, NoIds, BatchApart DEF Pending, LineInv
  <1>4. Conserved' /\ NotOvertaken'
    BY <1>1, <1>2, <1>3 DEF LineInv, Conserved, NotOvertaken, Settled, Pending
  <1>5. BatchSize'
    BY PublisherAssumption DEF LineInv, BatchSize, Commit, OnCommit
  <1>6. InLine' /\ NothingIdle' /\ Numbered'
    BY <1>1, <1>2, NoIds DEF LineInv, InLine, NothingIdle, Numbered, Before
  <1> QED
    BY <1>4, <1>5, <1>6 DEF LineInv

LEMMA DropRejectedLine == LineInv /\ DropRejected => LineInv'
  <1> SUFFICES ASSUME LineInv, DropRejected PROVE LineInv'
    OBVIOUS
  <1>1. /\ inflight' = <<>> /\ rejected' = rejected \cup Ids(inflight)
        /\ UNCHANGED <<buf, maxItems, enqueued, committed, received, dropped, abandoned>>
    BY DEF DropRejected, Answered, bufVars
  <1>2. Pending' = Ids(buf) /\ Ids(inflight) \cap Ids(buf) = {}
    BY <1>1, NoIds, BatchApart DEF Pending, LineInv
  <1>3. Conserved' /\ NotOvertaken'
    BY <1>1, <1>2 DEF LineInv, Conserved, NotOvertaken, Settled, Pending
  <1>4. InLine' /\ NothingIdle' /\ Numbered' /\ BatchSize'
    BY <1>1, NoIds DEF LineInv, InLine, NothingIdle, Numbered, BatchSize, Before
  <1> QED
    BY <1>3, <1>4 DEF LineInv

(* Any other answer puts the batch back in front of the buffer. *)
LEMMA KeepLine ==
  ASSUME LineInv, Keep, BatchSize',
         received' = received \/ received' = received \cup Ids(inflight)
  PROVE  LineInv'
  <1> DEFINE s == inflight \o buf
  <1>1. /\ inflight' = <<>> /\ EvictOverflow(s, bytes + Bytes(inflight))
        /\ UNCHANGED <<enqueued, committed, rejected, abandoned>>
    BY DEF Keep, Answered, RequeueFront
  <1>2. s \in Seq(Entry) /\ Ordered(s) /\ Ids(s) = Pending
    BY ConcatIds, ConcatOrdered DEF LineInv, InLine, Pending
  <1> HIDE DEF s
  <1>3. Shrinks(s)
    BY <1>1, <1>2, EvictShrinks
  <1>4. received' \subseteq 1 .. enqueued
        /\ \A j \in Pending : \A k \in received' : j < k => j \in received'
    BY AcceptedInOrder
  <1>5. Ids(inflight') = {}
    BY <1>1, NoIds
  <1>6. Conserved' /\ NotOvertaken'
    BY <1>1, <1>2, <1>3, <1>4, <1>5, Shed
  <1>7. InLine' /\ NothingIdle' /\ Numbered'
    BY <1>1, <1>3, <1>4, <1>5, NoIds
       DEF LineInv, Shrinks, InLine, NothingIdle, Numbered, Before
  <1> QED
    BY <1>6, <1>7 DEF LineInv

LEMMA AnswerLine == LineInv /\ Answer => LineInv'
  <1> SUFFICES ASSUME LineInv, Answer PROVE LineInv'
    OBVIOUS
  <1>1. CASE Commit
    BY <1>1, CommitLine
  <1>2. CASE DropRejected
    BY <1>2, DropRejectedLine
  <1>3. CASE Halt
    BY <1>3, KeepLine DEF Halt, LineInv, BatchSize
  <1>4. CASE Split
    <2>1. BatchSize'
      BY <1>4, PublisherAssumption DEF Split, Halve, LineInv, BatchSize
    <2> QED
      BY <1>4, <2>1, KeepLine DEF Split
  <1>5. CASE RetryAfter
    BY <1>5, KeepLine DEF RetryAfter, LineInv, BatchSize
  <1>6. CASE Backoff
    BY <1>6, KeepLine DEF Backoff, LineInv, BatchSize
  <1> QED
    BY <1>1, <1>2, <1>3, <1>4, <1>5, <1>6 DEF Answer

LEMMA CancelLine == LineInv /\ Cancel => LineInv'
  <1> SUFFICES ASSUME LineInv, Cancel PROVE LineInv'
    OBVIOUS
  <1>1. /\ inflight' = <<>> /\ abandoned' = abandoned \cup Ids(inflight)
        /\ received' = received \/ received' = received \cup Ids(inflight)
        /\ UNCHANGED <<buf, maxItems, enqueued, committed, rejected, dropped>>
    BY DEF Cancel, bufVars
  <1>2. received' \subseteq 1 .. enqueued
        /\ \A j \in Pending : \A k \in received' : j < k => j \in received'
    BY <1>1, AcceptedInOrder
  <1>3. Pending' = Ids(buf) /\ Ids(inflight) \cap Ids(buf) = {}
    BY <1>1, NoIds, BatchApart DEF Pending, LineInv
  <1>4. Conserved' /\ NotOvertaken'
    BY <1>1, <1>2, <1>3 DEF LineInv, Conserved, NotOvertaken, Settled, Pending
  <1>5. InLine' /\ NothingIdle' /\ Numbered' /\ BatchSize'
    BY <1>1, <1>2, NoIds DEF LineInv, InLine, NothingIdle, Numbered, BatchSize, Before
  <1> QED
    BY <1>4, <1>5 DEF LineInv

(* Items grow older and keep their ids and their places. *)
LEMMA OlderLine ==
  ASSUME NEW s \in Seq(Entry), Ordered(s)
  PROVE  Older(s) \in Seq(Entry) /\ Ordered(Older(s)) /\ Ids(Older(s)) = Ids(s)
  <1>1. Len(s) \in Nat /\ DOMAIN s = 1 .. Len(s)
    OBVIOUS
  <1>2. DOMAIN Older(s) = DOMAIN s
    BY DEF Older
  <1>3. \A n \in DOMAIN s : Older(s)[n] \in Entry /\ Older(s)[n].id = s[n].id
    <2> SUFFICES ASSUME NEW n \in DOMAIN s
                 PROVE  Older(s)[n] \in Entry /\ Older(s)[n].id = s[n].id
      OBVIOUS
    <2>1. s[n] \in Entry
      BY <1>1
    <2> DEFINE x == s[n]
               age == IF x.age <= MaxAge THEN x.age + 1 ELSE x.age
    <2>2. Older(s)[n] = [x EXCEPT !.age = age]
      BY DEF Older
    <2>3. x \in Entry /\ age \in Nat
      BY <2>1, PublisherAssumption DEF Entry
    <2> HIDE DEF x, age
    <2>4. [x EXCEPT !.age = age] \in Entry /\ [x EXCEPT !.age = age].id = x.id
      BY <2>3 DEF Entry
    <2> QED
      BY <2>2, <2>4 DEF x
  <1>4. Older(s) \in Seq(Entry)
    <2>1. Older(s) \in [1 .. Len(s) -> Entry]
      BY <1>1, <1>3 DEF Older
    <2> QED
      BY <1>1, <2>1
  <1> QED
    BY <1>2, <1>3, <1>4 DEF Ordered, Ids

LEMMA TickLine == LineInv /\ Tick => LineInv'
  <1> SUFFICES ASSUME LineInv, Tick PROVE LineInv'
    OBVIOUS
  <1>1. /\ buf' = Older(buf) /\ inflight' = Older(inflight)
        /\ UNCHANGED <<pc, maxItems, histVars>>
    BY DEF Tick
  <1>2. InLine' /\ Ids(buf') = Ids(buf) /\ Ids(inflight') = Ids(inflight)
    BY <1>1, OlderLine DEF LineInv, InLine
  <1>3. NothingIdle'
    <2>1. Older(<<>>) = <<>>
      BY DEF Older
    <2> QED
      BY <1>1, <2>1 DEF LineInv, NothingIdle
  <1> QED
    BY <1>1, <1>2, <1>3 DEF LineInv, Numbered, BatchSize, Conserved, NotOvertaken,
                            Pending, Settled, histVars

(* Stop, Recover and a stuttering step touch nothing of the line. *)
LEMMA FrameLine ==
  LineInv /\ UNCHANGED <<buf, inflight, maxItems, histVars>> /\ (pc' = pc) => LineInv'
  BY DEF LineInv, InLine, NothingIdle, Numbered, BatchSize, Conserved, NotOvertaken,
         Pending, Settled, histVars

LEMMA StepLine == LineInv /\ [Next]_vars => LineInv'
  <1> SUFFICES ASSUME LineInv, [Next]_vars PROVE LineInv'
    OBVIOUS
  <1>1. CASE Enqueue
    BY <1>1, EnqueueLine
  <1>2. CASE Publish
    BY <1>2, BeginLine, TakeLine, AnswerLine DEF Publish
  <1>3. CASE Stop
    BY <1>3, FrameLine DEF Stop, bufVars
  <1>4. CASE Cancel
    BY <1>4, CancelLine
  <1>5. CASE Recover
    BY <1>5, FrameLine DEF Recover, bufVars
  <1>6. CASE Tick
    BY <1>6, TickLine
  <1>7. CASE UNCHANGED vars
    BY <1>7, FrameLine DEF vars, bufVars
  <1> QED
    BY <1>1, <1>2, <1>3, <1>4, <1>5, <1>6, <1>7 DEF Next

-----------------------------------------------------------------------------
LEMMA LineAlways == Spec => []LineInv
  BY InitLine, StepLine, PTL DEF Spec

(* Whatever is evicted, expired, requeued, split or cancelled, every item
   enqueued has exactly one end or is still on its way: PublishBuffer and
   Publisher.publish_once lose none and settle none twice. *)
THEOREM NoneLostOrDoubled == Spec => []Conserved
  <1>1. LineInv => Conserved
    BY DEF LineInv
  <1> QED
    BY <1>1, LineAlways, PTL

(* The batch a failed request puts back goes in front of what was enqueued
   meanwhile: the backend never accepts an item before an earlier one that is
   still to be sent. *)
THEOREM OrderKept == Spec => []NotOvertaken
  <1>1. LineInv => NotOvertaken
    BY DEF LineInv
  <1> QED
    BY <1>1, LineAlways, PTL
-----------------------------------------------------------------------------
(* Induction: a set of naturals that holds 0 and the successor of each of its
   members holds them all. *)

LEMMA NatSet ==
  ASSUME NEW S, 0 \in S, \A n \in Nat : n \in S => n + 1 \in S
  PROVE  Nat \subseteq S
  <1> DEFINE Bad == {n \in Nat : n \notin S}
             T == {0 .. n : n \in Bad}
             R == StrictSubsetOrdering(Nat)
             F == FiniteSubsetsOf(Nat)
  <1>1. SUFFICES ASSUME Bad # {} PROVE FALSE
    OBVIOUS
  <1>2. IsWellFoundedOn(R, F)
    BY FS_StrictSubsetOrderingWellFounded
  <1>3. T \subseteq F
    <2>1. \A n \in Nat : 0 .. n \in SUBSET Nat /\ IsFiniteSet(0 .. n)
      BY FS_Interval
    <2> QED BY <2>1 DEF FiniteSubsetsOf
  <1>4. T # {}
    BY <1>1
  <1>5. \E x \in T : \A y \in T : ~(<<y, x>> \in R)
    <2> HIDE DEF T, R, F
    <2> QED BY <1>2, <1>3, <1>4, WFMin
  <1>6. PICK m \in Bad : \A n \in Bad : ~(<<0 .. n, 0 .. m>> \in R)
    BY <1>5
  <1>7. m \in Nat /\ m # 0
    OBVIOUS
  <1>8. m - 1 \in Nat /\ (m - 1) + 1 = m
    BY <1>7
  <1>9. <<0 .. (m - 1), 0 .. m>> \in R
    <2>1. 0 .. (m - 1) \subseteq 0 .. m
      BY <1>7
    <2>2. m \in 0 .. m /\ m \notin 0 .. (m - 1)
      BY <1>7
    <2>3. 0 .. (m - 1) \in SUBSET Nat /\ 0 .. m \in SUBSET Nat
      BY <1>7
    <2> QED BY <2>1, <2>2, <2>3 DEF StrictSubsetOrdering
  <1>10. m - 1 \in S
    BY <1>6, <1>8, <1>9
  <1> QED
    BY <1>10, <1>8

-----------------------------------------------------------------------------
(* The bytes of a sequence of items, added up from the front. *)

Total(s) ==
  CHOOSE total : total = [n \in 0 .. Len(s) |-> IF n = 0 THEN 0 ELSE total[n - 1] + s[n].size]
Adds(s, total) ==
  /\ total[0] = 0
  /\ \A n \in 1 .. Len(s) : total[n] = total[n - 1] + s[n].size

LEMMA BytesIsTotal == \A s : Bytes(s) = Total(s)[Len(s)]
  BY DEF Bytes, Total

LEMMA TotalAdds ==
  ASSUME NEW s \in Seq(Entry)
  PROVE  Adds(s, Total(s))
  <1> DEFINE F(n, total) == IF n = 0 THEN 0 ELSE total[n - 1] + s[n].size
             Made(n) == \E total : total = [k \in 0 .. n |-> F(k, total)]
             T == {n \in Nat : Made(n)}
  <1>1. 0 \in T
    <2> DEFINE total == [k \in 0 .. 0 |-> 0]
    <2>1. total = [k \in 0 .. 0 |-> F(k, total)]
      OBVIOUS
    <2> QED
      BY <2>1
  <1>2. ASSUME NEW n \in Nat, n \in T PROVE n + 1 \in T
    <2>1. PICK total : total = [k \in 0 .. n |-> F(k, total)]
      BY <1>2
    <2> DEFINE more == [k \in 0 .. n + 1 |-> IF k = n + 1 THEN total[n] + s[n + 1].size ELSE total[k]]
    <2>2. \A k \in 0 .. n : more[k] = total[k] /\ total[k] = F(k, total)
      BY <2>1
    <2>3. \A k \in 0 .. n + 1 : more[k] = F(k, more)
      <3> SUFFICES ASSUME NEW k \in 0 .. n + 1 PROVE more[k] = F(k, more)
        OBVIOUS
      <3>1. CASE k = n + 1
        <4>1. more[k] = total[n] + s[n + 1].size /\ k # 0 /\ k - 1 = n /\ n \in 0 .. n
          BY <3>1
        <4> QED
          BY <2>2, <3>1, <4>1
      <3>2. CASE k = 0
        <4>1. k \in 0 .. n
          BY <3>2
        <4> QED
          BY <2>2, <3>2, <4>1
      <3>3. CASE k # 0 /\ k # n + 1
        <4>1. k \in 0 .. n /\ k - 1 \in 0 .. n
          BY <3>3
        <4> QED
          BY <2>2, <3>3, <4>1
      <3> QED
        BY <3>1, <3>2, <3>3
    <2>4. more = [k \in 0 .. n + 1 |-> F(k, more)]
      <3>1. more = [k \in 0 .. n + 1 |-> more[k]]
        OBVIOUS
      <3> HIDE DEF more
      <3> QED
        BY <2>3, <3>1
    <2> HIDE DEF more
    <2>5. Made(n + 1)
      BY <2>4
    <2> HIDE DEF Made
    <2> QED
      BY <2>5
  <1>3. Len(s) \in T
    <2> HIDE DEF T
    <2>1. Nat \subseteq T
      BY <1>1, <1>2, NatSet
    <2> QED
      BY <2>1
  <1>4. Total(s) = [k \in 0 .. Len(s) |-> F(k, Total(s))]
    BY <1>3 DEF Total
  <1> HIDE DEF T
  <1>5. \A k \in 0 .. Len(s) : Total(s)[k] = F(k, Total(s))
    BY <1>4
  <1>6. Len(s) \in Nat
    OBVIOUS
  <1> QED
    BY <1>5, <1>6 DEF Adds

LEMMA TotalNat ==
  ASSUME NEW s \in Seq(Entry)
  PROVE  \A n \in 0 .. Len(s) : Total(s)[n] \in Nat
  <1> DEFINE T == {n \in Nat : n <= Len(s) => Total(s)[n] \in Nat}
  <1>1. Len(s) \in Nat /\ Adds(s, Total(s))
    BY TotalAdds
  <1>2. 0 \in T
    BY <1>1 DEF Adds
  <1>3. ASSUME NEW n \in Nat, n \in T PROVE n + 1 \in T
    <2>1. CASE n + 1 <= Len(s)
      <3>1. n + 1 \in 1 .. Len(s) /\ n + 1 - 1 = n /\ n <= Len(s)
        BY <1>1, <2>1
      <3>2. s[n + 1].size \in Nat
        <4>1. s[n + 1] \in Entry
          BY <3>1
        <4> QED
          BY <4>1, PublisherAssumption DEF Entry
      <3>3. Total(s)[n + 1] = Total(s)[n] + s[n + 1].size
        BY <1>1, <3>1 DEF Adds
      <3> QED
        BY <1>3, <3>1, <3>2, <3>3
    <2> QED
      BY <1>1, <2>1
  <1>4. Nat \subseteq T
    <2> HIDE DEF T
    <2> QED
      BY <1>2, <1>3, NatSet
  <1> QED
    BY <1>1, <1>4

(* The bytes of a sequence in another one. *)
LEMMA TotalWithin ==
  ASSUME NEW s \in Seq(Entry), NEW t \in Seq(Entry), NEW d \in Nat, d + Len(t) <= Len(s),
         \A n \in 1 .. Len(t) : s[d + n].size = t[n].size
  PROVE  Total(s)[d + Len(t)] = Total(s)[d] + Bytes(t)
  <1> DEFINE T == {n \in Nat : n <= Len(t) => Total(s)[d + n] = Total(s)[d] + Total(t)[n]}
  <1>1. /\ Len(s) \in Nat /\ Adds(s, Total(s)) /\ Len(t) \in Nat /\ Adds(t, Total(t))
        /\ \A n \in 0 .. Len(s) : Total(s)[n] \in Nat
        /\ \A n \in 0 .. Len(t) : Total(t)[n] \in Nat
    BY TotalAdds, TotalNat
  <1>2. 0 \in T
    BY <1>1 DEF Adds
  <1>3. ASSUME NEW n \in Nat, n \in T PROVE n + 1 \in T
    <2>1. CASE n + 1 <= Len(t)
      <3>1. /\ n + 1 \in 1 .. Len(t) /\ n + 1 - 1 = n /\ n <= Len(t) /\ n \in 0 .. Len(t)
            /\ d + n + 1 \in 1 .. Len(s) /\ d + n + 1 - 1 = d + n /\ d \in 0 .. Len(s)
            /\ d + (n + 1) = d + n + 1
        BY <1>1, <2>1
      <3>2. t[n + 1].size \in Nat
        <4>1. t[n + 1] \in Entry
          BY <3>1
        <4> QED
          BY <4>1, PublisherAssumption DEF Entry
      <3>3. Total(t)[n + 1] = Total(t)[n] + t[n + 1].size
        BY <1>1, <3>1 DEF Adds
      <3>4. Total(s)[d + n + 1] = Total(s)[d + n] + s[d + n + 1].size
        BY <1>1, <3>1 DEF Adds
      <3>5. s[d + n + 1].size = t[n + 1].size
        BY <3>1
      <3>6. Total(s)[d + n] = Total(s)[d] + Total(t)[n]
        BY <1>3, <3>1
      <3>7. Total(s)[d] \in Nat /\ Total(t)[n] \in Nat
        BY <1>1, <3>1
      <3>8. Total(s)[d + n + 1] = Total(s)[d] + Total(t)[n + 1]
        BY <3>2, <3>3, <3>4, <3>5, <3>6, <3>7
      <3> QED
        BY <3>1, <3>8
    <2> QED
      BY <1>1, <2>1
  <1>4. Nat \subseteq T
    <2> HIDE DEF T
    <2> QED
      BY <1>2, <1>3, NatSet
  <1>5. Len(t) \in T
    BY <1>1, <1>4
  <1> QED
    BY <1>1, <1>5, BytesIsTotal

LEMMA BytesNat ==
  ASSUME NEW s \in Seq(Entry)
  PROVE  Bytes(s) \in Nat /\ Total(s)[0] = 0
  BY TotalNat, TotalAdds, BytesIsTotal DEF Adds

LEMMA NoBytes == Bytes(<<>>) = 0
  BY NoIds, TotalAdds, BytesIsTotal DEF Adds

LEMMA ConcatBytes ==
  ASSUME NEW s \in Seq(Entry), NEW t \in Seq(Entry)
  PROVE  Bytes(s \o t) = Bytes(s) + Bytes(t)
  <1> DEFINE u == s \o t
  <1>1. /\ u \in Seq(Entry) /\ Len(u) = Len(s) + Len(t) /\ Len(s) \in Nat /\ Len(t) \in Nat
        /\ \A n \in 1 .. Len(s) : u[0 + n] = s[n]
        /\ \A n \in 1 .. Len(t) : u[Len(s) + n] = t[n]
    OBVIOUS
  <1> HIDE DEF u
  <1>2. Total(u)[Len(s) + Len(t)] = Total(u)[Len(s)] + Bytes(t)
    BY <1>1, TotalWithin
  <1>3. Total(u)[0 + Len(s)] = Total(u)[0] + Bytes(s) /\ 0 + Len(s) = Len(s)
    BY <1>1, TotalWithin
  <1>4. Total(u)[0] = 0 /\ Bytes(s) \in Nat
    BY <1>1, BytesNat
  <1>5. Bytes(u) = Total(u)[Len(s) + Len(t)]
    BY <1>1, BytesIsTotal
  <1> QED
    BY <1>2, <1>3, <1>4, <1>5 DEF u

LEMMA AppendBytes ==
  ASSUME NEW s \in Seq(Entry), NEW x \in Entry
  PROVE  Append(s, x) \in Seq(Entry) /\ Bytes(Append(s, x)) = Bytes(s) + x.size
  <1>1. <<x>> \in Seq(Entry) /\ Len(<<x>>) = 1 /\ <<x>>[1] = x /\ 1 \in 1 .. 1 /\ 1 - 1 = 0
    OBVIOUS
  <1>2. Bytes(<<x>>) = x.size
    <2>1. Adds(<<x>>, Total(<<x>>)) /\ Bytes(<<x>>) = Total(<<x>>)[1]
      BY <1>1, TotalAdds, BytesIsTotal
    <2>2. Total(<<x>>)[1] = 0 + x.size
      BY <1>1, <2>1 DEF Adds
    <2>3. x.size \in Nat
      BY PublisherAssumption DEF Entry
    <2> QED
      BY <2>1, <2>2, <2>3
  <1>3. Append(s, x) = s \o <<x>> /\ Append(s, x) \in Seq(Entry)
    OBVIOUS
  <1>4. Bytes(s \o <<x>>) = Bytes(s) + Bytes(<<x>>)
    BY <1>1, ConcatBytes
  <1> QED
    BY <1>2, <1>3, <1>4

(* A sequence cut in two. *)
LEMMA CutBytes ==
  ASSUME NEW s \in Seq(Entry), NEW n \in 0 .. Len(s)
  PROVE  /\ Rest(s, n) \in Seq(Entry) /\ Len(Rest(s, n)) = Len(s) - n
         /\ Bytes(Oldest(s, n)) \in Nat /\ Bytes(Rest(s, n)) \in Nat
         /\ Bytes(s) = Bytes(Oldest(s, n)) + Bytes(Rest(s, n))
  <1> DEFINE a == SubSeq(s, 1, n)
             b == SubSeq(s, n + 1, Len(s))
  <1>1. Len(s) \in Nat /\ n \in Nat /\ n <= Len(s)
    OBVIOUS
  <1>2. /\ a \in Seq(Entry) /\ Len(a) = n
        /\ \A k \in 1 .. n : a[k] = s[k]
    <2>1. \A k \in 1 .. n : s[k] \in Entry
      BY <1>1
    <2>2. /\ a \in Seq(Entry)
          /\ Len(a) = IF 1 <= n THEN n - 1 + 1 ELSE 0
          /\ \A k \in 1 .. n - 1 + 1 : a[k] = s[1 + k - 1]
      BY <1>1, <2>1, SubSeqProperties
    <2> QED
      BY <1>1, <2>2
  <1>3. /\ b \in Seq(Entry) /\ Len(b) = Len(s) - n
        /\ \A k \in 1 .. Len(s) - n : b[k] = s[n + k]
    <2>1. \A k \in n + 1 .. Len(s) : s[k] \in Entry
      BY <1>1
    <2>2. /\ b \in Seq(Entry)
          /\ Len(b) = IF n + 1 <= Len(s) THEN Len(s) - (n + 1) + 1 ELSE 0
          /\ \A k \in 1 .. Len(s) - (n + 1) + 1 : b[k] = s[(n + 1) + k - 1]
      BY <1>1, <2>1, SubSeqProperties
    <2> QED
      BY <1>1, <2>2
  <1> HIDE DEF a, b
  <1>4. a \o b = s
    <2>1. Len(a \o b) = Len(s) /\ a \o b \in Seq(Entry)
      BY <1>1, <1>2, <1>3
    <2>2. ASSUME NEW k \in 1 .. Len(s) PROVE (a \o b)[k] = s[k]
      <3>1. CASE k <= n
        BY <1>1, <1>2, <1>3, <3>1
      <3>2. CASE k > n
        <4>1. k - n \in 1 .. Len(s) - n /\ n + (k - n) = k
          BY <1>1, <3>2
        <4>2. (a \o b)[k] = b[k - n]
          BY <1>1, <1>2, <1>3, <3>2
        <4> QED
          BY <1>3, <4>1, <4>2
      <3>3. k <= n \/ k > n
        BY <1>1
      <3> QED
        BY <3>1, <3>2, <3>3
    <2>3. \A k \in 1 .. Len(s) : (a \o b)[k] = s[k]
      BY <1>1, <2>2
    <2> DEFINE c == a \o b
    <2> HIDE DEF c
    <2>4. c \in Seq(Entry) /\ Len(c) = Len(s) /\ \A k \in 1 .. Len(s) : c[k] = s[k]
      BY <2>1, <2>3 DEF c
    <2>5. c = s
      BY <2>4
    <2> QED
      BY <2>5 DEF c
  <1>5. Bytes(a \o b) = Bytes(a) + Bytes(b) /\ Bytes(a) \in Nat /\ Bytes(b) \in Nat
    BY <1>2, <1>3, ConcatBytes, BytesNat
  <1> QED
    BY <1>3, <1>4, <1>5 DEF a, b, Oldest, Rest

LEMMA OlderBytes ==
  ASSUME NEW s \in Seq(Entry), Ordered(s)
  PROVE  Bytes(Older(s)) = Bytes(s) /\ Len(Older(s)) = Len(s)
  <1> DEFINE t == Older(s)
  <1>1. t \in Seq(Entry) /\ Len(s) \in Nat
    BY OlderLine
  <1>2. Len(t) = Len(s)
    BY DEF Older
  <1>3. \A n \in 1 .. Len(s) : t[0 + n].size = s[n].size
    BY DEF Older, Entry
  <1> HIDE DEF t
  <1>4. Total(t)[0 + Len(s)] = Total(t)[0] + Bytes(s) /\ 0 + Len(s) = Len(s)
    BY <1>1, <1>2, <1>3, TotalWithin
  <1>5. Total(t)[0] = 0 /\ Bytes(s) \in Nat
    BY <1>1, BytesNat
  <1> QED
    BY <1>2, <1>4, <1>5, BytesIsTotal DEF t

-----------------------------------------------------------------------------
(* Every step keeps the count of bytes. *)

(* What is left is within the limit, or a single item. *)
LEMMA EvictBytes ==
  ASSUME NEW s \in Seq(Entry), EvictOverflow(s, Bytes(s))
  PROVE  BytesAgree'
  <1>1. PICK n \in 0 .. Len(s) : /\ Fits(s, Bytes(s), n) /\ buf' = Rest(s, n)
                                 /\ bytes' = Bytes(s) - Bytes(Oldest(s, n))
    BY DEF EvictOverflow
  <1>2. /\ Len(Rest(s, n)) = Len(s) - n /\ Bytes(Oldest(s, n)) \in Nat /\ Bytes(Rest(s, n)) \in Nat
        /\ Bytes(s) = Bytes(Oldest(s, n)) + Bytes(Rest(s, n))
    BY CutBytes
  <1>3. bytes' = Bytes(buf') /\ Len(buf') = Len(s) - n
    BY <1>1, <1>2
  <1>4. bytes' <= MaxBytes \/ n + 1 >= Len(s)
    BY <1>1 DEF Fits
  <1>5. n + 1 >= Len(s) => Len(buf') <= 1
    BY <1>3
  <1> QED
    BY <1>3, <1>4, <1>5 DEF BytesAgree

LEMMA ShortenBytes ==
  ASSUME InLine, BytesAgree, NEW n \in 0 .. Len(buf),
         buf' = Rest(buf, n), bytes' = bytes - Bytes(Oldest(buf, n))
  PROVE  BytesAgree'
  <1>1. buf \in Seq(Entry) /\ Len(buf) \in Nat
    BY DEF InLine
  <1>2. /\ Len(Rest(buf, n)) = Len(buf) - n
        /\ Bytes(Oldest(buf, n)) \in Nat /\ Bytes(Rest(buf, n)) \in Nat
        /\ Bytes(buf) = Bytes(Oldest(buf, n)) + Bytes(Rest(buf, n))
    BY <1>1, CutBytes
  <1>3. bytes' = Bytes(buf') /\ bytes' <= bytes /\ bytes \in Nat /\ bytes' \in Nat /\ Len(buf') <= Len(buf)
    BY <1>1, <1>2 DEF BytesAgree
  <1>4. Len(buf') \in Nat
    BY <1>1, <1>2
  <1> QED
    BY <1>1, <1>3, <1>4, PublisherAssumption DEF BytesAgree

LEMMA StepBytes ==
  ASSUME LineInv, BytesAgree, [Next]_vars
  PROVE  BytesAgree'
  <1>0. /\ InLine /\ buf \in Seq(Entry) /\ inflight \in Seq(Entry) /\ bytes = Bytes(buf)
        /\ enqueued \in Nat /\ maxItems \in Nat
    BY PublisherAssumption DEF LineInv, InLine, BytesAgree, Numbered, BatchSize
  <1>1. CASE Enqueue
    <2>1. PICK size \in Sizes, age \in 0 .. StampDelay :
            EvictOverflow(Append(buf, [id |-> enqueued + 1, size |-> size, age |-> age]), bytes + size)
      BY <1>1 DEF Enqueue
    <2> DEFINE x == [id |-> enqueued + 1, size |-> size, age |-> age]
    <2>2. x \in Entry /\ x.size = size
      BY <1>0, PublisherAssumption DEF Entry
    <2> HIDE DEF x
    <2>3. Append(buf, x) \in Seq(Entry) /\ Bytes(Append(buf, x)) = bytes + size
      BY <1>0, <2>2, AppendBytes
    <2> QED
      BY <2>1, <2>3, EvictBytes DEF x
  <1>2. CASE Begin
    <2>1. PICK n \in 0 .. Len(buf) : buf' = Rest(buf, n) /\ bytes' = bytes - Bytes(Oldest(buf, n))
      BY <1>2 DEF Begin, Expire
    <2> QED
      BY <1>0, <2>1, ShortenBytes
  <1>3. CASE Take
    <2>1. PICK n : /\ n = IF maxItems < Len(buf) THEN maxItems ELSE Len(buf)
                   /\ buf' = Rest(buf, n) /\ bytes' = bytes - Bytes(Oldest(buf, n))
      BY <1>3 DEF Take
    <2>2. n \in 0 .. Len(buf)
      BY <1>0, <2>1
    <2> QED
      BY <1>0, <2>1, <2>2, ShortenBytes
  <1>4. CASE Keep
    <2>1. EvictOverflow(inflight \o buf, bytes + Bytes(inflight))
      BY <1>4 DEF Keep, RequeueFront
    <2>2. /\ inflight \o buf \in Seq(Entry) /\ Bytes(inflight \o buf) = Bytes(inflight) + Bytes(buf)
          /\ Bytes(inflight) \in Nat /\ Bytes(buf) \in Nat
      BY <1>0, ConcatBytes, BytesNat
    <2>3. bytes + Bytes(inflight) = Bytes(inflight \o buf)
      BY <1>0, <2>2
    <2> QED
      BY <2>1, <2>2, <2>3, EvictBytes
  <1>5. CASE Tick
    <2>1. buf' = Older(buf) /\ bytes' = bytes
      BY <1>5 DEF Tick
    <2>2. Bytes(Older(buf)) = Bytes(buf) /\ Len(Older(buf)) = Len(buf)
      BY <1>0, OlderBytes DEF InLine
    <2> QED
      BY <2>1, <2>2 DEF BytesAgree
  <1>6. CASE UNCHANGED bufVars
    BY <1>6 DEF bufVars, BytesAgree
  <1> QED
    BY <1>1, <1>2, <1>3, <1>4, <1>5, <1>6
       DEF Next, Publish, Answer, Commit, DropRejected, Halt, Split, RetryAfter, Backoff,
           Stop, Cancel, Recover, vars

(* PublishBuffer._total_bytes is the sum of the sizes of what it holds after
   every append, eviction, expiry, take and requeue, and above the limit only
   for a single item. *)
THEOREM BytesCounted == Spec => []BytesAgree
  <1>1. Init => BytesAgree
    BY NoBytes, PublisherAssumption DEF Init, BytesAgree
  <1>2. LineInv /\ BytesAgree /\ [Next]_vars => BytesAgree'
    BY StepBytes
  <1> QED
    BY <1>1, <1>2, LineAlways, PTL DEF Spec
=============================================================================
