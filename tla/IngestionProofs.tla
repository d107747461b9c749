---------------------------- MODULE IngestionProofs ----------------------------
(***************************************************************************)
(* Theorems about Ingestion and the metric store it feeds, for every set   *)
(* of batches, every size of the queue, of the guard and of the rings:     *)
(* what the guard lets through again and how often; that what is accepted  *)
(* is processed once and in order; that the admission leaves the store     *)
(* nothing to drop; and what every bucket and every answer holds.          *)
(***************************************************************************)
EXTENDS Ingestion, TLAPS, SequenceTheorems, FiniteSetTheorems, WellFoundedInduction

(* What the guard remembers, and what it let through. *)
Remembered == [id : {Batches[b].id : b \in DOMAIN Batches}, at : Nat]
Accepteds == [batch : DOMAIN Batches, at : Nat]
GuardTypes ==
  /\ ingestClock \in Nat /\ accepted \in Seq(Accepteds)
  /\ seenIds \in [SendingAgents -> Seq(Remembered)]
  /\ times \in [SendingAgents -> Seq(Nat)]

(* How many batches of the same agent were accepted after one. *)
Later(i) == {x \in (i + 1) .. Len(accepted) : AgentOf(x) = AgentOf(i)}
Followers(i) == Cardinality(Later(i))

Old(i, age) == ingestClock - accepted[i].at >= age

(* An id accepted is remembered, with no more newer ones behind it than were
   accepted since, until it is too old or one of too many. *)
IdRemembered(i) ==
  \E k \in DOMAIN seenIds[AgentOf(i)] :
    /\ seenIds[AgentOf(i)][k] = [id |-> IdOf(i), at |-> accepted[i].at]
    /\ Len(seenIds[AgentOf(i)]) - k <= Followers(i)
IdKept(i) == Old(i, DedupeTtl) \/ Followers(i) >= DedupeSize \/ IdRemembered(i)

(* The time of an acceptance is remembered with all the later ones. *)
TimeRemembered(i) ==
  \E k \in DOMAIN times[AgentOf(i)] :
    /\ times[AgentOf(i)][k] = accepted[i].at
    /\ Len(times[AgentOf(i)]) - k >= Followers(i)
TimeKept(i) == Old(i, RateWindow) \/ TimeRemembered(i)

GuardKept == \A i \in DOMAIN accepted : IdKept(i) /\ TimeKept(i)
GuardInv == GuardTypes /\ GuardKept

-----------------------------------------------------------------------------
(* A sequence without its front. *)

LEMMA LeastOf ==
  ASSUME NEW B, B \subseteq Nat, B # {}
  PROVE  \E m \in B : \A n \in B : m <= n
  <1> DEFINE T == {0 .. n : n \in B}
             R == StrictSubsetOrdering(Nat)
             F == FiniteSubsetsOf(Nat)
  <1>1. IsWellFoundedOn(R, F)
    BY FS_StrictSubsetOrderingWellFounded
  <1>2. T \subseteq F
    <2>1. \A n \in Nat : 0 .. n \in SUBSET Nat /\ IsFiniteSet(0 .. n)
      BY FS_Interval
    <2> QED
      BY <2>1 DEF FiniteSubsetsOf
  <1>3. T # {}
    OBVIOUS
  <1>4. \E x \in T : \A y \in T : ~(<<y, x>> \in R)
    <2> HIDE DEF T, R, F
    <2> QED
      BY <1>1, <1>2, <1>3, WFMin
  <1>5. PICK m \in B : \A n \in B : ~(<<0 .. n, 0 .. m>> \in R)
    BY <1>4
  <1>6. ASSUME NEW n \in B, ~(m <= n) PROVE FALSE
    <2>1. m \in Nat /\ n \in Nat /\ n < m
      BY <1>6
    <2>2. 0 .. n \subseteq 0 .. m /\ m \in 0 .. m /\ m \notin 0 .. n
      BY <2>1
    <2>3. 0 .. n \in SUBSET Nat /\ 0 .. m \in SUBSET Nat
      BY <2>1
    <2>4. <<0 .. n, 0 .. m>> \in R
      BY <2>2, <2>3 DEF StrictSubsetOrdering
    <2> QED
      BY <1>5, <2>4
  <1> QED
    BY <1>6

(* What is to stay does, with everything behind it. *)
LEMMA FromKeeps ==
  ASSUME NEW S, NEW s \in Seq(S), NEW staying \in SUBSET (DOMAIN s)
  PROVE  /\ From(s, staying) \in Seq(S)
         /\ \A k \in staying : \E m \in DOMAIN From(s, staying) :
              From(s, staying)[m] = s[k] /\ Len(From(s, staying)) - m = Len(s) - k
  <1>1. CASE staying = {}
    BY <1>1 DEF From
  <1>2. CASE staying # {}
    <2>1. DOMAIN s = 1 .. Len(s) /\ Len(s) \in Nat /\ staying \subseteq Nat
      OBVIOUS
    <2>2. \E l \in staying : \A k \in staying : l <= k
      BY <1>2, <2>1, LeastOf
    <2>3. Min(staying) \in staying /\ \A k \in staying : Min(staying) <= k
      BY <2>2 DEF Min
    <2>4. PICK l \in staying : l = Min(staying)
      BY <2>3
    <2> DEFINE t == SubSeq(s, l, Len(s))
    <2>5. l \in 1 .. Len(s) /\ \A k \in l .. Len(s) : s[k] \in S
      BY <2>1
    <2>6. /\ t \in Seq(S) /\ Len(t) = Len(s) - l + 1
          /\ \A k \in 1 .. Len(s) - l + 1 : t[k] = s[l + k - 1]
      BY <2>1, <2>5, SubSeqProperties
    <2>7. From(s, staying) = t
      BY <1>2, <2>4 DEF From
    <2> HIDE DEF t
    <2>8. ASSUME NEW k \in staying
          PROVE  \E m \in DOMAIN t : t[m] = s[k] /\ Len(t) - m = Len(s) - k
      <3>1. k \in 1 .. Len(s) /\ l <= k
        BY <2>1, <2>3, <2>4
      <3>2. /\ k - l + 1 \in 1 .. Len(s) - l + 1 /\ l + (k - l + 1) - 1 = k
            /\ Len(t) - (k - l + 1) = Len(s) - k
        BY <2>1, <2>5, <2>6, <3>1
      <3>3. DOMAIN t = 1 .. Len(s) - l + 1
        BY <2>6
      <3>4. t[k - l + 1] = s[k]
        BY <2>6, <3>2
      <3> QED
        BY <3>2, <3>3, <3>4
    <2> QED
      BY <2>6, <2>7, <2>8
  <1> QED
    BY <1>1, <1>2

LEMMA UnexpiredKeeps ==
  ASSUME NEW s \in Seq(Remembered)
  PROVE  /\ Unexpired(s) \in Seq(Remembered)
         /\ \A k \in DOMAIN s : ~(ingestClock - s[k].at >= DedupeTtl) =>
              \E m \in DOMAIN Unexpired(s) :
                Unexpired(s)[m] = s[k] /\ Len(Unexpired(s)) - m = Len(s) - k
  <1> DEFINE staying == {i \in DOMAIN s : ~ExpiredId(s[i])}
  <1>1. Unexpired(s) = From(s, staying) /\ staying \in SUBSET (DOMAIN s)
    BY DEF Unexpired
  <1>2. \A k \in DOMAIN s : ~(ingestClock - s[k].at >= DedupeTtl) => k \in staying
    BY DEF ExpiredId
  <1> HIDE DEF staying
  <1> QED
    BY <1>1, <1>2, FromKeeps

LEMMA RecentKeeps ==
  ASSUME NEW s \in Seq(Nat), ingestClock \in Nat
  PROVE  /\ Recent(s) \in Seq(Nat)
         /\ \A k \in DOMAIN s : ~(ingestClock - s[k] >= RateWindow) =>
              \E m \in DOMAIN Recent(s) :
                Recent(s)[m] = s[k] /\ Len(Recent(s)) - m = Len(s) - k
  <1> DEFINE staying == {i \in DOMAIN s : ingestClock - s[i] < RateWindow}
  <1>1. Recent(s) = From(s, staying) /\ staying \in SUBSET (DOMAIN s)
    BY DEF Recent
  <1>2. \A k \in DOMAIN s : ~(ingestClock - s[k] >= RateWindow) => k \in staying
    BY IngestionAssumption
  <1> HIDE DEF staying
  <1> QED
    BY <1>1, <1>2, FromKeeps

-----------------------------------------------------------------------------
(* The batches accepted after one. *)

LEMMA LaterFinite ==
  ASSUME GuardTypes, NEW i \in DOMAIN accepted
  PROVE  /\ IsFiniteSet(Later(i)) /\ Followers(i) \in Nat
         /\ AgentOf(i) \in SendingAgents /\ accepted[i] \in Accepteds
         /\ IdOf(i) \in {Batches[b].id : b \in DOMAIN Batches} /\ accepted[i].at \in Nat
  <1>1. accepted[i] \in Accepteds /\ i \in Nat /\ Len(accepted) \in Nat
    BY DEF GuardTypes
  <1>2. accepted[i].batch \in DOMAIN Batches /\ accepted[i].at \in Nat
    BY <1>1 DEF Accepteds
  <1>3. IsFiniteSet((i + 1) .. Len(accepted))
    BY <1>1, FS_Interval
  <1>4. IsFiniteSet(Later(i))
    <2>1. Later(i) \subseteq (i + 1) .. Len(accepted)
      BY DEF Later
    <2> QED
      BY <1>3, <2>1, FS_Subset
  <1> QED
    BY <1>1, <1>2, <1>4, FS_CardinalityType DEF Followers, AgentOf, IdOf, SendingAgents

(* One more is accepted. *)
LEMMA OneMore ==
  ASSUME GuardTypes, NEW name \in DOMAIN Batches, NEW n, n = Len(accepted),
         accepted' = Append(accepted, [batch |-> name, at |-> ingestClock])
  PROVE  /\ accepted' \in Seq(Accepteds) /\ Len(accepted') = n + 1
         /\ DOMAIN accepted' = DOMAIN accepted \cup {n + 1}
         /\ accepted'[n + 1] = [batch |-> name, at |-> ingestClock]
         /\ \A i \in DOMAIN accepted : accepted'[i] = accepted[i]
         /\ \A i \in DOMAIN accepted :
              /\ AgentOf(i) = Batches[name].agent =>
                   Later(i)' = Later(i) \cup {n + 1} /\ Followers(i)' = Followers(i) + 1
              /\ AgentOf(i) # Batches[name].agent =>
                   Later(i)' = Later(i) /\ Followers(i)' = Followers(i)
         /\ Later(n + 1)' = {} /\ Followers(n + 1)' = 0
  <1>0. PICK x : x = [batch |-> name, at |-> ingestClock]
    OBVIOUS
  <1>1. x \in Accepteds /\ n \in Nat /\ accepted \in Seq(Accepteds) /\ accepted' = Append(accepted, x)
    BY <1>0 DEF GuardTypes, Accepteds
  <1>2. /\ accepted' \in Seq(Accepteds) /\ Len(accepted') = n + 1 /\ DOMAIN accepted = 1 .. n
        /\ DOMAIN accepted' = 1 .. n + 1 /\ accepted'[n + 1] = x
        /\ \A i \in 1 .. n : accepted'[i] = accepted[i]
    BY <1>0, <1>1
  <1>3. 1 .. n + 1 = 1 .. n \cup {n + 1} /\ n + 1 \notin 1 .. n
    BY <1>1
  <1>4. /\ \A i \in 1 .. n : AgentOf(i)' = AgentOf(i)
        /\ AgentOf(n + 1)' = Batches[name].agent
    BY <1>0, <1>2 DEF AgentOf
  <1>5. ASSUME NEW i \in 1 .. n
        PROVE  /\ AgentOf(i) = Batches[name].agent => Later(i)' = Later(i) \cup {n + 1}
               /\ AgentOf(i) # Batches[name].agent => Later(i)' = Later(i)
    <2>1. Later(i)' = {y \in (i + 1) .. (n + 1) : AgentOf(y)' = AgentOf(i)}
      BY <1>2, <1>4 DEF Later
    <2>2. /\ (i + 1) .. (n + 1) = ((i + 1) .. n) \cup {n + 1}
          /\ (i + 1) .. n \subseteq 1 .. n /\ n + 1 \notin (i + 1) .. n
      BY <1>1
    <2>3. Later(i) = {y \in (i + 1) .. n : AgentOf(y)' = AgentOf(i)}
      BY <1>0, <1>4, <2>2 DEF Later
    <2> QED
      BY <1>4, <2>1, <2>2, <2>3
  <1>6. ASSUME NEW i \in 1 .. n
        PROVE  /\ AgentOf(i) = Batches[name].agent => Followers(i)' = Followers(i) + 1
               /\ AgentOf(i) # Batches[name].agent => Followers(i)' = Followers(i)
    <2>1. n + 1 \notin Later(i)
      BY <1>1 DEF Later
    <2>2. i \in DOMAIN accepted
      BY <1>2
    <2>3. IsFiniteSet(Later(i))
      BY <2>2, LaterFinite
    <2>4. Cardinality(Later(i) \cup {n + 1}) = Cardinality(Later(i)) + 1
      BY <2>1, <2>3, FS_AddElement
    <2> QED
      BY <1>5, <2>4 DEF Followers
  <1>7. Later(n + 1)' = {}
    <2>1. (n + 1 + 1) .. (n + 1) = {}
      BY <1>1
    <2> QED
      BY <1>2, <2>1 DEF Later
  <1>8. Followers(n + 1)' = 0
    BY <1>7, FS_EmptySet DEF Followers
  <1> QED
    BY <1>0, <1>2, <1>3, <1>5, <1>6, <1>7, <1>8

-----------------------------------------------------------------------------
(* Every step keeps what the guard knows. *)

(* What was remembered before a step is remembered after it, if the sequence
   keeps it where it was from the end. *)
LEMMA CheckKeeps ==
  ASSUME GuardInv, NEW a \in SendingAgents, NEW ids, NEW moments,
         ids = Unexpired(seenIds[a]), moments \in {times[a], Recent(times[a])},
         seenIds' = [seenIds EXCEPT ![a] = ids], times' = [times EXCEPT ![a] = moments],
         UNCHANGED <<ingestClock, accepted>>
  PROVE  GuardInv'
  <1>1. GuardTypes /\ seenIds[a] \in Seq(Remembered) /\ times[a] \in Seq(Nat) /\ ingestClock \in Nat
    BY DEF GuardInv, GuardTypes
  <1>2. /\ ids \in Seq(Remembered)
        /\ \A k \in DOMAIN seenIds[a] : ~(ingestClock - seenIds[a][k].at >= DedupeTtl) =>
             \E m \in DOMAIN ids : ids[m] = seenIds[a][k] /\ Len(ids) - m = Len(seenIds[a]) - k
    BY <1>1, UnexpiredKeeps
  <1>3. /\ moments \in Seq(Nat)
        /\ \A k \in DOMAIN times[a] : ~(ingestClock - times[a][k] >= RateWindow) =>
             \E m \in DOMAIN moments : moments[m] = times[a][k] /\ Len(moments) - m = Len(times[a]) - k
    BY <1>1, RecentKeeps
  <1>4. /\ seenIds'[a] = ids /\ times'[a] = moments
        /\ \A o \in SendingAgents \ {a} : seenIds'[o] = seenIds[o] /\ times'[o] = times[o]
    BY <1>1 DEF GuardTypes
  <1>5. GuardTypes'
    BY <1>1, <1>2, <1>3 DEF GuardTypes
  <1>6. ASSUME NEW i \in DOMAIN accepted
        PROVE  /\ AgentOf(i)' = AgentOf(i) /\ IdOf(i)' = IdOf(i) /\ Followers(i)' = Followers(i)
               /\ \A age : Old(i, age)' <=> Old(i, age)
               /\ AgentOf(i) \in SendingAgents /\ accepted'[i] = accepted[i]
    BY <1>1, LaterFinite DEF AgentOf, IdOf, Followers, Later, Old
  <1>7. ASSUME NEW i \in DOMAIN accepted PROVE IdKept(i)'
    <2>1. CASE Old(i, DedupeTtl) \/ Followers(i) >= DedupeSize
      BY <1>6, <2>1 DEF IdKept
    <2>2. CASE ~Old(i, DedupeTtl) /\ IdRemembered(i)
      <3>1. CASE AgentOf(i) = a
        <4>1. PICK k \in DOMAIN seenIds[a] :
                /\ seenIds[a][k] = [id |-> IdOf(i), at |-> accepted[i].at]
                /\ Len(seenIds[a]) - k <= Followers(i)
          BY <2>2, <3>1 DEF IdRemembered
        <4>2. ~(ingestClock - seenIds[a][k].at >= DedupeTtl)
          BY <2>2, <4>1 DEF Old
        <4>3. PICK m \in DOMAIN ids :
                ids[m] = seenIds[a][k] /\ Len(ids) - m = Len(seenIds[a]) - k
          BY <1>2, <4>2
        <4> QED
          BY <1>4, <1>6, <3>1, <4>1, <4>3 DEF IdKept, IdRemembered
      <3>2. CASE AgentOf(i) # a
        BY <1>4, <1>6, <2>2, <3>2 DEF IdKept, IdRemembered
      <3> QED
        BY <3>1, <3>2
    <2> QED
      BY <2>1, <2>2 DEF GuardInv, GuardKept, IdKept
  <1>8. ASSUME NEW i \in DOMAIN accepted PROVE TimeKept(i)'
    <2>1. CASE Old(i, RateWindow)
      BY <1>6, <2>1 DEF TimeKept
    <2>2. CASE ~Old(i, RateWindow) /\ TimeRemembered(i)
      <3>1. CASE AgentOf(i) = a
        <4>1. PICK k \in DOMAIN times[a] :
                times[a][k] = accepted[i].at /\ Len(times[a]) - k >= Followers(i)
          BY <2>2, <3>1 DEF TimeRemembered
        <4>2. ~(ingestClock - times[a][k] >= RateWindow)
          BY <2>2, <4>1 DEF Old
        <4>3. PICK m \in DOMAIN moments :
                moments[m] = times[a][k] /\ Len(moments) - m = Len(times[a]) - k
          BY <1>3, <4>2
        <4> QED
          BY <1>4, <1>6, <3>1, <4>1, <4>3 DEF TimeKept, TimeRemembered
      <3>2. CASE AgentOf(i) # a
        BY <1>4, <1>6, <2>2, <3>2 DEF TimeKept, TimeRemembered
      <3> QED
        BY <3>1, <3>2
    <2> QED
      BY <2>1, <2>2 DEF GuardInv, GuardKept, TimeKept
  <1> QED
    BY <1>5, <1>7, <1>8 DEF GuardInv, GuardKept

(* What is appended to a sequence and what it pushes out. *)
LEMMA AppendKeeps ==
  ASSUME NEW S, NEW s \in Seq(S), NEW x \in S
  PROVE  /\ Append(s, x) \in Seq(S) /\ Len(Append(s, x)) = Len(s) + 1
         /\ \A k \in DOMAIN s : k \in DOMAIN Append(s, x) /\ Append(s, x)[k] = s[k]
         /\ Len(s) + 1 \in DOMAIN Append(s, x) /\ Append(s, x)[Len(s) + 1] = x
  OBVIOUS

LEMMA NewestKeeps ==
  ASSUME NEW S, NEW s \in Seq(S)
  PROVE  /\ NewestIds(s) \in Seq(S)
         /\ \A k \in DOMAIN s : k > 1 \/ Len(s) <= DedupeSize =>
              \E m \in DOMAIN NewestIds(s) :
                NewestIds(s)[m] = s[k] /\ Len(NewestIds(s)) - m = Len(s) - k
  <1>1. Len(s) \in Nat /\ DOMAIN s = 1 .. Len(s) /\ DedupeSize \in Nat \ {0}
    BY IngestionAssumption
  <1>2. CASE Len(s) > DedupeSize
    <2>1. s # <<>> /\ NewestIds(s) = Tail(s)
      BY <1>1, <1>2 DEF NewestIds
    <2>2. /\ Tail(s) \in Seq(S) /\ Len(Tail(s)) = Len(s) - 1
          /\ \A m \in 1 .. Len(Tail(s)) : Tail(s)[m] = s[m + 1]
      BY <2>1, HeadTailProperties
    <2>3. ASSUME NEW k \in DOMAIN s, k > 1
          PROVE  \E m \in DOMAIN Tail(s) : Tail(s)[m] = s[k] /\ Len(Tail(s)) - m = Len(s) - k
      <3>1. k - 1 \in 1 .. Len(Tail(s)) /\ k - 1 + 1 = k /\ Len(Tail(s)) - (k - 1) = Len(s) - k
        BY <1>1, <2>2, <2>3
      <3>2. DOMAIN Tail(s) = 1 .. Len(Tail(s))
        BY <2>2
      <3>3. Tail(s)[k - 1] = s[k]
        BY <2>2, <3>1
      <3> QED
        BY <3>1, <3>2, <3>3
    <2> QED
      BY <1>1, <1>2, <2>1, <2>2, <2>3
  <1>3. CASE ~(Len(s) > DedupeSize)
    BY <1>3 DEF NewestIds
  <1> QED
    BY <1>2, <1>3

(* What is still remembered when a batch is checked. *)
LEMMA StillRemembered ==
  ASSUME GuardInv, NEW i \in DOMAIN accepted
  PROVE  LET ids == Unexpired(seenIds[AgentOf(i)])
             moments == Recent(times[AgentOf(i)])
         IN /\ ~Old(i, DedupeTtl) /\ ~(Followers(i) >= DedupeSize) =>
                 \E m \in DOMAIN ids : /\ ids[m] = [id |-> IdOf(i), at |-> accepted[i].at]
                                       /\ Len(ids) - m <= Followers(i)
            /\ ~Old(i, RateWindow) =>
                 \E m \in DOMAIN moments : /\ moments[m] = accepted[i].at
                                           /\ Len(moments) - m >= Followers(i)
  <1>1. /\ GuardTypes /\ AgentOf(i) \in SendingAgents
        /\ seenIds[AgentOf(i)] \in Seq(Remembered) /\ times[AgentOf(i)] \in Seq(Nat)
        /\ ingestClock \in Nat
    BY LaterFinite DEF GuardInv, GuardTypes
  <1> DEFINE a == AgentOf(i)
             ids == Unexpired(seenIds[a])
             moments == Recent(times[a])
  <1>2. ASSUME ~Old(i, DedupeTtl), ~(Followers(i) >= DedupeSize)
        PROVE  \E m \in DOMAIN ids : /\ ids[m] = [id |-> IdOf(i), at |-> accepted[i].at]
                                     /\ Len(ids) - m <= Followers(i)
    <2>1. PICK k \in DOMAIN seenIds[a] : /\ seenIds[a][k] = [id |-> IdOf(i), at |-> accepted[i].at]
                                         /\ Len(seenIds[a]) - k <= Followers(i)
      BY <1>2 DEF GuardInv, GuardKept, IdKept, IdRemembered
    <2>2. ~(ingestClock - seenIds[a][k].at >= DedupeTtl)
      BY <1>2, <2>1 DEF Old
    <2>3. PICK m \in DOMAIN ids : ids[m] = seenIds[a][k] /\ Len(ids) - m = Len(seenIds[a]) - k
      BY <1>1, <2>2, UnexpiredKeeps
    <2> QED
      BY <2>1, <2>3
  <1>3. ASSUME ~Old(i, RateWindow)
        PROVE  \E m \in DOMAIN moments : /\ moments[m] = accepted[i].at
                                         /\ Len(moments) - m >= Followers(i)
    <2>1. PICK k \in DOMAIN times[a] : times[a][k] = accepted[i].at /\ Len(times[a]) - k >= Followers(i)
      BY <1>3 DEF GuardInv, GuardKept, TimeKept, TimeRemembered
    <2>2. ~(ingestClock - times[a][k] >= RateWindow)
      BY <1>3, <2>1 DEF Old
    <2>3. PICK m \in DOMAIN moments : moments[m] = times[a][k] /\ Len(moments) - m = Len(times[a]) - k
      BY <1>1, <2>2, RecentKeeps
    <2> QED
      BY <2>1, <2>3
  <1> QED
    BY <1>2, <1>3

LEMMA AcceptKeeps ==
  ASSUME GuardInv, NEW name \in DOMAIN Batches, Accept(name)
  PROVE  GuardInv'
  <1> DEFINE b == Batches[name]
  <1>0. PICK a, ids, moments, x, n :
          /\ a = b.agent /\ ids = Unexpired(seenIds[a]) /\ moments = Recent(times[a])
          /\ x = [id |-> b.id, at |-> ingestClock] /\ n = Len(accepted)
    OBVIOUS
  <1>1. /\ seenIds' = [seenIds EXCEPT ![a] = NewestIds(Append(ids, x))]
        /\ times' = [times EXCEPT ![a] = Append(moments, ingestClock)]
        /\ accepted' = Append(accepted, [batch |-> name, at |-> ingestClock])
        /\ UNCHANGED ingestClock
    BY <1>0 DEF Accept, Commit, Send
  <1>2. /\ GuardTypes /\ a \in SendingAgents /\ ingestClock \in Nat /\ n \in Nat
        /\ seenIds[a] \in Seq(Remembered) /\ times[a] \in Seq(Nat) /\ x \in Remembered
        /\ DOMAIN accepted = 1 .. n
    BY <1>0 DEF GuardInv, GuardTypes, SendingAgents, Remembered
  <1>3. ids \in Seq(Remembered) /\ moments \in Seq(Nat)
    BY <1>0, <1>2, UnexpiredKeeps, RecentKeeps
  <1> DEFINE more == Append(ids, x)
             lately == Append(moments, ingestClock)
  <1>4. /\ more \in Seq(Remembered) /\ Len(more) = Len(ids) + 1 /\ Len(ids) \in Nat
        /\ \A k \in DOMAIN ids : k \in DOMAIN more /\ more[k] = ids[k]
        /\ Len(ids) + 1 \in DOMAIN more /\ more[Len(ids) + 1] = x
    BY <1>2, <1>3, AppendKeeps
  <1>5. /\ lately \in Seq(Nat) /\ Len(lately) = Len(moments) + 1 /\ Len(moments) \in Nat
        /\ \A k \in DOMAIN moments : k \in DOMAIN lately /\ lately[k] = moments[k]
        /\ Len(moments) + 1 \in DOMAIN lately /\ lately[Len(moments) + 1] = ingestClock
    BY <1>2, <1>3, AppendKeeps
  <1> HIDE DEF more, lately
  <1>6. /\ NewestIds(more) \in Seq(Remembered)
        /\ \A k \in DOMAIN more : k > 1 \/ Len(more) <= DedupeSize =>
             \E m \in DOMAIN NewestIds(more) :
               NewestIds(more)[m] = more[k] /\ Len(NewestIds(more)) - m = Len(more) - k
    BY <1>4, NewestKeeps
  <1>7. /\ seenIds'[a] = NewestIds(more) /\ times'[a] = lately
        /\ \A o \in SendingAgents \ {a} : seenIds'[o] = seenIds[o] /\ times'[o] = times[o]
    BY <1>1, <1>2 DEF GuardTypes, more, lately
  <1>8. /\ accepted' \in Seq(Accepteds) /\ DOMAIN accepted' = DOMAIN accepted \cup {n + 1}
        /\ accepted'[n + 1] = [batch |-> name, at |-> ingestClock]
        /\ \A i \in DOMAIN accepted : accepted'[i] = accepted[i]
        /\ \A i \in DOMAIN accepted :
             /\ AgentOf(i) = a => Followers(i)' = Followers(i) + 1
             /\ AgentOf(i) # a => Followers(i)' = Followers(i)
        /\ Followers(n + 1)' = 0
    BY <1>0, <1>1, <1>2, OneMore
  <1>9. GuardTypes'
    BY <1>1, <1>2, <1>5, <1>6, <1>8 DEF GuardTypes, more, lately
  <1>10. ASSUME NEW i \in DOMAIN accepted
         PROVE  /\ AgentOf(i)' = AgentOf(i) /\ IdOf(i)' = IdOf(i)
                /\ \A age : Old(i, age)' <=> Old(i, age)
                /\ AgentOf(i) \in SendingAgents /\ accepted'[i] = accepted[i]
                /\ Followers(i) \in Nat
    BY <1>1, <1>2, <1>8, LaterFinite DEF AgentOf, IdOf, Old
  <1>11. ASSUME NEW i \in DOMAIN accepted PROVE IdKept(i)'
    <2>1. CASE Old(i, DedupeTtl)
      BY <1>10, <2>1 DEF IdKept
    <2>2. CASE Followers(i) >= DedupeSize
      <3>1. Followers(i)' >= DedupeSize
        BY <1>8, <1>10, <2>2, IngestionAssumption
      <3> QED
        BY <3>1 DEF IdKept
    <2>3. CASE ~Old(i, DedupeTtl) /\ ~(Followers(i) >= DedupeSize) /\ AgentOf(i) = a
      <3>1. PICK m \in DOMAIN ids : /\ ids[m] = [id |-> IdOf(i), at |-> accepted[i].at]
                                    /\ Len(ids) - m <= Followers(i)
        BY <1>0, <2>3, StillRemembered
      <3>2. /\ more[m] = [id |-> IdOf(i), at |-> accepted[i].at] /\ m \in DOMAIN more
            /\ Followers(i)' = Followers(i) + 1
        BY <1>4, <1>8, <2>3, <3>1
      <3>3. m \in 1 .. Len(ids)
        BY <1>3
      <3>4. CASE m > 1 \/ Len(more) <= DedupeSize
        <4>1. PICK k \in DOMAIN NewestIds(more) :
                NewestIds(more)[k] = more[m] /\ Len(NewestIds(more)) - k = Len(more) - m
          BY <1>6, <3>2, <3>4
        <4>2. Len(NewestIds(more)) - k <= Followers(i)'
          BY <1>4, <1>10, <3>1, <3>2, <3>3, <4>1
        <4> QED
          BY <1>7, <1>10, <2>3, <3>2, <4>1, <4>2 DEF IdKept, IdRemembered
      <3>5. CASE ~(m > 1 \/ Len(more) <= DedupeSize)
        <4>1. Followers(i)' >= DedupeSize
          BY <1>4, <1>10, <3>1, <3>2, <3>3, <3>5, IngestionAssumption
        <4> QED
          BY <4>1 DEF IdKept
      <3> QED
        BY <3>4, <3>5
    <2>4. CASE ~Old(i, DedupeTtl) /\ ~(Followers(i) >= DedupeSize) /\ AgentOf(i) # a
      <3>1. IdRemembered(i)
        BY <2>4 DEF GuardInv, GuardKept, IdKept
      <3> QED
        BY <1>7, <1>8, <1>10, <2>4, <3>1 DEF IdKept, IdRemembered
    <2> QED
      BY <2>1, <2>2, <2>3, <2>4
  <1>12. ASSUME NEW i \in DOMAIN accepted PROVE TimeKept(i)'
    <2>1. CASE Old(i, RateWindow)
      BY <1>10, <2>1 DEF TimeKept
    <2>2. CASE ~Old(i, RateWindow) /\ AgentOf(i) = a
      <3>1. PICK m \in DOMAIN moments : moments[m] = accepted[i].at /\ Len(moments) - m >= Followers(i)
        BY <1>0, <2>2, StillRemembered
      <3>2. /\ lately[m] = accepted[i].at /\ m \in DOMAIN lately
            /\ Followers(i)' = Followers(i) + 1
        BY <1>5, <1>8, <2>2, <3>1
      <3>3. m \in 1 .. Len(moments)
        BY <1>3
      <3>4. Len(lately) - m >= Followers(i)'
        BY <1>5, <1>10, <3>1, <3>2, <3>3
      <3> QED
        BY <1>7, <1>10, <2>2, <3>2, <3>4 DEF TimeKept, TimeRemembered
    <2>3. CASE ~Old(i, RateWindow) /\ AgentOf(i) # a
      <3>1. TimeRemembered(i)
        BY <2>3 DEF GuardInv, GuardKept, TimeKept
      <3> QED
        BY <1>7, <1>8, <1>10, <2>3, <3>1 DEF TimeKept, TimeRemembered
    <2> QED
      BY <2>1, <2>2, <2>3
  <1>13. /\ AgentOf(n + 1)' = a /\ IdOf(n + 1)' = b.id /\ accepted'[n + 1].at = ingestClock
    BY <1>0, <1>8 DEF AgentOf, IdOf
  <1>14. IdKept(n + 1)'
    <2>1. CASE Len(ids) + 1 > 1 \/ Len(more) <= DedupeSize
      <3>1. PICK k \in DOMAIN NewestIds(more) :
              NewestIds(more)[k] = x /\ Len(NewestIds(more)) - k = Len(more) - (Len(ids) + 1)
        BY <1>4, <1>6, <2>1
      <3>2. Len(NewestIds(more)) - k <= Followers(n + 1)'
        BY <1>4, <1>8, <3>1
      <3> QED
        BY <1>0, <1>7, <1>13, <3>1, <3>2 DEF IdKept, IdRemembered
    <2>2. Len(ids) + 1 > 1 \/ Len(more) <= DedupeSize
      BY <1>4, IngestionAssumption
    <2> QED
      BY <2>1, <2>2
  <1>15. TimeKept(n + 1)'
    <2>1. Len(lately) - (Len(moments) + 1) >= Followers(n + 1)'
      BY <1>5, <1>8
    <2> QED
      BY <1>5, <1>7, <1>13, <2>1 DEF TimeKept, TimeRemembered
  <1> QED
    BY <1>8, <1>9, <1>11, <1>12, <1>14, <1>15 DEF GuardInv, GuardKept

(* A step that neither accepts nor checks. *)
LEMMA SameGuard ==
  ASSUME UNCHANGED <<seenIds, times, accepted>>, NEW i
  PROVE  /\ IdRemembered(i)' <=> IdRemembered(i)
         /\ TimeRemembered(i)' <=> TimeRemembered(i)
         /\ Followers(i)' = Followers(i)
  <1>1. AgentOf(i)' = AgentOf(i) /\ IdOf(i)' = IdOf(i) /\ accepted'[i].at = accepted[i].at
    BY DEF AgentOf, IdOf
  <1>2. Later(i)' = Later(i)
    BY DEF Later, AgentOf
  <1>3. Followers(i)' = Followers(i)
    BY <1>2 DEF Followers
  <1>4. IdRemembered(i)' <=> IdRemembered(i)
    BY <1>1, <1>3 DEF IdRemembered
  <1>5. TimeRemembered(i)' <=> TimeRemembered(i)
    BY <1>1, <1>3 DEF TimeRemembered
  <1> QED
    BY <1>3, <1>4, <1>5

LEMMA AgesKeep ==
  ASSUME GuardInv, UNCHANGED <<seenIds, times, accepted>>,
         ingestClock' \in Nat, ingestClock <= ingestClock'
  PROVE  GuardInv'
  <1>1. GuardTypes /\ ingestClock \in Nat
    BY DEF GuardInv, GuardTypes
  <1>2. GuardTypes'
    BY <1>1 DEF GuardTypes
  <1>3. ASSUME NEW i \in DOMAIN accepted, NEW age \in Nat, Old(i, age)
        PROVE  Old(i, age)'
    <2>1. accepted[i].at \in Nat /\ accepted'[i].at = accepted[i].at
      BY <1>1, LaterFinite
    <2> QED
      BY <1>1, <1>3, <2>1 DEF Old
  <1>4. ASSUME NEW i \in DOMAIN accepted PROVE IdKept(i)' /\ TimeKept(i)'
    <2>1. IdKept(i) /\ TimeKept(i)
      BY DEF GuardInv, GuardKept
    <2>2. IdKept(i)'
      BY <1>3, <2>1, SameGuard, IngestionAssumption DEF IdKept
    <2>3. TimeKept(i)'
      BY <1>3, <2>1, SameGuard, IngestionAssumption DEF TimeKept
    <2> QED
      BY <2>2, <2>3
  <1> QED
    BY <1>2, <1>4 DEF GuardInv, GuardKept

LEMMA GuardStart == IngestInit => GuardInv
  BY IngestionAssumption DEF IngestInit, GuardInv, GuardTypes, GuardKept

LEMMA GuardStep ==
  ASSUME GuardInv, [IngestNext]_ingestVars
  PROVE  GuardInv'
  <1>1. ASSUME NEW name \in DOMAIN Batches, Post(name)
        PROVE  GuardInv'
    <2> DEFINE b == Batches[name]
    <2>1. b.agent \in SendingAgents
      BY DEF SendingAgents
    <2>2. CASE CheckOnly(b) /\ UNCHANGED <<ingestClock, accepted>>
      <3>1. PICK a, ids, moments :
              /\ a = b.agent /\ ids = Unexpired(seenIds[a])
              /\ moments = IF Duplicate(b) THEN times[a] ELSE Recent(times[a])
        OBVIOUS
      <3>2. times \in [SendingAgents -> Seq(Nat)]
        BY DEF GuardInv, GuardTypes
      <3>3. times = [times EXCEPT ![a] = times[a]]
        BY <3>2
      <3>4. times' = [times EXCEPT ![a] = moments]
        BY <2>2, <3>1, <3>3 DEF CheckOnly
      <3>5. seenIds' = [seenIds EXCEPT ![a] = ids] /\ moments \in {times[a], Recent(times[a])}
        BY <2>2, <3>1 DEF CheckOnly
      <3> QED
        BY <2>1, <2>2, <3>1, <3>4, <3>5, CheckKeeps
    <2>3. CASE Accept(name)
      BY <2>3, AcceptKeeps
    <2> QED
      BY <1>1, <2>2, <2>3 DEF Post, Repeat, Refuse, Full, Send, Quiet
  <1>2. ASSUME UNCHANGED <<seenIds, times, accepted, ingestClock>>
        PROVE  GuardInv'
    <2>1. ingestClock \in Nat
      BY DEF GuardInv, GuardTypes
    <2> QED
      BY <1>2, <2>1, AgesKeep
  <1>3. CASE IngestTick
    <2>1. ingestClock \in Nat
      BY DEF GuardInv, GuardTypes
    <2> QED
      BY <1>3, <2>1, AgesKeep DEF IngestTick, guardVars
  <1>4. CASE Take \/ ProcessNext \/ Done
    BY <1>2, <1>4 DEF Take, ProcessNext, Done, Requests, guardVars
  <1>5. CASE UNCHANGED ingestVars
    BY <1>2, <1>5 DEF ingestVars, guardVars
  <1> QED
    BY <1>1, <1>3, <1>4, <1>5 DEF IngestNext

-----------------------------------------------------------------------------
(* What is accepted. *)

(* Two acceptances of one agent, one after the other. *)
Sound(i, j) ==
  /\ IdOf(i) = IdOf(j) =>
       \/ accepted[j].at - accepted[i].at >= DedupeTtl
       \/ Cardinality({x \in (i + 1)..(j - 1) : AgentOf(x) = AgentOf(i)}) >= DedupeSize
  /\ Cardinality({x \in i..j : AgentOf(x) = AgentOf(i)}) > RateLimit =>
       accepted[j].at - accepted[i].at >= RateWindow

LEMMA AcceptedSound ==
  ASSUME GuardInv, GuardSound, NEW name \in DOMAIN Batches, Accept(name)
  PROVE  GuardSound'
  <1> DEFINE b == Batches[name]
  <1>0. PICK a, ids, moments, n :
          /\ a = b.agent /\ ids = Unexpired(seenIds[a]) /\ moments = Recent(times[a])
          /\ n = Len(accepted)
    OBVIOUS
  <1>1. /\ accepted' = Append(accepted, [batch |-> name, at |-> ingestClock])
        /\ \A m \in DOMAIN ids : ids[m].id # b.id
        /\ Len(moments) < RateLimit
    <2>1. ~Duplicate(b) /\ ~(Len(Recent(times[b.agent])) >= RateLimit)
      BY DEF Accept, Accepts, Limited
    <2>2. \A m \in DOMAIN ids : ids[m] \in ToSet(ids)
      BY DEF ToSet
    <2>3. moments \in Seq(Nat)
      BY <1>0, RecentKeeps DEF GuardInv, GuardTypes, SendingAgents
    <2> QED
      BY <1>0, <2>1, <2>2, <2>3, IngestionAssumption DEF Duplicate, Accept
  <1>2. /\ GuardTypes /\ n \in Nat /\ DOMAIN accepted = 1 .. n
        /\ moments \in Seq(Nat) /\ Len(moments) \in Nat /\ ingestClock \in Nat
    BY <1>0, RecentKeeps DEF GuardInv, GuardTypes, SendingAgents
  <1>3. /\ DOMAIN accepted' = DOMAIN accepted \cup {n + 1}
        /\ accepted'[n + 1] = [batch |-> name, at |-> ingestClock]
        /\ \A i \in DOMAIN accepted : accepted'[i] = accepted[i]
    BY <1>0, <1>1, <1>2, OneMore
  <1>4. /\ \A i \in DOMAIN accepted : AgentOf(i)' = AgentOf(i) /\ IdOf(i)' = IdOf(i)
        /\ AgentOf(n + 1)' = a /\ IdOf(n + 1)' = b.id /\ accepted'[n + 1].at = ingestClock
    BY <1>0, <1>3 DEF AgentOf, IdOf
  <1>5. ASSUME NEW i \in 1 .. n, NEW j \in 1 .. n, i < j, AgentOf(i) = AgentOf(j)
        PROVE  Sound(i, j)'
    <2>1. Sound(i, j)
      BY <1>2, <1>5 DEF GuardSound, Sound
    <2>2. (i + 1)..(j - 1) \subseteq 1 .. n /\ i..j \subseteq 1 .. n
      BY <1>2
    <2>3. \A S \in SUBSET (1 .. n) : {x \in S : AgentOf(x)' = AgentOf(i)'} = {x \in S : AgentOf(x) = AgentOf(i)}
      BY <1>2, <1>4
    <2>4. /\ {x \in (i + 1)..(j - 1) : AgentOf(x)' = AgentOf(i)'} = {x \in (i + 1)..(j - 1) : AgentOf(x) = AgentOf(i)}
          /\ {x \in i..j : AgentOf(x)' = AgentOf(i)'} = {x \in i..j : AgentOf(x) = AgentOf(i)}
      BY <2>2, <2>3
    <2> QED
      BY <1>2, <1>3, <1>4, <2>1, <2>4 DEF Sound
  <1>6. ASSUME NEW i \in 1 .. n, AgentOf(i) = a
        PROVE  Sound(i, n + 1)'
    <2>1. /\ IsFiniteSet(Later(i)) /\ Followers(i) \in Nat /\ accepted[i].at \in Nat /\ i \in Nat
          /\ i \in DOMAIN accepted
      BY <1>2, LaterFinite
    <2>2. {x \in (i + 1)..((n + 1) - 1) : AgentOf(x)' = AgentOf(i)'} = Later(i)
      <3>1. (i + 1)..((n + 1) - 1) = (i + 1) .. n /\ (i + 1) .. n \subseteq 1 .. n
        BY <1>2, <2>1
      <3> QED
        BY <1>0, <1>2, <1>4, <3>1 DEF Later
    <2>3. {x \in i..(n + 1) : AgentOf(x)' = AgentOf(i)'} = (Later(i) \cup {i}) \cup {n + 1}
      <3>1. i .. (n + 1) = ((i + 1) .. n \cup {i}) \cup {n + 1} /\ (i + 1) .. n \subseteq 1 .. n
        BY <1>2, <2>1
      <3> QED
        BY <1>0, <1>2, <1>4, <1>6, <3>1 DEF Later
    <2>4. Cardinality((Later(i) \cup {i}) \cup {n + 1}) = Followers(i) + 2
      <3>1. i \notin Later(i) /\ n + 1 \notin Later(i) \cup {i}
        BY <1>0, <1>2, <2>1 DEF Later
      <3>2. /\ IsFiniteSet(Later(i) \cup {i})
            /\ Cardinality(Later(i) \cup {i}) = Cardinality(Later(i)) + 1
        BY <2>1, <3>1, FS_AddElement
      <3>3. Cardinality((Later(i) \cup {i}) \cup {n + 1}) = Cardinality(Later(i) \cup {i}) + 1
        BY <3>1, <3>2, FS_AddElement
      <3> QED
        BY <2>1, <3>2, <3>3 DEF Followers
    <2>5. IdOf(i) = b.id => Old(i, DedupeTtl) \/ Followers(i) >= DedupeSize
      <3>1. ASSUME IdOf(i) = b.id, ~Old(i, DedupeTtl), ~(Followers(i) >= DedupeSize) PROVE FALSE
        <4>1. PICK m \in DOMAIN ids : ids[m] = [id |-> IdOf(i), at |-> accepted[i].at]
          BY <1>0, <1>6, <2>1, <3>1, StillRemembered
        <4>2. ids[m].id = b.id
          BY <3>1, <4>1
        <4> QED
          BY <1>1, <4>2
      <3> QED
        BY <3>1
    <2>6. Followers(i) + 2 > RateLimit => Old(i, RateWindow)
      <3>1. ASSUME ~Old(i, RateWindow) PROVE Followers(i) + 2 <= RateLimit
        <4>1. PICK m \in DOMAIN moments : Len(moments) - m >= Followers(i)
          BY <1>0, <1>6, <2>1, <3>1, StillRemembered
        <4>2. m \in 1 .. Len(moments)
          BY <1>2
        <4> QED
          BY <1>1, <1>2, <2>1, <4>1, <4>2, IngestionAssumption
      <3>2. ~(Followers(i) + 2 <= RateLimit) <=> Followers(i) + 2 > RateLimit
        BY <2>1, IngestionAssumption
      <3> QED
        BY <3>1, <3>2
    <2>7. accepted'[n + 1].at - accepted'[i].at = ingestClock - accepted[i].at
      BY <1>3, <1>4, <2>1
    <2>8. Cardinality({x \in (i + 1)..((n + 1) - 1) : AgentOf(x)' = AgentOf(i)'}) = Followers(i)
      BY <2>2 DEF Followers
    <2>9. Cardinality({x \in i..(n + 1) : AgentOf(x)' = AgentOf(i)'}) = Followers(i) + 2
      BY <2>3, <2>4
    <2>10. IdOf(i)' = IdOf(i) /\ IdOf(n + 1)' = b.id
      BY <1>4, <2>1
    <2>11. IdOf(i)' = IdOf(n + 1)' =>
             \/ accepted'[n + 1].at - accepted'[i].at >= DedupeTtl
             \/ Cardinality({x \in (i + 1)..((n + 1) - 1) : AgentOf(x)' = AgentOf(i)'}) >= DedupeSize
      BY <2>5, <2>7, <2>8, <2>10 DEF Old
    <2>12. Cardinality({x \in i..(n + 1) : AgentOf(x)' = AgentOf(i)'}) > RateLimit =>
             accepted'[n + 1].at - accepted'[i].at >= RateWindow
      BY <2>6, <2>7, <2>9 DEF Old
    <2> QED
      BY <2>11, <2>12 DEF Sound
  <1>7. ASSUME NEW i \in DOMAIN accepted', NEW j \in DOMAIN accepted', i < j, AgentOf(i)' = AgentOf(j)'
        PROVE  Sound(i, j)'
    <2>1. CASE j \in 1 .. n
      <3>1. i \in 1 .. n
        BY <1>2, <1>3, <1>7, <2>1
      <3>2. AgentOf(i) = AgentOf(j)
        BY <1>2, <1>4, <1>7, <2>1, <3>1
      <3> QED
        BY <1>5, <1>7, <2>1, <3>1, <3>2
    <2>2. CASE j = n + 1
      <3>1. i \in 1 .. n
        BY <1>2, <1>3, <1>7, <2>2
      <3>2. AgentOf(i) = a
        BY <1>2, <1>4, <1>7, <2>2, <3>1
      <3> QED
        BY <1>6, <2>2, <3>1, <3>2
    <2> QED
      BY <1>2, <1>3, <2>1, <2>2
  <1> QED
    BY <1>7 DEF GuardSound, Sound

LEMMA SoundSame == ASSUME UNCHANGED accepted PROVE GuardSound' <=> GuardSound
  BY DEF GuardSound, AgentOf, IdOf

(* IngestGuard: however batches are sent, refused and sent again, a batch id is
   accepted twice within its time to live only if as many others as the guard
   remembers came between, and no window ever holds more accepted batches of
   an agent than the limit. *)
THEOREM GuardHolds == IngestSpec => []GuardSound
  <1>1. IngestInit => GuardInv /\ GuardSound
    BY GuardStart DEF IngestInit, GuardSound
  <1>2. ASSUME GuardInv, GuardSound, [IngestNext]_ingestVars PROVE GuardInv' /\ GuardSound'
    <2>1. CASE \E name \in DOMAIN Batches : Accept(name)
      BY <1>2, <2>1, GuardStep, AcceptedSound
    <2>2. CASE UNCHANGED accepted
      BY <1>2, <2>2, GuardStep, SoundSame
    <2> QED
      BY <1>2, <2>1, <2>2 DEF IngestNext, Post, Repeat, Refuse, Full, Quiet, Take, ProcessNext,
         Done, Requests, IngestTick, ingestVars
  <1> QED
    BY <1>1, <1>2, PTL DEF IngestSpec
-----------------------------------------------------------------------------
(* What a log says of the store: the definitions of MetricStore, of any log. *)

Adds(e, i, k) == e.kept /\ e.snap.instance = i /\ Index(e.snap.native) = k
Wipes(e, i, k) ==
  \/ /\ e.snap.instance = i /\ ~TooOld(e.snap, e.at) /\ k < Oldest(e.at)
  \/ /\ e.snap.instance = i /\ e.kept /\ Index(e.snap.native) # k
     /\ Index(e.snap.native) % Capacity = k % Capacity
  \/ e.shed /\ k < ShedBefore(e.at)
Living(l, i, k) ==
  {j \in DOMAIN l : Adds(l[j], i, k) /\ \A later \in j .. Len(l) : ~Wipes(l[later], i, k)}

Author(l, j) == <<l[j].snap.agent, l[j].snap.native>>
Namers(l, live, d) == {j \in live : d \in ToSet(l[j].snap.series)}
SayOf(l, live, d, key) == {j \in Namers(l, live, d) : Author(l, j) = key}
SeriesSaid(l, live, d) ==
  [key \in {Author(l, j) : j \in Namers(l, live, d)} |-> l[Max(SayOf(l, live, d, key))].snap.amount]
Gaugers(l, live) == {j \in live : l[j].snap.gauge # None}
LastGauged(l, live) ==
  {j \in Gaugers(l, live) :
     \A other \in Gaugers(l, live) : l[other].snap.native <= l[j].snap.native}
GaugeSaid(l, live) ==
  IF Gaugers(l, live) = {} THEN None ELSE l[Max(LastGauged(l, live))].snap.gauge
GaugeTime(l, live) ==
  IF Gaugers(l, live) = {} THEN None ELSE l[Max(LastGauged(l, live))].snap.native

(* A bucket that holds what the live snapshots of a log say, and nothing else. *)
Contents(l, b, live) ==
  /\ b.agents = {l[j].snap.agent : j \in live}
  /\ b.restarted = {l[j].snap.agent : j \in {x \in live : l[x].snap.restarted}}
  /\ b.gauge = GaugeSaid(l, live) /\ b.gaugeFrom = GaugeTime(l, live)
  /\ DOMAIN b.series = UNION {ToSet(l[j].snap.series) : j \in live}
  /\ \A d \in DOMAIN b.series : b.series[d] = SeriesSaid(l, live, d)
Shows(l, b, k, live) ==
  /\ b.start = k <=> live # {}
  /\ live # {} => Contents(l, b, live)

-----------------------------------------------------------------------------
(* The inductive invariant of the store and of what feeds it. *)

Snapshots == UNION {ToSet(Batches[n].snapshots) : n \in DOMAIN Batches}
IsBucket(b) ==
  /\ b = [start |-> b.start, series |-> b.series, gauge |-> b.gauge, gaugeFrom |-> b.gaugeFrom,
          agents |-> b.agents, restarted |-> b.restarted]
  /\ b.start \in Nat \cup {None}
RingTypes ==
  /\ DOMAIN rings = Instances
  /\ \A i \in Instances : DOMAIN rings[i] = Slots /\ \A s \in Slots : IsBucket(rings[i][s])
LogTypes ==
  /\ \E S : log \in Seq(S)
  /\ \A j \in DOMAIN log : log[j].snap \in Snapshots /\ log[j].at \in Nat
Items == [batch : DOMAIN Batches \cup {"none"}, now : Nat, left : Seq(Snapshots)]
WorkTypes ==
  /\ inbox \in Seq(DOMAIN Batches) /\ \E S : events \in Seq(S)
  /\ working \in Items /\ working.now <= ingestClock
  /\ working # NoItem => working.batch \in DOMAIN Batches
DroppedTypes == dropped \in [old : Nat, retention : Nat, cap : Nat]

(* Every slot of every ring shows what the log says of the bucket it holds,
   whichever that is, and of no other that shares the slot. *)
RingsShow ==
  \A i \in Instances, k \in Nat : Shows(log, rings[i][k % Capacity], k, Living(log, i, k))

(* What was taken was accepted before it was taken. *)
TakenBefore ==
  /\ Taken \in Nat
  /\ \A p \in DOMAIN accepted : accepted[p].at <= ingestClock
  /\ working # NoItem => \A p \in 1 .. Taken : accepted[p].at <= working.now

(* The reservations count the batches accepted that need them. *)
AnyCandidates == UNION {Candidates(Batches[n]) : n \in DOMAIN Batches}
CountsRight(r) ==
  /\ DOMAIN r \subseteq AnyCandidates /\ \A x \in DOMAIN r : r[x] \in Nat \ {0}
  /\ \A x \in AnyCandidates : x[1][2] >= Oldest(ingestClock) =>
       (IF x \in DOMAIN r THEN r[x] ELSE 0) = Cardinality(Holders(x))
ReservedCounts == CountsRight(reserved)

(* The series that the batches accepted until some time have in a bucket that
   is retained then are no more than the cap. *)
AdmittedBy(t, key) ==
  {x \in AnyCandidates : /\ x[1] = key
                         /\ \E p \in DOMAIN accepted : accepted[p].at <= t /\ x \in CandidatesOf(p)}
CapKept ==
  \A t \in 0 .. ingestClock, n \in DOMAIN Batches : \A c \in Candidates(Batches[n]) :
    c[1][2] >= Oldest(t) =>
      IsFiniteSet(AdmittedBy(t, c[1])) /\ Cardinality(AdmittedBy(t, c[1])) <= SeriesCap

Distinct(held) == \A i, j \in DOMAIN held : held[i] = held[j] => i = j
-----------------------------------------------------------------------------
(* Times, buckets and slots. *)

LEMMA IndexType == \A t \in Nat : Index(t) \in Nat
  BY StoreAssumption DEF Index
LEMMA IndexGrows == \A s, t \in Nat : s <= t => Index(s) <= Index(t)
  BY StoreAssumption DEF Index
LEMMA OldestType == \A t \in Nat : Oldest(t) \in Int
  BY StoreAssumption, IndexType DEF Oldest
LEMMA OldestGrows == \A s, t \in Nat : s <= t => Oldest(s) <= Oldest(t)
  BY StoreAssumption, IndexType, IndexGrows DEF Oldest
LEMMA SlotType == \A k \in Nat : k % Capacity \in Slots
  BY StoreAssumption DEF Slots
LEMMA StartLater == \A k \in Nat : k * Width \in Nat /\ k <= k * Width
  BY StoreAssumption

(* Induction, for a set of numbers. *)
LEMMA NatSet ==
  ASSUME NEW S, 0 \in S, \A n \in Nat : n \in S => n + 1 \in S
  PROVE  Nat \subseteq S
  <1> DEFINE Bad == {n \in Nat : n \notin S}
  <1>1. ASSUME Bad # {} PROVE FALSE
    <2>1. \E m \in Bad : \A n \in Bad : m <= n
      <3>1. Bad \subseteq Nat
        OBVIOUS
      <3> HIDE DEF Bad
      <3> QED
        BY <1>1, <3>1, LeastOf
    <2>2. PICK m \in Bad : \A n \in Bad : m <= n
      BY <2>1
    <2>3. m \in Nat /\ m \notin S /\ m # 0
      BY <2>2
    <2>4. m - 1 \in Nat /\ (m - 1) + 1 = m /\ ~(m <= m - 1)
      BY <2>3
    <2>5. m - 1 \in S
      BY <2>2, <2>4
    <2> QED
      BY <2>3, <2>4, <2>5
  <1> QED
    BY <1>1
-----------------------------------------------------------------------------
(* The recursive functions of the model, one step at a time. *)

(* The series of a snapshot, added one after the other. *)
Adding(b, snap) ==
  CHOOSE made : made = [n \in 0 .. Len(snap.series) |-> IF n = 0 THEN [bucket |-> Header(b, snap), refused |-> 0] ELSE AddOne(made[n - 1], snap.series[n], snap)]

LEMMA AddingDefined == \A b, snap : AddAll(b, snap) = Adding(b, snap)[Len(snap.series)]
  BY DEF AddAll, Adding

LEMMA AddingSteps ==
  ASSUME NEW b, NEW snap, Len(snap.series) \in Nat
  PROVE  /\ Adding(b, snap)[0] = [bucket |-> Header(b, snap), refused |-> 0]
         /\ \A n \in 0 .. Len(snap.series) : n # 0 => Adding(b, snap)[n] = AddOne(Adding(b, snap)[n - 1], snap.series[n], snap)
  <1> DEFINE F(n, made) == IF n = 0 THEN [bucket |-> Header(b, snap), refused |-> 0] ELSE AddOne(made[n - 1], snap.series[n], snap)
             Made(n) == \E made : made = [k \in 0 .. n |-> F(k, made)]
             T == {n \in Nat : Made(n)}
  <1>1. 0 \in T
    <2> DEFINE made == [k \in 0 .. 0 |-> [bucket |-> Header(b, snap), refused |-> 0]]
    <2>1. made = [k \in 0 .. 0 |-> F(k, made)]
      OBVIOUS
    <2> QED
      BY <2>1
  <1>2. ASSUME NEW n \in Nat, n \in T PROVE n + 1 \in T
    <2>1. PICK made : made = [k \in 0 .. n |-> F(k, made)]
      BY <1>2
    <2> DEFINE more == [k \in 0 .. n + 1 |-> IF k = n + 1 THEN AddOne(made[n], snap.series[n + 1], snap) ELSE made[k]]
    <2>2. \A k \in 0 .. n : more[k] = made[k] /\ made[k] = F(k, made)
      BY <2>1
    <2>3. \A k \in 0 .. n + 1 : more[k] = F(k, more)
      <3> SUFFICES ASSUME NEW k \in 0 .. n + 1 PROVE more[k] = F(k, more)
        OBVIOUS
      <3>1. CASE k = n + 1
        <4>1. more[k] = AddOne(made[n], snap.series[n + 1], snap) /\ k # 0 /\ k - 1 = n /\ n \in 0 .. n
          BY <3>1
        <4>2. more[k - 1] = made[n]
          BY <2>2, <4>1
        <4> QED
          BY <3>1, <4>1, <4>2
      <3>2. CASE k = 0
        <4>1. k \in 0 .. n
          BY <3>2
        <4> QED
          BY <2>2, <3>2, <4>1
      <3>3. CASE k # 0 /\ k # n + 1
        <4>1. k \in 0 .. n /\ k - 1 \in 0 .. n
          BY <3>3
        <4>2. more[k - 1] = made[k - 1] /\ more[k] = F(k, made)
          BY <2>2, <4>1
        <4> HIDE DEF more
        <4> QED
          BY <3>3, <4>2
      <3> QED
        BY <3>1, <3>2, <3>3
    <2>4. more = [k \in 0 .. n + 1 |-> F(k, more)]
      <3>1. more = [k \in 0 .. n + 1 |-> more[k]]
        OBVIOUS
      <3> HIDE DEF more
      <3> QED
        BY <2>3, <3>1
    <2> HIDE DEF more
    <2>5. Made(n + 1)
      BY <2>4
    <2> HIDE DEF Made
    <2> QED
      BY <2>5
  <1>3. Len(snap.series) \in T
    <2> HIDE DEF T
    <2>1. Nat \subseteq T
      BY <1>1, <1>2, NatSet
    <2> QED
      BY <2>1
  <1>4. Adding(b, snap) = [k \in 0 .. Len(snap.series) |-> F(k, Adding(b, snap))]
    BY <1>3 DEF Adding
  <1> HIDE DEF T
  <1>5. \A k \in 0 .. Len(snap.series) : Adding(b, snap)[k] = F(k, Adding(b, snap))
    BY <1>4
  <1> QED
    BY <1>5

(* The snapshots of a list of acceptances. *)
Flattened(taken) ==
  CHOOSE made : made = [n \in 0 .. Len(taken) |-> IF n = 0 THEN <<>> ELSE Joined(made[n - 1], taken[n])]

LEMMA FlattenedDefined == \A taken : Flat(taken) = Flattened(taken)[Len(taken)]
  BY DEF Flat, Flattened

LEMMA FlattenedSteps ==
  ASSUME NEW taken, Len(taken) \in Nat
  PROVE  /\ Flattened(taken)[0] = <<>>
         /\ \A n \in 0 .. Len(taken) : n # 0 => Flattened(taken)[n] = Joined(Flattened(taken)[n - 1], taken[n])
  <1> DEFINE F(n, made) == IF n = 0 THEN <<>> ELSE Joined(made[n - 1], taken[n])
             Made(n) == \E made : made = [k \in 0 .. n |-> F(k, made)]
             T == {n \in Nat : Made(n)}
  <1>1. 0 \in T
    <2> DEFINE made == [k \in 0 .. 0 |-> <<>>]
    <2>1. made = [k \in 0 .. 0 |-> F(k, made)]
      OBVIOUS
    <2> QED
      BY <2>1
  <1>2. ASSUME NEW n \in Nat, n \in T PROVE n + 1 \in T
    <2>1. PICK made : made = [k \in 0 .. n |-> F(k, made)]
      BY <1>2
    <2> DEFINE more == [k \in 0 .. n + 1 |-> IF k = n + 1 THEN Joined(made[n], taken[n + 1]) ELSE made[k]]
    <2>2. \A k \in 0 .. n : more[k] = made[k] /\ made[k] = F(k, made)
      BY <2>1
    <2>3. \A k \in 0 .. n + 1 : more[k] = F(k, more)
      <3> SUFFICES ASSUME NEW k \in 0 .. n + 1 PROVE more[k] = F(k, more)
        OBVIOUS
      <3>1. CASE k = n + 1
        <4>1. more[k] = Joined(made[n], taken[n + 1]) /\ k # 0 /\ k - 1 = n /\ n \in 0 .. n
          BY <3>1
        <4>2. more[k - 1] = made[n]
          BY <2>2, <4>1
        <4> QED
          BY <3>1, <4>1, <4>2
      <3>2. CASE k = 0
        <4>1. k \in 0 .. n
          BY <3>2
        <4> QED
          BY <2>2, <3>2, <4>1
      <3>3. CASE k # 0 /\ k # n + 1
        <4>1. k \in 0 .. n /\ k - 1 \in 0 .. n
          BY <3>3
        <4>2. more[k - 1] = made[k - 1] /\ more[k] = F(k, made)
          BY <2>2, <4>1
        <4> HIDE DEF more
        <4> QED
          BY <3>3, <4>2
      <3> QED
        BY <3>1, <3>2, <3>3
    <2>4. more = [k \in 0 .. n + 1 |-> F(k, more)]
      <3>1. more = [k \in 0 .. n + 1 |-> more[k]]
        OBVIOUS
      <3> HIDE DEF more
      <3> QED
        BY <2>3, <3>1
    <2> HIDE DEF more
    <2>5. Made(n + 1)
      BY <2>4
    <2> HIDE DEF Made
    <2> QED
      BY <2>5
  <1>3. Len(taken) \in T
    <2> HIDE DEF T
    <2>1. Nat \subseteq T
      BY <1>1, <1>2, NatSet
    <2> QED
      BY <2>1
  <1>4. Flattened(taken) = [k \in 0 .. Len(taken) |-> F(k, Flattened(taken))]
    BY <1>3 DEF Flattened
  <1> HIDE DEF T
  <1>5. \A k \in 0 .. Len(taken) : Flattened(taken)[k] = F(k, Flattened(taken))
    BY <1>4
  <1> QED
    BY <1>5

(* The events of a batch, stored one after the other. *)
Storing(held, sent) ==
  CHOOSE made : made = [n \in 0 .. Len(sent) |-> IF n = 0 THEN held ELSE Evict(AppendEvent(made[n - 1], sent[n]))]

LEMMA StoringDefined == \A held, sent : Stored(held, sent) = Storing(held, sent)[Len(sent)]
  BY DEF Stored, Storing

LEMMA StoringSteps ==
  ASSUME NEW held, NEW sent, Len(sent) \in Nat
  PROVE  /\ Storing(held, sent)[0] = held
         /\ \A n \in 0 .. Len(sent) : n # 0 => Storing(held, sent)[n] = Evict(AppendEvent(Storing(held, sent)[n - 1], sent[n]))
  <1> DEFINE F(n, made) == IF n = 0 THEN held ELSE Evict(AppendEvent(made[n - 1], sent[n]))
             Made(n) == \E made : made = [k \in 0 .. n |-> F(k, made)]
             T == {n \in Nat : Made(n)}
  <1>1. 0 \in T
    <2> DEFINE made == [k \in 0 .. 0 |-> held]
    <2>1. made = [k \in 0 .. 0 |-> F(k, made)]
      OBVIOUS
    <2> QED
      BY <2>1
  <1>2. ASSUME NEW n \in Nat, n \in T PROVE n + 1 \in T
    <2>1. PICK made : made = [k \in 0 .. n |-> F(k, made)]
      BY <1>2
    <2> DEFINE more == [k \in 0 .. n + 1 |-> IF k = n + 1 THEN Evict(AppendEvent(made[n], sent[n + 1])) ELSE made[k]]
    <2>2. \A k \in 0 .. n : more[k] = made[k] /\ made[k] = F(k, made)
      BY <2>1
    <2>3. \A k \in 0 .. n + 1 : more[k] = F(k, more)
      <3> SUFFICES ASSUME NEW k \in 0 .. n + 1 PROVE more[k] = F(k, more)
        OBVIOUS
      <3>1. CASE k = n + 1
        <4>1. more[k] = Evict(AppendEvent(made[n], sent[n + 1])) /\ k # 0 /\ k - 1 = n /\ n \in 0 .. n
          BY <3>1
        <4>2. more[k - 1] = made[n]
          BY <2>2, <4>1
        <4> QED
          BY <3>1, <4>1, <4>2
      <3>2. CASE k = 0
        <4>1. k \in 0 .. n
          BY <3>2
        <4> QED
          BY <2>2, <3>2, <4>1
      <3>3. CASE k # 0 /\ k # n + 1
        <4>1. k \in 0 .. n /\ k - 1 \in 0 .. n
          BY <3>3
        <4>2. more[k - 1] = made[k - 1] /\ more[k] = F(k, made)
          BY <2>2, <4>1
        <4> HIDE DEF more
        <4> QED
          BY <3>3, <4>2
      <3> QED
        BY <3>1, <3>2, <3>3
    <2>4. more = [k \in 0 .. n + 1 |-> F(k, more)]
      <3>1. more = [k \in 0 .. n + 1 |-> more[k]]
        OBVIOUS
      <3> HIDE DEF more
      <3> QED
        BY <2>3, <3>1
    <2> HIDE DEF more
    <2>5. Made(n + 1)
      BY <2>4
    <2> HIDE DEF Made
    <2> QED
      BY <2>5
  <1>3. Len(sent) \in T
    <2> HIDE DEF T
    <2>1. Nat \subseteq T
      BY <1>1, <1>2, NatSet
    <2> QED
      BY <2>1
  <1>4. Storing(held, sent) = [k \in 0 .. Len(sent) |-> F(k, Storing(held, sent))]
    BY <1>3 DEF Storing
  <1> HIDE DEF T
  <1>5. \A k \in 0 .. Len(sent) : Storing(held, sent)[k] = F(k, Storing(held, sent))
    BY <1>4
  <1> QED
    BY <1>5

-----------------------------------------------------------------------------
(* What one snapshot adds to a bucket that has room for its series. *)

HeldOf(b, d) == IF d \in DOMAIN b.series THEN b.series[d] ELSE <<>>
KeySaid(snap) == <<snap.agent, snap.native>>
SameHeader(c, b) ==
  /\ c.start = b.start /\ c.agents = b.agents /\ c.restarted = b.restarted
  /\ c.gauge = b.gauge /\ c.gaugeFrom = b.gaugeFrom

LEMMA HeaderFields ==
  ASSUME NEW b, IsBucket(b), NEW snap
  PROVE  LET c == Header(b, snap) IN
         /\ IsBucket(c) /\ c.start = b.start /\ c.series = b.series
         /\ c.agents = b.agents \cup {snap.agent}
         /\ c.restarted = IF snap.restarted THEN b.restarted \cup {snap.agent} ELSE b.restarted
         /\ c.gauge = IF TakesGauge(b, snap) THEN snap.gauge ELSE b.gauge
         /\ c.gaugeFrom = IF TakesGauge(b, snap) THEN snap.native ELSE b.gaugeFrom
  <1> DEFINE agents == b.agents \cup {snap.agent}
             restarted == IF snap.restarted THEN b.restarted \cup {snap.agent} ELSE b.restarted
             gauge == IF TakesGauge(b, snap) THEN snap.gauge ELSE b.gauge
             gaugeFrom == IF TakesGauge(b, snap) THEN snap.native ELSE b.gaugeFrom
  <1>1. Header(b, snap) = [b EXCEPT !.agents = agents, !.restarted = restarted,
                                    !.gauge = gauge, !.gaugeFrom = gaugeFrom]
    BY DEF Header
  <1> HIDE DEF agents, restarted, gauge, gaugeFrom
  <1>0. Header(b, snap) = [start |-> b.start, series |-> b.series, gauge |-> gauge,
                           gaugeFrom |-> gaugeFrom, agents |-> agents, restarted |-> restarted]
    BY <1>1 DEF IsBucket
  <1>2. /\ IsBucket(Header(b, snap)) /\ Header(b, snap).start = b.start
        /\ Header(b, snap).series = b.series /\ Header(b, snap).agents = agents
        /\ Header(b, snap).restarted = restarted /\ Header(b, snap).gauge = gauge
        /\ Header(b, snap).gaugeFrom = gaugeFrom
    BY <1>0 DEF IsBucket
  <1> QED
    BY <1>2 DEF agents, restarted, gauge, gaugeFrom

LEMMA SeriesFields ==
  ASSUME NEW b, IsBucket(b), NEW snap, NEW dims
  PROVE  LET c == AddSeries(b, dims, snap) IN
         /\ IsBucket(c) /\ SameHeader(c, b)
         /\ DOMAIN c.series = DOMAIN b.series \cup {dims}
         /\ \A d \in DOMAIN c.series :
              c.series[d] = IF d = dims THEN Contribute(HeldOf(b, dims), KeySaid(snap), snap.amount)
                            ELSE b.series[d]
  <1> DEFINE more == [d \in DOMAIN b.series \cup {dims} |->
                        IF d = dims THEN Contribute(HeldOf(b, dims), KeySaid(snap), snap.amount)
                        ELSE b.series[d]]
  <1>1. AddSeries(b, dims, snap) = [b EXCEPT !.series = more]
    BY DEF AddSeries, HeldOf, KeySaid
  <1>2. /\ DOMAIN more = DOMAIN b.series \cup {dims}
        /\ \A d \in DOMAIN more :
             more[d] = IF d = dims THEN Contribute(HeldOf(b, dims), KeySaid(snap), snap.amount)
                       ELSE b.series[d]
    OBVIOUS
  <1> HIDE DEF more
  <1>3. AddSeries(b, dims, snap) =
          [start |-> b.start, series |-> more, gauge |-> b.gauge, gaugeFrom |-> b.gaugeFrom,
           agents |-> b.agents, restarted |-> b.restarted]
    BY <1>1 DEF IsBucket
  <1>4. /\ IsBucket(AddSeries(b, dims, snap)) /\ SameHeader(AddSeries(b, dims, snap), b)
        /\ AddSeries(b, dims, snap).series = more
    BY <1>3 DEF IsBucket, SameHeader
  <1> QED
    BY <1>2, <1>4

LEMMA ContributeTwice ==
  ASSUME NEW held, NEW key, NEW amount
  PROVE  Contribute(Contribute(held, key, amount), key, amount) = Contribute(held, key, amount)
  BY DEF Contribute

(* The first n series of a snapshot. *)
FirstOf(s, n) == {s[m] : m \in 1 .. n}
AddedUpTo(b, snap, n, c) ==
  /\ IsBucket(c) /\ SameHeader(c, Header(b, snap))
  /\ DOMAIN c.series = DOMAIN b.series \cup FirstOf(snap.series, n)
  /\ \A d \in FirstOf(snap.series, n) :
       c.series[d] = Contribute(HeldOf(b, d), KeySaid(snap), snap.amount)
  /\ \A d \in DOMAIN b.series \ FirstOf(snap.series, n) : c.series[d] = b.series[d]

LEMMA AddOneExact ==
  ASSUME NEW b, IsBucket(b), NEW snap, NEW n \in Nat, NEW c, AddedUpTo(b, snap, n, c)
  PROVE  AddedUpTo(b, snap, n + 1, AddSeries(c, snap.series[n + 1], snap))
  <1> DEFINE dims == snap.series[n + 1]
             more == AddSeries(c, dims, snap)
  <1>1. FirstOf(snap.series, n + 1) = FirstOf(snap.series, n) \cup {dims}
    <2>1. 1 .. n + 1 = 1 .. n \cup {n + 1}
      OBVIOUS
    <2> QED
      BY <2>1 DEF FirstOf
  <1>2. PICK done : done = FirstOf(snap.series, n)
    OBVIOUS
  <1>3. /\ IsBucket(c) /\ SameHeader(c, Header(b, snap)) /\ DOMAIN c.series = DOMAIN b.series \cup done
        /\ \A d \in done : c.series[d] = Contribute(HeldOf(b, d), KeySaid(snap), snap.amount)
        /\ \A d \in DOMAIN b.series \ done : c.series[d] = b.series[d]
    BY <1>2 DEF AddedUpTo
  <1>4. /\ IsBucket(more) /\ SameHeader(more, c) /\ DOMAIN more.series = DOMAIN c.series \cup {dims}
        /\ \A d \in DOMAIN more.series :
             more.series[d] = IF d = dims THEN Contribute(HeldOf(c, dims), KeySaid(snap), snap.amount)
                              ELSE c.series[d]
    BY <1>3, SeriesFields
  <1>5. Contribute(HeldOf(c, dims), KeySaid(snap), snap.amount)
          = Contribute(HeldOf(b, dims), KeySaid(snap), snap.amount)
    <2>1. CASE dims \in done
      <3>1. HeldOf(c, dims) = Contribute(HeldOf(b, dims), KeySaid(snap), snap.amount)
        BY <1>3, <2>1 DEF HeldOf
      <3> QED
        BY <3>1, ContributeTwice
    <2>2. CASE dims \notin done
      <3>1. HeldOf(c, dims) = HeldOf(b, dims)
        BY <1>3, <2>2 DEF HeldOf
      <3> QED
        BY <3>1
    <2> QED
      BY <2>1, <2>2
  <1> HIDE DEF more, dims
  <1>6. SameHeader(more, Header(b, snap))
    BY <1>3, <1>4 DEF SameHeader
  <1>7. DOMAIN more.series = DOMAIN b.series \cup (done \cup {dims})
    BY <1>3, <1>4
  <1>8. ASSUME NEW d \in done \cup {dims}
        PROVE  more.series[d] = Contribute(HeldOf(b, d), KeySaid(snap), snap.amount)
    <2>1. d \in DOMAIN more.series
      BY <1>7
    <2>2. CASE d = dims
      BY <1>4, <1>5, <2>1, <2>2
    <2>3. CASE d # dims
      BY <1>3, <1>4, <2>1, <2>3
    <2> QED
      BY <2>2, <2>3
  <1>9. ASSUME NEW d \in DOMAIN b.series \ (done \cup {dims})
        PROVE  more.series[d] = b.series[d]
    BY <1>3, <1>4, <1>7
  <1>10. FirstOf(snap.series, n + 1) = done \cup {dims}
    BY <1>1, <1>2 DEF dims
  <1>11. AddedUpTo(b, snap, n + 1, more)
    BY <1>4, <1>6, <1>7, <1>8, <1>9, <1>10 DEF AddedUpTo
  <1> QED
    BY <1>11 DEF more, dims

LEMMA AddAllExact ==
  ASSUME NEW b, IsBucket(b), NEW snap, IsList(snap.series),
         NEW room, room = DOMAIN b.series \cup ToSet(snap.series),
         IsFiniteSet(room), Cardinality(room) <= SeriesCap
  PROVE  /\ AddAll(b, snap).refused = 0
         /\ AddedUpTo(b, snap, Len(snap.series), AddAll(b, snap).bucket)
  <1> DEFINE added == Adding(b, snap)
             Good(n) == added[n].refused = 0 /\ AddedUpTo(b, snap, n, added[n].bucket)
             T == {n \in Nat : n <= Len(snap.series) => Good(n)}
  <1>1. Len(snap.series) \in Nat /\ DOMAIN snap.series = 1 .. Len(snap.series)
    BY DEF IsList
  <1>2. /\ added[0] = [bucket |-> Header(b, snap), refused |-> 0]
        /\ \A n \in 0 .. Len(snap.series) : n # 0 => added[n] = AddOne(added[n - 1], snap.series[n], snap)
    BY <1>1, AddingSteps
  <1>3. 0 \in T
    <2>1. FirstOf(snap.series, 0) = {}
      BY DEF FirstOf
    <2>2. added[0].refused = 0 /\ added[0].bucket = Header(b, snap)
      BY <1>2
    <2>3. AddedUpTo(b, snap, 0, Header(b, snap))
      BY <2>1, HeaderFields DEF AddedUpTo, SameHeader
    <2> QED
      BY <2>2, <2>3
  <1>4. ASSUME NEW n \in Nat, n \in T PROVE n + 1 \in T
    <2>1. SUFFICES ASSUME n + 1 <= Len(snap.series) PROVE Good(n + 1)
      OBVIOUS
    <2>2. PICK x, dims : x = added[n] /\ dims = snap.series[n + 1]
      OBVIOUS
    <2>3. x.refused = 0 /\ AddedUpTo(b, snap, n, x.bucket)
      BY <1>1, <1>4, <2>1, <2>2
    <2>4. added[n + 1] = AddOne(x, dims, snap)
      <3>1. n + 1 \in 0 .. Len(snap.series) /\ n + 1 # 0 /\ n + 1 - 1 = n
        BY <1>1, <2>1
      <3> QED
        BY <1>2, <2>2, <3>1
    <2>5. ~OverCap(x.bucket, dims)
      <3>1. DOMAIN x.bucket.series = DOMAIN b.series \cup FirstOf(snap.series, n)
        BY <2>3 DEF AddedUpTo
      <3>2. FirstOf(snap.series, n) \subseteq ToSet(snap.series) /\ dims \in ToSet(snap.series)
        <4>1. ASSUME NEW m \in 1 .. n + 1 PROVE snap.series[m] \in ToSet(snap.series)
          <5>1. m \in DOMAIN snap.series
            BY <1>1, <2>1
          <5> QED
            BY <5>1 DEF ToSet
        <4> QED
          BY <2>2, <4>1 DEF FirstOf
      <3>3. PICK held : held = DOMAIN x.bucket.series
        OBVIOUS
      <3>4. held \subseteq room /\ held \cup {dims} \subseteq room
        BY <3>1, <3>2, <3>3
      <3>5. IsFiniteSet(held) /\ Cardinality(held) \in Nat
        BY <3>4, FS_Subset, FS_CardinalityType
      <3>6. Cardinality(held \cup {dims}) <= Cardinality(room) /\ Cardinality(room) \in Nat
        BY <3>4, FS_Subset, FS_CardinalityType
      <3>7. dims \notin held => Cardinality(held \cup {dims}) = Cardinality(held) + 1
        BY <3>5, FS_AddElement
      <3>8. dims \notin held => ~(Cardinality(held) >= SeriesCap)
        BY <3>5, <3>6, <3>7, StoreAssumption
      <3> QED
        BY <3>3, <3>8 DEF OverCap
    <2>6. added[n + 1].refused = 0 /\ added[n + 1].bucket = AddSeries(x.bucket, dims, snap)
      BY <2>3, <2>4, <2>5 DEF AddOne
    <2>7. AddedUpTo(b, snap, n + 1, AddSeries(x.bucket, dims, snap))
      BY <2>2, <2>3, AddOneExact
    <2> HIDE DEF added
    <2> QED
      BY <2>6, <2>7
  <1>5. Good(Len(snap.series))
    <2> HIDE DEF Good
    <2>1. Nat \subseteq T
      <3> HIDE DEF T
      <3> QED
        BY <1>3, <1>4, NatSet
    <2> QED
      BY <1>1, <2>1
  <1> QED
    BY <1>5, AddingDefined
-----------------------------------------------------------------------------
(* One more entry at the end of a log. *)

(* m is l with the entry e, its n-th, behind those that live. *)
OneMoreEntry(l, m, live, n, e) ==
  /\ n \in Nat /\ live \subseteq Nat /\ \A j \in live : j < n /\ m[j] = l[j]
  /\ m[n] = e

LEMMA Greatest ==
  ASSUME NEW S, S \subseteq Nat, NEW n \in S, \A x \in S : x <= n
  PROVE  Max(S) = n
  <1>1. \A x \in S : (\A y \in S : x >= y) => x = n
    OBVIOUS
  <1>2. \A y \in S : n >= y
    OBVIOUS
  <1> QED
    BY <1>1, <1>2 DEF Max

LEMMA MaxMember ==
  ASSUME NEW S, S \subseteq Nat, S # {}, NEW n \in Nat, \A j \in S : j < n
  PROVE  Max(S) \in S /\ \A j \in S : j <= Max(S)
  <1> DEFINE B == {n - j : j \in S}
  <1>1. B \subseteq Nat /\ B # {}
    <2>1. \A j \in S : n - j \in Nat
      OBVIOUS
    <2> QED
      BY <2>1
  <1>2. \E least \in B : \A x \in B : least <= x
    <2> HIDE DEF B
    <2> QED
      BY <1>1, LeastOf
  <1>3. PICK top \in S : \A j \in S : n - top <= n - j
    BY <1>2
  <1>4. top \in Nat /\ \A j \in S : top >= j
    BY <1>3
  <1> QED
    BY <1>4 DEF Max

LEMMA FiniteTop ==
  ASSUME NEW S, S \subseteq Nat, S # {}, IsFiniteSet(S)
  PROVE  \E top \in S : \A x \in S : x <= top
  <1> DEFINE T == {n \in Nat : \A R \in SUBSET S : R # {} /\ Cardinality(R) <= n =>
                                 \E top \in R : \A x \in R : x <= top}
  <1>1. \A R \in SUBSET S : IsFiniteSet(R) /\ Cardinality(R) \in Nat /\ R \subseteq Nat
    BY FS_Subset, FS_CardinalityType
  <1>2. 0 \in T
    <2>1. \A R \in SUBSET S : Cardinality(R) <= 0 => R = {}
      <3> SUFFICES ASSUME NEW R \in SUBSET S, Cardinality(R) <= 0 PROVE R = {}
        OBVIOUS
      <3>1. Cardinality(R) = 0
        BY <1>1
      <3> QED
        BY <1>1, <3>1, FS_EmptySet
    <2> QED
      BY <2>1
  <1>3. ASSUME NEW n \in Nat, n \in T PROVE n + 1 \in T
    <2>1. SUFFICES ASSUME NEW R \in SUBSET S, R # {}, Cardinality(R) <= n + 1
                   PROVE  \E top \in R : \A x \in R : x <= top
      OBVIOUS
    <2>2. PICK r : r \in R
      BY <2>1
    <2>3. Cardinality(R \ {r}) <= n
      <3>1. Cardinality(R \ {r}) = Cardinality(R) - 1
        BY <1>1, <2>2, FS_RemoveElement
      <3> QED
        BY <1>1, <2>1, <3>1
    <2>4. CASE R \ {r} = {}
      <3>1. \A x \in R : x = r
        BY <2>4
      <3> QED
        BY <1>1, <2>2, <3>1
    <2>5. CASE R \ {r} # {}
      <3>1. R \ {r} \in SUBSET S
        OBVIOUS
      <3>2. PICK top \in R \ {r} : \A x \in R \ {r} : x <= top
        BY <1>3, <2>3, <2>5, <3>1
      <3>3. CASE r <= top
        BY <2>2, <3>2, <3>3
      <3>4. CASE ~(r <= top)
        <4>1. r \in Nat /\ \A x \in R : x \in Nat
          BY <1>1, <2>2
        <4>2. \A x \in R : x <= r
          BY <3>2, <3>4, <4>1
        <4> QED
          BY <2>2, <4>2
      <3> QED
        BY <3>3, <3>4
    <2> QED
      BY <2>4, <2>5
  <1>4. Nat \subseteq T
    <2> HIDE DEF T
    <2> QED
      BY <1>2, <1>3, NatSet
  <1>5. Cardinality(S) \in T /\ S \in SUBSET S /\ Cardinality(S) <= Cardinality(S)
    BY <1>1, <1>4
  <1> QED
    BY <1>5

(* m and l agree on the entries that live, all before the n-th. *)
SameEntries(l, m, live, n) ==
  n \in Nat /\ live \subseteq Nat /\ \A j \in live : j < n /\ m[j] = l[j]

LEMMA SeriesSame ==
  ASSUME NEW l, NEW m, NEW live, NEW n, SameEntries(l, m, live, n), NEW d
  PROVE  /\ Namers(m, live, d) = Namers(l, live, d)
         /\ SeriesSaid(m, live, d) = SeriesSaid(l, live, d)
  <1>1. Namers(m, live, d) = Namers(l, live, d)
    BY DEF Namers, SameEntries
  <1>2. \A j \in Namers(l, live, d) : Author(m, j) = Author(l, j)
    BY DEF Author, Namers, SameEntries
  <1>3. {Author(m, j) : j \in Namers(m, live, d)} = {Author(l, j) : j \in Namers(l, live, d)}
    BY <1>1, <1>2
  <1>4. ASSUME NEW key \in {Author(l, j) : j \in Namers(l, live, d)}
        PROVE  m[Max(SayOf(m, live, d, key))].snap.amount = l[Max(SayOf(l, live, d, key))].snap.amount
    <2>1. SayOf(m, live, d, key) = SayOf(l, live, d, key)
      BY <1>1, <1>2 DEF SayOf
    <2>2. SayOf(l, live, d, key) # {} /\ SayOf(l, live, d, key) \subseteq live
      BY <1>4 DEF SayOf, Namers
    <2>3. Max(SayOf(l, live, d, key)) \in live
      <3>1. \A j \in SayOf(l, live, d, key) : j < n
        BY <2>2 DEF SameEntries
      <3> QED
        BY <2>2, <3>1, MaxMember DEF SameEntries
    <2> QED
      BY <2>1, <2>3 DEF SameEntries
  <1> QED
    BY <1>1, <1>3, <1>4 DEF SeriesSaid

LEMMA GaugeSame ==
  ASSUME NEW l, NEW m, NEW live, NEW n, SameEntries(l, m, live, n),
         \A j \in live : l[j].snap.native \in Nat
  PROVE  /\ Gaugers(m, live) = Gaugers(l, live) /\ LastGauged(m, live) = LastGauged(l, live)
         /\ Gaugers(l, live) # {} => Max(LastGauged(l, live)) \in LastGauged(l, live)
         /\ GaugeSaid(m, live) = GaugeSaid(l, live) /\ GaugeTime(m, live) = GaugeTime(l, live)
  <1>1. Gaugers(m, live) = Gaugers(l, live) /\ Gaugers(l, live) \subseteq live
    BY DEF Gaugers, SameEntries
  <1>2. LastGauged(m, live) = LastGauged(l, live) /\ LastGauged(l, live) \subseteq live
    <2>1. \A j \in Gaugers(l, live) : m[j] = l[j]
      BY <1>1 DEF SameEntries
    <2>2. PICK said : said = Gaugers(l, live) /\ said = Gaugers(m, live)
      BY <1>1
    <2>3. \A j \in said :
            (\A other \in said : m[other].snap.native <= m[j].snap.native)
              <=> (\A other \in said : l[other].snap.native <= l[j].snap.native)
      BY <2>1, <2>2
    <2>4. LastGauged(m, live) = LastGauged(l, live)
      BY <2>2, <2>3, Zenon DEF LastGauged
    <2>5. LastGauged(l, live) \subseteq Gaugers(l, live)
      BY DEF LastGauged
    <2> QED
      BY <1>1, <2>4, <2>5
  <1>3. ASSUME Gaugers(l, live) # {}
        PROVE  /\ Max(LastGauged(l, live)) \in LastGauged(l, live)
               /\ Max(LastGauged(l, live)) \in live
    <2>1. LastGauged(l, live) # {}
      <3> DEFINE natives == {l[j].snap.native : j \in Gaugers(l, live)}
      <3>2. natives \subseteq Nat /\ natives # {}
        BY <1>1, <1>3
      <3>3. IsFiniteSet(live)
        <4>1. live \in SUBSET Nat /\ \A j \in live : j <= n
          BY DEF SameEntries
        <4> QED
          BY <4>1, FS_BoundedSetOfNaturals DEF SameEntries
      <3>4. IsFiniteSet(natives)
        <4> DEFINE f == [j \in Gaugers(l, live) |-> l[j].snap.native]
        <4>1. IsFiniteSet(Gaugers(l, live))
          BY <1>1, <3>3, FS_Subset
        <4>2. f \in Surjection(Gaugers(l, live), natives)
          BY DEF Surjection
        <4> HIDE DEF f, natives
        <4> QED
          BY <4>1, <4>2, FS_Surjection
      <3>5. PICK top \in natives : \A x \in natives : x <= top
        <4> HIDE DEF natives
        <4> QED
          BY <3>2, <3>4, FiniteTop
      <3>6. PICK j \in Gaugers(l, live) : l[j].snap.native = top
        BY <3>5
      <3>7. j \in LastGauged(l, live)
        BY <3>5, <3>6 DEF LastGauged
      <3> QED
        BY <3>7
    <2>2. Max(LastGauged(l, live)) \in LastGauged(l, live)
      <3>1. LastGauged(l, live) \subseteq Nat /\ \A j \in LastGauged(l, live) : j < n
        BY <1>2 DEF SameEntries
      <3> QED
        BY <2>1, <3>1, MaxMember DEF SameEntries
    <2> QED
      BY <1>2, <2>2
  <1>4. GaugeSaid(m, live) = GaugeSaid(l, live) /\ GaugeTime(m, live) = GaugeTime(l, live)
    <2>1. CASE Gaugers(l, live) = {}
      BY <1>1, <2>1 DEF GaugeSaid, GaugeTime
    <2>2. CASE Gaugers(l, live) # {}
      <3>1. m[Max(LastGauged(l, live))] = l[Max(LastGauged(l, live))]
        BY <1>3, <2>2 DEF SameEntries
      <3> QED
        BY <1>1, <1>2, <2>2, <3>1 DEF GaugeSaid, GaugeTime
    <2> QED
      BY <2>1, <2>2
  <1> QED
    BY <1>1, <1>2, <1>3, <1>4

LEMMA SeriesOneMore ==
  ASSUME NEW l, NEW m, NEW live, NEW n, NEW e, OneMoreEntry(l, m, live, n, e),
         NEW d, d \in ToSet(e.snap.series),
         NEW held, DOMAIN held = DOMAIN SeriesSaid(l, live, d),
         \A key \in DOMAIN held : held[key] = SeriesSaid(l, live, d)[key]
  PROVE  SeriesSaid(m, live \cup {n}, d) = Contribute(held, KeySaid(e.snap), e.snap.amount)
  <1> DEFINE key0 == KeySaid(e.snap)
  <1>1. /\ n \in Nat /\ live \subseteq Nat /\ n \notin live /\ m[n] = e
        /\ \A j \in live : j < n /\ m[j] = l[j]
    BY DEF OneMoreEntry
  <1>2. Namers(m, live \cup {n}, d) = Namers(l, live, d) \cup {n}
    BY <1>1 DEF Namers
  <1>3. Author(m, n) = key0 /\ \A j \in Namers(l, live, d) : Author(m, j) = Author(l, j)
    BY <1>1 DEF Author, KeySaid, Namers
  <1>4. {Author(m, j) : j \in Namers(m, live \cup {n}, d)} = {Author(l, j) : j \in Namers(l, live, d)} \cup {key0}
    <2> HIDE DEF key0
    <2> QED
      BY <1>2, <1>3
  <1>5. DOMAIN SeriesSaid(l, live, d) = {Author(l, j) : j \in Namers(l, live, d)}
    BY DEF SeriesSaid
  <1>6. DOMAIN SeriesSaid(m, live \cup {n}, d) = DOMAIN held \cup {key0}
    <2>1. DOMAIN SeriesSaid(m, live \cup {n}, d) = {Author(m, j) : j \in Namers(m, live \cup {n}, d)}
      BY DEF SeriesSaid
    <2> QED
      BY <2>1, <1>4, <1>5
  <1>7. ASSUME NEW key \in DOMAIN held \cup {key0}
        PROVE  SeriesSaid(m, live \cup {n}, d)[key] = IF key = key0 THEN e.snap.amount ELSE held[key]
    <2>1. SeriesSaid(m, live \cup {n}, d)[key] = m[Max(SayOf(m, live \cup {n}, d, key))].snap.amount
      <3>1. key \in {Author(m, j) : j \in Namers(m, live \cup {n}, d)}
        BY <1>6, <1>7 DEF SeriesSaid
      <3> QED
        BY <3>1 DEF SeriesSaid
    <2>2. CASE key = key0
      <3>1. /\ n \in SayOf(m, live \cup {n}, d, key) /\ SayOf(m, live \cup {n}, d, key) \subseteq live \cup {n}
        BY <1>2, <1>3, <2>2 DEF SayOf, Namers
      <3>2. Max(SayOf(m, live \cup {n}, d, key)) = n
        <4>0. \A x \in live \cup {n} : x \in Nat /\ x <= n
          BY <1>1
        <4>1. \A x \in SayOf(m, live \cup {n}, d, key) : x \in Nat /\ x <= n
          BY <3>1, <4>0
        <4> QED
          BY <3>1, <4>1, Greatest
      <3> QED
        BY <1>1, <2>1, <2>2, <3>2
    <2>3. CASE key # key0
      <3>1. SayOf(m, live \cup {n}, d, key) = SayOf(l, live, d, key)
        BY <1>2, <1>3, <2>3 DEF SayOf
      <3>2. key \in DOMAIN held /\ held[key] = SeriesSaid(l, live, d)[key]
        BY <1>7, <2>3
      <3>3. key \in {Author(l, j) : j \in Namers(l, live, d)}
        BY <3>2, <1>5
      <3>4. held[key] = l[Max(SayOf(l, live, d, key))].snap.amount
        BY <3>2, <3>3 DEF SeriesSaid
      <3>5. SayOf(l, live, d, key) # {} /\ SayOf(l, live, d, key) \subseteq live
        BY <3>3 DEF SayOf, Namers
      <3>6. Max(SayOf(l, live, d, key)) \in live
        <4>1. \A j \in SayOf(l, live, d, key) : j < n
          BY <1>1, <3>5
        <4> QED
          BY <1>1, <3>5, <4>1, MaxMember
      <3>7. m[Max(SayOf(l, live, d, key))] = l[Max(SayOf(l, live, d, key))]
        BY <1>1, <3>6
      <3> QED
        BY <2>1, <2>3, <3>1, <3>4, <3>7
    <2> QED
      BY <2>2, <2>3
  <1>8. SeriesSaid(m, live \cup {n}, d) = [key \in DOMAIN SeriesSaid(m, live \cup {n}, d) |->
                                              SeriesSaid(m, live \cup {n}, d)[key]]
    BY DEF SeriesSaid
  <1> HIDE DEF key0
  <1>9. SeriesSaid(m, live \cup {n}, d) =
          [key \in DOMAIN held \cup {key0} |-> IF key = key0 THEN e.snap.amount ELSE held[key]]
    BY <1>6, <1>7, <1>8
  <1> QED
    BY <1>9 DEF Contribute, key0

LEMMA SeriesNotNamed ==
  ASSUME NEW l, NEW m, NEW live, NEW n, NEW e, OneMoreEntry(l, m, live, n, e),
         NEW d, d \notin ToSet(e.snap.series)
  PROVE  SeriesSaid(m, live \cup {n}, d) = SeriesSaid(l, live, d)
  <1>1. SameEntries(l, m, live, n) /\ m[n] = e
    BY DEF OneMoreEntry, SameEntries
  <1>2. Namers(m, live \cup {n}, d) = Namers(m, live, d)
    BY <1>1 DEF Namers
  <1>3. \A key : SayOf(m, live \cup {n}, d, key) = SayOf(m, live, d, key)
    BY <1>2 DEF SayOf
  <1>4. SeriesSaid(m, live \cup {n}, d) = SeriesSaid(m, live, d)
    BY <1>2, <1>3 DEF SeriesSaid
  <1> QED
    BY <1>1, <1>4, SeriesSame

(* The gauge: the snapshot's if it has one and none said is newer. *)
LEMMA GaugeOneMore ==
  ASSUME NEW l, NEW m, NEW live, NEW n, NEW e, OneMoreEntry(l, m, live, n, e),
         e.snap.native \in Nat, \A j \in live : l[j].snap.native \in Nat
  PROVE  LET takes == e.snap.gauge # None /\ e.snap.native >= GaugeTime(l, live) IN
         /\ takes => /\ GaugeSaid(m, live \cup {n}) = e.snap.gauge
                     /\ GaugeTime(m, live \cup {n}) = e.snap.native
         /\ ~takes => /\ GaugeSaid(m, live \cup {n}) = GaugeSaid(l, live)
                      /\ GaugeTime(m, live \cup {n}) = GaugeTime(l, live)
  <1> DEFINE said == Gaugers(l, live)
             top == Max(LastGauged(l, live))
  <1>1. /\ n \in Nat /\ live \subseteq Nat /\ n \notin live /\ m[n] = e
        /\ \A j \in live : j < n /\ m[j] = l[j]
    BY DEF OneMoreEntry
  <1>2. SameEntries(l, m, live, n)
    BY DEF OneMoreEntry, SameEntries
  <1>3. /\ Gaugers(m, live) = said /\ LastGauged(m, live) = LastGauged(l, live)
        /\ said # {} => top \in LastGauged(l, live)
    BY <1>2, GaugeSame
  <1>4. said \subseteq live /\ LastGauged(l, live) \subseteq said
    BY DEF Gaugers, LastGauged
  <1>5. said # {} => /\ top \in said /\ GaugeTime(l, live) = l[top].snap.native
                     /\ GaugeSaid(l, live) = l[top].snap.gauge
                     /\ \A j \in said : l[j].snap.native <= l[top].snap.native
    BY <1>3, <1>4 DEF GaugeTime, GaugeSaid, LastGauged
  <1>6. said = {} => GaugeTime(l, live) = None /\ GaugeSaid(l, live) = None
    BY DEF GaugeTime, GaugeSaid
  <1> HIDE DEF top, said
  <1>7. \A j \in said : m[j] = l[j] /\ l[j].snap.native \in Nat /\ j \in Nat /\ j < n
    BY <1>1, <1>4
  <1>8. CASE e.snap.gauge = None
    <2>1. Gaugers(m, live \cup {n}) = Gaugers(m, live)
      BY <1>1, <1>8 DEF Gaugers
    <2>2. LastGauged(m, live \cup {n}) = LastGauged(m, live)
      BY <2>1 DEF LastGauged
    <2>3. GaugeSaid(m, live \cup {n}) = GaugeSaid(l, live) /\ GaugeTime(m, live \cup {n}) = GaugeTime(l, live)
      <3>1. GaugeSaid(m, live \cup {n}) = GaugeSaid(m, live) /\ GaugeTime(m, live \cup {n}) = GaugeTime(m, live)
        BY <2>1, <2>2 DEF GaugeSaid, GaugeTime
      <3> QED
        BY <3>1, <1>2, GaugeSame
    <2> QED
      BY <1>8, <2>3
  <1>9. CASE e.snap.gauge # None
    <2>1. Gaugers(m, live \cup {n}) = said \cup {n}
      <3>1. Gaugers(m, live \cup {n}) = Gaugers(m, live) \cup {n}
        BY <1>1, <1>9 DEF Gaugers
      <3> QED
        BY <1>3, <3>1 DEF said
    <2>2. LastGauged(m, live \cup {n}) =
            {j \in said \cup {n} : \A other \in said \cup {n} : m[other].snap.native <= m[j].snap.native}
      BY <2>1 DEF LastGauged
    <2>3. /\ GaugeSaid(m, live \cup {n}) = m[Max(LastGauged(m, live \cup {n}))].snap.gauge
          /\ GaugeTime(m, live \cup {n}) = m[Max(LastGauged(m, live \cup {n}))].snap.native
      BY <2>1 DEF GaugeSaid, GaugeTime
    <2>4. CASE e.snap.native >= GaugeTime(l, live)
      <3>1. \A j \in said : m[j].snap.native <= m[n].snap.native
        <4>1. SUFFICES ASSUME NEW j \in said PROVE m[j].snap.native <= m[n].snap.native
          OBVIOUS
        <4>2. /\ top \in said /\ GaugeTime(l, live) = l[top].snap.native
              /\ l[j].snap.native <= l[top].snap.native /\ l[top].snap.native \in Nat
              /\ l[j].snap.native \in Nat /\ m[j] = l[j]
          BY <1>5, <1>7
        <4> QED
          BY <1>1, <2>4, <4>2
      <3>2. n \in LastGauged(m, live \cup {n})
        <4>1. m[n].snap.native \in Nat
          BY <1>1
        <4>2. m[n].snap.native <= m[n].snap.native
          BY <4>1
        <4>3. \A other \in said \cup {n} : m[other].snap.native <= m[n].snap.native
          BY <3>1, <4>2
        <4> QED
          BY <2>2, <4>3
      <3>3. \A x \in LastGauged(m, live \cup {n}) : x \in Nat /\ x <= n
        BY <1>1, <1>7, <2>2
      <3>4. Max(LastGauged(m, live \cup {n})) = n
        BY <3>2, <3>3, Greatest
      <3> QED
        BY <1>1, <1>9, <2>3, <2>4, <3>4
    <2>5. CASE ~(e.snap.native >= GaugeTime(l, live))
      <3>1. /\ said # {} /\ top \in said /\ GaugeTime(l, live) = l[top].snap.native
            /\ l[top].snap.native \in Nat /\ e.snap.native < l[top].snap.native
        <4>1. said # {}
          BY <1>6, <2>5 DEF None
        <4> QED
          BY <1>5, <1>7, <2>5, <4>1
      <3>2. LastGauged(m, live \cup {n}) = LastGauged(l, live)
        <4>1. LastGauged(l, live) = {j \in said : \A other \in said : l[other].snap.native <= l[j].snap.native}
          BY DEF LastGauged, said
        <4>2. n \notin LastGauged(m, live \cup {n})
          <5>1. m[top].snap.native = l[top].snap.native /\ m[n].snap.native = e.snap.native
            BY <1>1, <1>7, <3>1
          <5>2. ~(m[top].snap.native <= m[n].snap.native)
            BY <3>1, <5>1
          <5> QED
            BY <2>2, <3>1, <5>2
        <4>3. \A j \in said : m[n].snap.native <= m[j].snap.native
                                \/ ~(\A other \in said : l[other].snap.native <= l[j].snap.native)
          <5> SUFFICES ASSUME NEW j \in said, \A other \in said : l[other].snap.native <= l[j].snap.native
                       PROVE  m[n].snap.native <= m[j].snap.native
            OBVIOUS
          <5>1. l[top].snap.native <= l[j].snap.native /\ l[j].snap.native \in Nat
                /\ m[j].snap.native = l[j].snap.native /\ m[n].snap.native = e.snap.native
            BY <1>1, <1>7, <3>1
          <5> QED
            BY <3>1, <5>1
        <4>4. \A j \in said : (\A other \in said : m[other].snap.native <= m[j].snap.native)
                                <=> (\A other \in said : l[other].snap.native <= l[j].snap.native)
          BY <1>7
        <4>5. \A j : j \in LastGauged(m, live \cup {n}) <=>
                        j \in said /\ \A other \in said : l[other].snap.native <= l[j].snap.native
          <5> TAKE j
          <5>1. CASE j = n
            BY <1>1, <1>7, <4>2, <5>1
          <5>2. CASE j # n
            BY <2>2, <4>3, <4>4, <5>2
          <5> QED
            BY <5>1, <5>2
        <4> QED
          BY <4>1, <4>5
      <3>3. m[top] = l[top]
        BY <1>7, <3>1
      <3>4. top = Max(LastGauged(l, live))
        BY DEF top
      <3> QED
        BY <1>5, <2>3, <2>5, <3>1, <3>2, <3>3, <3>4
    <2> QED
      BY <2>4, <2>5
  <1> QED
    BY <1>8, <1>9

(* A bucket with room for the series of a snapshot, and what becomes of it. *)
Fitting(b, snap) ==
  /\ IsBucket(b) /\ IsList(snap.series) /\ snap.native \in Nat
  /\ IsFiniteSet(DOMAIN b.series \cup ToSet(snap.series))
  /\ Cardinality(DOMAIN b.series \cup ToSet(snap.series)) <= SeriesCap
MergedInto(m, added, b, live) ==
  /\ added.refused = 0 /\ IsBucket(added.bucket) /\ added.bucket.start = b.start
  /\ Contents(m, added.bucket, live)

(* A bucket that shows what lives shows the new entry too, once it is merged. *)
LEMMA MergeContents ==
  ASSUME NEW l, NEW m, NEW live, NEW n, NEW e, OneMoreEntry(l, m, live, n, e),
         \A j \in live : l[j].snap.native \in Nat,
         NEW b, Contents(l, b, live), Fitting(b, e.snap)
  PROVE  MergedInto(m, AddAll(b, e.snap), b, live \cup {n})
  <1> DEFINE c == AddAll(b, e.snap).bucket
             h == Header(b, e.snap)
             named == ToSet(e.snap.series)
             more == live \cup {n}
  <1>1. /\ AddAll(b, e.snap).refused = 0
        /\ AddedUpTo(b, e.snap, Len(e.snap.series), c)
        /\ IsBucket(b) /\ IsList(e.snap.series) /\ e.snap.native \in Nat
    BY AddAllExact DEF Fitting
  <1>2. FirstOf(e.snap.series, Len(e.snap.series)) = named
    BY <1>1 DEF FirstOf, ToSet, IsList
  <1>3. /\ IsBucket(c) /\ SameHeader(c, h) /\ DOMAIN c.series = DOMAIN b.series \cup named
        /\ \A d \in named : c.series[d] = Contribute(HeldOf(b, d), KeySaid(e.snap), e.snap.amount)
        /\ \A d \in DOMAIN b.series \ named : c.series[d] = b.series[d]
    BY <1>1, <1>2 DEF AddedUpTo
  <1>4. /\ h.start = b.start /\ h.agents = b.agents \cup {e.snap.agent}
        /\ h.restarted = IF e.snap.restarted THEN b.restarted \cup {e.snap.agent} ELSE b.restarted
        /\ h.gauge = IF TakesGauge(b, e.snap) THEN e.snap.gauge ELSE b.gauge
        /\ h.gaugeFrom = IF TakesGauge(b, e.snap) THEN e.snap.native ELSE b.gaugeFrom
    BY <1>1, HeaderFields
  <1>5. /\ b.agents = {l[j].snap.agent : j \in live}
        /\ b.restarted = {l[j].snap.agent : j \in {x \in live : l[x].snap.restarted}}
        /\ b.gauge = GaugeSaid(l, live) /\ b.gaugeFrom = GaugeTime(l, live)
        /\ DOMAIN b.series = UNION {ToSet(l[j].snap.series) : j \in live}
        /\ \A d \in DOMAIN b.series : b.series[d] = SeriesSaid(l, live, d)
    BY DEF Contents
  <1> HIDE DEF c, h, named
  <1>6. n \notin live /\ m[n] = e /\ \A j \in live : m[j] = l[j]
    BY DEF OneMoreEntry
  <1>7. c.start = b.start /\ c.agents = {m[j].snap.agent : j \in more}
    BY <1>3, <1>4, <1>5, <1>6 DEF SameHeader
  <1>8. c.restarted = {m[j].snap.agent : j \in {x \in more : m[x].snap.restarted}}
    <2>1. CASE e.snap.restarted
      <3>1. {x \in more : m[x].snap.restarted} = {x \in live : l[x].snap.restarted} \cup {n}
        BY <1>6, <2>1
      <3>2. {m[j].snap.agent : j \in {x \in live : l[x].snap.restarted} \cup {n}}
              = {l[j].snap.agent : j \in {x \in live : l[x].snap.restarted}} \cup {e.snap.agent}
        BY <1>6
      <3> QED
        BY <1>3, <1>4, <1>5, <2>1, <3>1, <3>2 DEF SameHeader
    <2>2. CASE ~e.snap.restarted
      <3>1. {x \in more : m[x].snap.restarted} = {x \in live : l[x].snap.restarted}
        BY <1>6, <2>2
      <3>2. {m[j].snap.agent : j \in {x \in live : l[x].snap.restarted}}
              = {l[j].snap.agent : j \in {x \in live : l[x].snap.restarted}}
        BY <1>6
      <3> QED
        BY <1>3, <1>4, <1>5, <2>2, <3>1, <3>2 DEF SameHeader
    <2> QED
      BY <2>1, <2>2
  <1>9. c.gauge = GaugeSaid(m, more) /\ c.gaugeFrom = GaugeTime(m, more)
    <2>1. TakesGauge(b, e.snap) <=> e.snap.gauge # None /\ e.snap.native >= GaugeTime(l, live)
      BY <1>5 DEF TakesGauge
    <2>2. CASE TakesGauge(b, e.snap)
      <3>1. e.snap.gauge # None /\ e.snap.native >= GaugeTime(l, live) /\ e.snap.native \in Nat
        BY <1>1, <2>1, <2>2
      <3>2. GaugeSaid(m, more) = e.snap.gauge /\ GaugeTime(m, more) = e.snap.native
        BY <3>1, GaugeOneMore
      <3> QED
        BY <1>3, <1>4, <2>2, <3>2 DEF SameHeader
    <2>3. CASE ~TakesGauge(b, e.snap)
      BY <1>3, <1>4, <1>5, <1>1, <2>1, <2>3, GaugeOneMore DEF SameHeader
    <2> QED
      BY <2>2, <2>3
  <1>10. DOMAIN c.series = UNION {ToSet(m[j].snap.series) : j \in more}
    BY <1>3, <1>5, <1>6 DEF named
  <1>11. ASSUME NEW d \in DOMAIN c.series PROVE c.series[d] = SeriesSaid(m, more, d)
    <2>1. CASE d \in named
      <3>1. c.series[d] = Contribute(HeldOf(b, d), KeySaid(e.snap), e.snap.amount)
        BY <1>3, <2>1
      <3>2. /\ DOMAIN HeldOf(b, d) = DOMAIN SeriesSaid(l, live, d)
            /\ \A key \in DOMAIN HeldOf(b, d) : HeldOf(b, d)[key] = SeriesSaid(l, live, d)[key]
        <4>1. CASE d \in DOMAIN b.series
          <5>1. HeldOf(b, d) = SeriesSaid(l, live, d)
            BY <1>5, <4>1 DEF HeldOf
          <5> QED
            BY <5>1
        <4>2. CASE d \notin DOMAIN b.series
          <5>1. Namers(l, live, d) = {}
            BY <1>5, <4>2 DEF Namers
          <5>2. DOMAIN SeriesSaid(l, live, d) = {}
            BY <5>1 DEF SeriesSaid
          <5>3. HeldOf(b, d) = <<>>
            BY <4>2 DEF HeldOf
          <5> QED
            BY <5>2, <5>3
        <4> QED
          BY <4>1, <4>2
      <3>3. d \in ToSet(e.snap.series)
        BY <2>1 DEF named
      <3>4. PICK held : held = HeldOf(b, d)
        OBVIOUS
      <3> QED
        BY <3>1, <3>2, <3>3, <3>4, SeriesOneMore
    <2>2. CASE d \notin named
      <3>1. d \in DOMAIN b.series /\ c.series[d] = SeriesSaid(l, live, d)
        BY <1>3, <1>5, <1>11, <2>2
      <3>2. d \notin ToSet(e.snap.series)
        BY <2>2 DEF named
      <3> QED
        BY <3>1, <3>2, SeriesNotNamed
    <2> QED
      BY <2>1, <2>2
  <1>12. Contents(m, c, more)
    BY <1>7, <1>8, <1>9, <1>10, <1>11 DEF Contents
  <1> QED
    BY <1>1, <1>3, <1>7, <1>12 DEF c, MergedInto

LEMMA ContentsSame ==
  ASSUME NEW l, NEW m, NEW live, NEW n, SameEntries(l, m, live, n),
         \A j \in live : l[j].snap.native \in Nat, NEW b, Contents(l, b, live)
  PROVE  Contents(m, b, live)
  <1>1. \A j \in live : m[j] = l[j]
    BY DEF SameEntries
  <1>2. {m[j].snap.agent : j \in live} = {l[j].snap.agent : j \in live}
    BY <1>1
  <1>3. {m[j].snap.agent : j \in {x \in live : m[x].snap.restarted}}
          = {l[j].snap.agent : j \in {x \in live : l[x].snap.restarted}}
    BY <1>1
  <1>4. UNION {ToSet(m[j].snap.series) : j \in live} = UNION {ToSet(l[j].snap.series) : j \in live}
    BY <1>1
  <1>5. \A d : SeriesSaid(m, live, d) = SeriesSaid(l, live, d)
    BY SeriesSame
  <1>6. GaugeSaid(m, live) = GaugeSaid(l, live) /\ GaugeTime(m, live) = GaugeTime(l, live)
    BY GaugeSame
  <1> QED
    BY <1>2, <1>3, <1>4, <1>5, <1>6 DEF Contents
-----------------------------------------------------------------------------
(* What lives once an entry is appended to the log. *)

LEMMA LivingAppend ==
  ASSUME NEW S, NEW l \in Seq(S), NEW e, NEW i, NEW k
  PROVE  /\ Wipes(e, i, k) => Living(Append(l, e), i, k) = {}
         /\ ~Wipes(e, i, k) /\ Adds(e, i, k) =>
              Living(Append(l, e), i, k) = Living(l, i, k) \cup {Len(l) + 1}
         /\ ~Wipes(e, i, k) /\ ~Adds(e, i, k) => Living(Append(l, e), i, k) = Living(l, i, k)
  <1>1. PICK m, n : m = Append(l, e) /\ n = Len(l) + 1
    OBVIOUS
  <1>2. /\ n \in Nat /\ DOMAIN m = 1 .. n /\ Len(m) = n /\ DOMAIN l = 1 .. (n - 1) /\ Len(l) = n - 1
        /\ m[n] = e /\ \A j \in 1 .. (n - 1) : m[j] = l[j]
    BY <1>1
  <1>3. Wipes(e, i, k) => Living(m, i, k) = {}
    <2>1. \A j \in DOMAIN m : n \in j .. Len(m)
      BY <1>2
    <2> QED
      BY <1>2, <2>1 DEF Living
  <1>4. ASSUME ~Wipes(e, i, k), NEW j \in 1 .. (n - 1)
        PROVE  j \in Living(m, i, k) <=> j \in Living(l, i, k)
    <2>1. j .. n = j .. (n - 1) \cup {n}
      BY <1>2
    <2>2. \A later \in j .. (n - 1) : m[later] = l[later]
      BY <1>2
    <2>3. (\A later \in j .. n : ~Wipes(m[later], i, k)) <=> (\A later \in j .. (n - 1) : ~Wipes(l[later], i, k))
      BY <1>2, <1>4, <2>1, <2>2
    <2>4. m[j] = l[j] /\ j \in DOMAIN m /\ j \in DOMAIN l
      BY <1>2
    <2> QED
      BY <1>2, <2>3, <2>4 DEF Living
  <1>5. ASSUME ~Wipes(e, i, k) PROVE n \in Living(m, i, k) <=> Adds(e, i, k)
    <2>1. n \in DOMAIN m /\ n .. Len(m) = {n}
      BY <1>2
    <2> QED
      BY <1>2, <1>5, <2>1 DEF Living
  <1>6. Living(m, i, k) \subseteq 1 .. (n - 1) \cup {n} /\ Living(l, i, k) \subseteq 1 .. (n - 1)
    <2>1. 1 .. n = 1 .. (n - 1) \cup {n}
      BY <1>2
    <2> QED
      BY <1>2, <2>1 DEF Living
  <1>7. n \notin 1 .. (n - 1)
    BY <1>2
  <1> QED
    BY <1>1, <1>3, <1>4, <1>5, <1>6, <1>7

LEMMA RingsShowNext ==
  ASSUME \A i \in Instances, k \in Nat : Shows(log', rings'[i][k % Capacity], k, Living(log', i, k))
  PROVE  RingsShow'
  BY DEF RingsShow

(* A bucket that starts before a bound is cleared, as by _evict_stale and by
   _shed_oldest_tier: what lived in older buckets does not any more. *)
LEMMA CutShows ==
  ASSUME NEW l, NEW b, IsBucket(b), NEW bound \in Int, NEW k \in Nat, NEW live, Shows(l, b, k, live),
         NEW c, c = IF b.start < bound THEN Unused ELSE b
  PROVE  /\ IsBucket(c)
         /\ k < bound => Shows(l, c, k, {})
         /\ ~(k < bound) => Shows(l, c, k, live)
  <1>1. IsBucket(Unused) /\ Unused.start = None
    BY DEF IsBucket, Unused, None
  <1>2. CASE b.start < bound
    <2>1. c = Unused /\ c.start # k
      BY <1>1, <1>2 DEF None
    <2>2. ~(k < bound) => live = {}
      BY <1>2 DEF Shows
    <2> QED
      BY <1>1, <2>1, <2>2 DEF Shows
  <1>3. CASE ~(b.start < bound)
    <2>1. c = b
      BY <1>3
    <2>2. k < bound => b.start # k
      BY <1>3
    <2> QED
      BY <2>1, <2>2 DEF Shows
  <1> QED
    BY <1>2, <1>3

LEMMA ShedBeforeType == \A t \in Nat : ShedBefore(t) \in Int
  <1>1. Capacity \div 2 \in Nat
    BY StoreAssumption
  <1>2. PICK half \in Nat : half = Capacity \div 2
    BY <1>1
  <1>3. \E x \in {half, 1} : \A y \in {half, 1} : x >= y
    <2>1. CASE half >= 1
      BY <2>1
    <2>2. CASE ~(half >= 1)
      BY <2>2
    <2> QED
      BY <2>1, <2>2
  <1>4. Max({half, 1}) \in {half, 1}
    BY <1>3 DEF Max
  <1> QED
    BY <1>2, <1>4, IndexType DEF ShedBefore

LEMMA SnapshotTypes ==
  \A snap \in Snapshots : IsSnapshot(snap) /\ snap.instance \in Instances
                          /\ snap.native \in Nat /\ IsList(snap.series) /\ Index(snap.native) \in Nat
  BY IngestionAssumption, IndexType DEF Snapshots, IsSnapshot

(* The log, its entries and what lives in it. *)
LEMMA LogGrows ==
  ASSUME LogTypes, NEW e, e.snap \in Snapshots, e.at \in Nat, log' = Append(log, e)
  PROVE  /\ LogTypes' /\ Len(log) + 1 \in Nat
         /\ \A i, k : /\ SameEntries(log, log', Living(log, i, k), Len(log) + 1)
                      /\ OneMoreEntry(log, log', Living(log, i, k), Len(log) + 1, e)
                      /\ \A j \in Living(log, i, k) : log[j].snap.native \in Nat
         /\ \A i, k : /\ Wipes(e, i, k) => Living(log', i, k) = {}
                      /\ ~Wipes(e, i, k) /\ Adds(e, i, k) =>
                           Living(log', i, k) = Living(log, i, k) \cup {Len(log) + 1}
                      /\ ~Wipes(e, i, k) /\ ~Adds(e, i, k) => Living(log', i, k) = Living(log, i, k)
  <1>1. PICK S : log \in Seq(S)
    BY DEF LogTypes
  <1>2. PICK m, n : m = log' /\ n = Len(log) + 1
    OBVIOUS
  <1>3. log \in Seq(S \cup {e}) /\ m \in Seq(S \cup {e})
    BY <1>1, <1>2
  <1>4. /\ n \in Nat /\ DOMAIN m = 1 .. n /\ DOMAIN log = 1 .. (n - 1)
        /\ m[n] = e /\ \A j \in 1 .. (n - 1) : m[j] = log[j]
    BY <1>1, <1>2
  <1>5. \A j \in DOMAIN log : log[j].snap \in Snapshots /\ log[j].at \in Nat
    BY DEF LogTypes
  <1>6. \A j \in 1 .. n : j \in 1 .. (n - 1) \/ j = n
    BY <1>4
  <1>7. \A j \in DOMAIN m : m[j].snap \in Snapshots /\ m[j].at \in Nat
    BY <1>4, <1>5, <1>6
  <1>8. LogTypes'
    BY <1>2, <1>3, <1>7 DEF LogTypes
  <1>9. \A i, k : \A j \in Living(log, i, k) : j \in Nat /\ j < n /\ m[j] = log[j] /\ log[j].snap.native \in Nat
    <2>1. \A i, k : Living(log, i, k) \subseteq DOMAIN log
      BY DEF Living
    <2>2. \A j \in DOMAIN log : j \in Nat /\ j < n /\ m[j] = log[j] /\ log[j].snap.native \in Nat
      BY <1>4, <1>5, SnapshotTypes
    <2> QED
      BY <2>1, <2>2
  <1>10. \A i, k : /\ SameEntries(log, m, Living(log, i, k), n)
                   /\ OneMoreEntry(log, m, Living(log, i, k), n, e)
    BY <1>4, <1>9 DEF SameEntries, OneMoreEntry
  <1>11. m = Append(log, e)
    BY <1>2
  <1> QED
    BY <1>1, <1>2, <1>4, <1>8, <1>9, <1>10, <1>11, LivingAppend

(* What a bucket shows does not depend on the entries behind. *)
LEMMA ShowsSame ==
  ASSUME LogTypes, NEW e, e.snap \in Snapshots, e.at \in Nat, log' = Append(log, e),
         NEW i, NEW k, NEW b, Shows(log, b, k, Living(log, i, k))
  PROVE  Shows(log', b, k, Living(log, i, k))
  <1>1. PICK m, live : m = log' /\ live = Living(log, i, k)
    OBVIOUS
  <1>2. SameEntries(log, m, live, Len(log) + 1) /\ \A j \in live : log[j].snap.native \in Nat
    BY <1>1, LogGrows
  <1>3. Contents(log, b, live) => Contents(m, b, live)
    BY <1>2, ContentsSame
  <1> QED
    BY <1>1, <1>3 DEF Shows

LEMMA DiscardKeeps ==
  ASSUME RingTypes, LogTypes, DroppedTypes, RingsShow, NEW snap \in Snapshots, NEW now \in Nat, Discard(snap, now)
  PROVE  RingTypes' /\ LogTypes' /\ RingsShow' /\ DroppedTypes' /\ dropped'.cap = dropped.cap
  <1> DEFINE e == Entry(snap, now, FALSE, FALSE)
  <1>1. log' = Append(log, e) /\ UNCHANGED rings /\ TooOld(snap, now)
    BY DEF Discard
  <1>2. e.snap = snap /\ e.at = now /\ e.kept = FALSE /\ e.shed = FALSE
    BY DEF Entry
  <1> HIDE DEF e
  <1>3. \A i, k : ~Wipes(e, i, k) /\ ~Adds(e, i, k)
    BY <1>1, <1>2 DEF Wipes, Adds
  <1>4. ASSUME NEW i \in Instances, NEW k \in Nat
        PROVE  Shows(log', rings'[i][k % Capacity], k, Living(log', i, k))
    <2>1. Living(log', i, k) = Living(log, i, k)
      BY <1>1, <1>2, <1>3, LogGrows
    <2>2. Shows(log, rings[i][k % Capacity], k, Living(log, i, k))
      BY DEF RingsShow
    <2>3. Shows(log', rings[i][k % Capacity], k, Living(log, i, k))
      BY <1>1, <1>2, <2>2, ShowsSame
    <2> QED
      BY <1>1, <2>1, <2>3
  <1>5. RingsShow'
    BY <1>4, RingsShowNext
  <1>6. RingTypes' /\ LogTypes'
    BY <1>1, <1>2, LogGrows DEF RingTypes
  <1>7. DroppedTypes' /\ dropped'.cap = dropped.cap
    BY DEF Discard, DroppedTypes
  <1> QED
    BY <1>5, <1>6, <1>7

LEMMA UnretainedKeeps ==
  ASSUME RingTypes, LogTypes, DroppedTypes, RingsShow, NEW snap \in Snapshots, NEW now \in Nat, Unretained(snap, now)
  PROVE  RingTypes' /\ LogTypes' /\ RingsShow' /\ DroppedTypes' /\ dropped'.cap = dropped.cap
  <1> DEFINE e == Entry(snap, now, FALSE, FALSE)
  <1>1. PICK own : own = snap.instance
    OBVIOUS
  <1>2. /\ log' = Append(log, e) /\ ~TooOld(snap, now)
        /\ rings' = [rings EXCEPT ![own] = EvictStale(rings[own], now)]
    BY <1>1 DEF Unretained
  <1>3. e.snap = snap /\ e.at = now /\ e.kept = FALSE /\ e.shed = FALSE
    BY DEF Entry
  <1> HIDE DEF e
  <1>4. \A i, k : ~Adds(e, i, k) /\ (Wipes(e, i, k) <=> i = own /\ k < Oldest(now))
    BY <1>1, <1>2, <1>3 DEF Wipes, Adds
  <1>5. /\ DOMAIN rings = Instances /\ DOMAIN rings' = Instances
        /\ \A i \in Instances : i # own => rings'[i] = rings[i]
        /\ own \in Instances => rings'[own] = EvictStale(rings[own], now)
    BY <1>2 DEF RingTypes
  <1>6. \A s \in Slots : EvictStale(rings[own], now)[s]
                           = IF rings[own][s].start < Oldest(now) THEN Unused ELSE rings[own][s]
    BY DEF EvictStale
  <1>7. Oldest(now) \in Int
    BY OldestType
  <1>8. ASSUME NEW i \in Instances, NEW k \in Nat
        PROVE  Shows(log', rings'[i][k % Capacity], k, Living(log', i, k))
    <2>1. PICK m, b, live : m = log' /\ b = rings[i][k % Capacity] /\ live = Living(log, i, k)
      OBVIOUS
    <2>2. Shows(m, b, k, live)
      <3>1. Shows(log, b, k, Living(log, i, k))
        BY <2>1 DEF RingsShow
      <3> QED
        BY <1>2, <1>3, <2>1, <3>1, ShowsSame
    <2>3. IsBucket(b)
      BY <2>1, SlotType DEF RingTypes
    <2>4. CASE i # own
      <3>1. Living(log', i, k) = live
        BY <1>2, <1>3, <1>4, <2>1, <2>4, LogGrows
      <3>2. rings'[i][k % Capacity] = b
        BY <1>5, <2>1, <2>4
      <3> QED
        BY <2>1, <2>2, <3>1, <3>2
    <2>5. CASE i = own
      <3>1. PICK c : c = IF b.start < Oldest(now) THEN Unused ELSE b
        OBVIOUS
      <3>2. rings'[i][k % Capacity] = c
        BY <1>5, <1>6, <2>1, <2>5, <3>1, SlotType
      <3>3. /\ k < Oldest(now) => Shows(m, c, k, {})
            /\ ~(k < Oldest(now)) => Shows(m, c, k, live)
        BY <1>7, <2>2, <2>3, <3>1, CutShows
      <3>4. /\ k < Oldest(now) => Living(log', i, k) = {}
            /\ ~(k < Oldest(now)) => Living(log', i, k) = live
        BY <1>2, <1>3, <1>4, <2>1, <2>5, LogGrows
      <3> QED
        BY <2>1, <3>2, <3>3, <3>4
    <2> QED
      BY <2>4, <2>5
  <1>9. RingsShow'
    BY <1>8, RingsShowNext
  <1>10. IsBucket(Unused)
    BY DEF IsBucket, Unused, None
  <1>11. ASSUME NEW i \in Instances
         PROVE  DOMAIN rings'[i] = Slots /\ \A s \in Slots : IsBucket(rings'[i][s])
    <2>1. DOMAIN rings[i] = Slots /\ \A s \in Slots : IsBucket(rings[i][s])
      BY DEF RingTypes
    <2>2. CASE i # own
      BY <1>5, <2>1, <2>2
    <2>3. CASE i = own
      <3>1. DOMAIN EvictStale(rings[own], now) = Slots
        BY DEF EvictStale
      <3> QED
        BY <1>5, <1>6, <1>10, <2>1, <2>3, <3>1
    <2> QED
      BY <2>2, <2>3
  <1>12. RingTypes'
    BY <1>5, <1>11 DEF RingTypes
  <1>13. LogTypes'
    BY <1>2, <1>3, LogGrows
  <1>14. DroppedTypes' /\ dropped'.cap = dropped.cap
    BY DEF Unretained, DroppedTypes
  <1> QED
    BY <1>9, <1>12, <1>13, <1>14

(* The series a bucket has, with those of a snapshot about to be merged. *)
NamedIn(live) == UNION {ToSet(log[j].snap.series) : j \in live}
NamedWith(snap) ==
  NamedIn(Living(log, snap.instance, Index(snap.native))) \cup ToSet(snap.series)
RoomFor(snap) == IsFiniteSet(NamedWith(snap)) /\ Cardinality(NamedWith(snap)) <= SeriesCap

LEMMA OwnBucket ==
  ASSUME NEW l, NEW ring, NEW k \in Nat, IsBucket(ring[k % Capacity]), NEW live,
         Shows(l, ring[k % Capacity], k, live)
  PROVE  LET b == GetBucket(ring, k) IN IsBucket(b) /\ b.start = k /\ Contents(l, b, live)
  <1> DEFINE b == GetBucket(ring, k)
             fresh == [Unused EXCEPT !.start = k]
  <1>1. CASE ring[k % Capacity].start = k
    BY <1>1 DEF Shows, GetBucket
  <1>2. CASE ring[k % Capacity].start # k
    <2>1. live = {} /\ b = fresh
      BY <1>2 DEF Shows, GetBucket
    <2>0. PICK empty : empty = <<>>
      OBVIOUS
    <2>2. fresh = [start |-> k, series |-> empty, gauge |-> None, gaugeFrom |-> None,
                   agents |-> {}, restarted |-> {}]
      <3>1. Unused = [start |-> None, series |-> empty, gauge |-> None, gaugeFrom |-> None,
                      agents |-> {}, restarted |-> {}]
        BY <2>0 DEF Unused
      <3> QED
        BY <3>1
    <2>3. DOMAIN fresh.series = {}
      BY <2>0, <2>2
    <2>4. Gaugers(l, {}) = {}
      BY DEF Gaugers
    <2>5. Contents(l, fresh, {})
      BY <2>2, <2>3, <2>4 DEF Contents, GaugeSaid, GaugeTime
    <2>6. IsBucket(fresh) /\ fresh.start = k
      BY <2>2 DEF IsBucket
    <2> QED
      BY <2>1, <2>5, <2>6
  <1> QED
    BY <1>1, <1>2

LEMMA MergeKeeps ==
  ASSUME RingTypes, LogTypes, DroppedTypes, RingsShow,
         NEW snap \in Snapshots, NEW now \in Nat, Merge(snap, now), RoomFor(snap)
  PROVE  RingTypes' /\ LogTypes' /\ RingsShow' /\ DroppedTypes' /\ dropped'.cap = dropped.cap
  <1>1. PICK own, k0, n : own = snap.instance /\ k0 = Index(snap.native) /\ n = Len(log) + 1
    OBVIOUS
  <1>2. own \in Instances /\ k0 \in Nat /\ snap.native \in Nat /\ IsList(snap.series)
    BY <1>1, SnapshotTypes
  <1>3. PICK ring : ring = EvictStale(rings[own], now)
    OBVIOUS
  <1>4. PICK added : added = AddAll(GetBucket(ring, k0), snap)
    OBVIOUS
  <1>5. PICK merged : merged = [rings EXCEPT ![own] = [ring EXCEPT ![k0 % Capacity] = added.bucket]]
    OBVIOUS
  <1> DEFINE shed == CheckDue(now) /\ Estimate(merged) >= MemoryShed
             bound == ShedBefore(now)
  <1>6. /\ ~TooOld(snap, now) /\ k0 >= Oldest(now)
        /\ rings' = IF shed THEN Shed(merged, now) ELSE merged
        /\ dropped' = [dropped EXCEPT !.cap = @ + added.refused]
        /\ log' = Append(log, Entry(snap, now, TRUE, shed))
    BY <1>1, <1>3, <1>4, <1>5 DEF Merge
  <1> HIDE DEF shed
  <1>7. PICK e : e = Entry(snap, now, TRUE, shed)
    OBVIOUS
  <1>8. log' = Append(log, e) /\ e.snap = snap /\ e.at = now /\ e.kept /\ (e.shed <=> shed)
    <2>1. e.snap = snap /\ e.at = now /\ e.kept = TRUE /\ e.shed = shed
      BY <1>7 DEF Entry
    <2> QED
      BY <1>6, <1>7, <2>1
  <1>9. /\ Oldest(now) \in Int /\ bound \in Int /\ Oldest(now) <= k0
    BY <1>2, <1>6, OldestType, ShedBeforeType
  <1>10. \A i, k : Adds(e, i, k) <=> i = own /\ k = k0
    BY <1>1, <1>8 DEF Adds
  <1>11. \A i, k : Wipes(e, i, k) <=>
           \/ i = own /\ k < Oldest(now)
           \/ i = own /\ k # k0 /\ k0 % Capacity = k % Capacity
           \/ shed /\ k < bound
    BY <1>1, <1>6, <1>8 DEF Wipes
  <1>12. \A i, k : /\ Wipes(e, i, k) => Living(log', i, k) = {}
                   /\ ~Wipes(e, i, k) /\ Adds(e, i, k) => Living(log', i, k) = Living(log, i, k) \cup {n}
                   /\ ~Wipes(e, i, k) /\ ~Adds(e, i, k) => Living(log', i, k) = Living(log, i, k)
    BY <1>1, <1>8, LogGrows
  <1>13. /\ DOMAIN rings = Instances
         /\ \A i \in Instances : DOMAIN rings[i] = Slots /\ \A s \in Slots : IsBucket(rings[i][s])
    BY DEF RingTypes
  <1>14. DOMAIN ring = Slots /\ \A s \in Slots : ring[s] = IF rings[own][s].start < Oldest(now)
                                                           THEN Unused ELSE rings[own][s]
    BY <1>3 DEF EvictStale
  <1>15. \A s \in Slots : IsBucket(ring[s])
    <2>1. IsBucket(Unused)
      BY DEF IsBucket, Unused, None
    <2> QED
      BY <1>2, <1>13, <1>14, <2>1
  <1>16. ASSUME NEW i \in Instances, NEW k \in Nat
         PROVE  Shows(log', rings[i][k % Capacity], k, Living(log, i, k))
    <2>1. Shows(log, rings[i][k % Capacity], k, Living(log, i, k))
      BY DEF RingsShow
    <2> QED
      BY <1>8, <2>1, ShowsSame
  <1>17. ASSUME NEW l, NEW k \in Nat, NEW live, Shows(l, rings[own][k % Capacity], k, live)
         PROVE  /\ k < Oldest(now) => Shows(l, ring[k % Capacity], k, {})
                /\ ~(k < Oldest(now)) => Shows(l, ring[k % Capacity], k, live)
    <2>1. PICK b, c : b = rings[own][k % Capacity] /\ c = ring[k % Capacity]
      OBVIOUS
    <2>2. IsBucket(b) /\ c = IF b.start < Oldest(now) THEN Unused ELSE b
      BY <1>2, <1>13, <1>14, <2>1, SlotType
    <2> QED
      BY <1>9, <1>17, <2>1, <2>2, CutShows
  <1>18. PICK live0 : live0 = Living(log, own, k0)
    OBVIOUS
  <1>19. /\ added.refused = 0 /\ IsBucket(added.bucket) /\ added.bucket.start = k0
         /\ Contents(log', added.bucket, live0 \cup {n})
    <2>1. PICK b : b = GetBucket(ring, k0)
      OBVIOUS
    <2>2. Shows(log, rings[own][k0 % Capacity], k0, live0)
      BY <1>2, <1>18 DEF RingsShow
    <2>3. Shows(log, ring[k0 % Capacity], k0, live0)
      BY <1>2, <1>9, <1>17, <2>2
    <2>4. IsBucket(b) /\ b.start = k0 /\ Contents(log, b, live0)
      BY <1>2, <1>15, <2>1, <2>3, OwnBucket, SlotType
    <2>5. DOMAIN b.series \cup ToSet(snap.series) = NamedWith(snap)
      <3>1. DOMAIN b.series = NamedIn(live0)
        BY <2>4 DEF Contents, NamedIn
      <3> QED
        BY <1>1, <1>18, <3>1 DEF NamedWith
    <2>6. OneMoreEntry(log, log', live0, n, e) /\ \A j \in live0 : log[j].snap.native \in Nat
      BY <1>1, <1>8, <1>18, LogGrows
    <2>7. PICK m : m = log'
      OBVIOUS
    <2>8. /\ AddAll(b, e.snap).refused = 0 /\ IsBucket(AddAll(b, e.snap).bucket)
          /\ AddAll(b, e.snap).bucket.start = b.start
          /\ Contents(m, AddAll(b, e.snap).bucket, live0 \cup {n})
      <3>1. /\ e.snap.native \in Nat /\ IsList(e.snap.series)
            /\ IsFiniteSet(DOMAIN b.series \cup ToSet(e.snap.series))
            /\ Cardinality(DOMAIN b.series \cup ToSet(e.snap.series)) <= SeriesCap
        BY <1>2, <1>8, <2>5 DEF RoomFor
      <3>2. OneMoreEntry(log, m, live0, n, e)
        BY <2>6, <2>7
      <3>3. \A j \in live0 : log[j].snap.native \in Nat
        BY <2>6
      <3>4. Fitting(b, e.snap)
        BY <2>4, <3>1 DEF Fitting
      <3>5. MergedInto(m, AddAll(b, e.snap), b, live0 \cup {n})
        BY <2>4, <3>2, <3>3, <3>4, MergeContents
      <3> QED
        BY <3>5 DEF MergedInto
    <2> QED
      BY <1>4, <1>8, <2>1, <2>4, <2>7, <2>8
  <1>20. /\ DOMAIN merged = Instances
         /\ \A i \in Instances : i # own => merged[i] = rings[i]
         /\ DOMAIN merged[own] = Slots
         /\ \A s \in Slots : s # k0 % Capacity => merged[own][s] = ring[s]
         /\ merged[own][k0 % Capacity] = added.bucket
    BY <1>2, <1>5, <1>13, <1>14, SlotType
  <1>21. \A i \in Instances : DOMAIN merged[i] = Slots /\ \A s \in Slots : IsBucket(merged[i][s])
    BY <1>13, <1>15, <1>19, <1>20
  (* What every slot shows before the memory check. *)
  <1>22. ASSUME NEW i \in Instances, NEW k \in Nat
         PROVE  /\ Wipes(e, i, k) /\ ~(shed /\ k < bound) => Shows(log', merged[i][k % Capacity], k, {})
                /\ ~Wipes(e, i, k) => Shows(log', merged[i][k % Capacity], k, Living(log', i, k))
                /\ shed /\ k < bound => \E live : Shows(log', merged[i][k % Capacity], k, live)
    <2>1. PICK s, live, m : s = k % Capacity /\ live = Living(log, i, k) /\ m = log'
      OBVIOUS
    <2>2. s \in Slots
      BY <2>1, SlotType
    <2>3. Shows(m, rings[i][s], k, live)
      BY <1>16, <2>1
    <2>4. CASE i # own
      <3>1. merged[i][s] = rings[i][s] /\ ~Adds(e, i, k) /\ (Wipes(e, i, k) <=> shed /\ k < bound)
        BY <1>10, <1>11, <1>20, <2>4
      <3> QED
        BY <1>12, <2>1, <2>3, <3>1
    <2>5. CASE i = own /\ s # k0 % Capacity
      <3>1. k # k0 /\ merged[i][s] = ring[s]
        BY <1>20, <2>1, <2>2, <2>5
      <3>2. ~Adds(e, i, k) /\ (Wipes(e, i, k) <=> k < Oldest(now) \/ (shed /\ k < bound))
        BY <1>10, <1>11, <2>1, <2>5, <3>1
      <3>3. /\ k < Oldest(now) => Shows(m, ring[s], k, {})
            /\ ~(k < Oldest(now)) => Shows(m, ring[s], k, live)
        BY <1>17, <2>1, <2>3, <2>5
      <3> QED
        BY <1>12, <2>1, <3>1, <3>2, <3>3
    <2>6. CASE i = own /\ s = k0 % Capacity /\ k # k0
      <3>1. merged[i][s] = added.bucket /\ Wipes(e, i, k)
        BY <1>11, <1>20, <2>1, <2>6
      <3>2. Shows(m, added.bucket, k, {})
        BY <1>19, <2>6 DEF Shows
      <3> QED
        BY <2>1, <3>1, <3>2
    <2>7. CASE i = own /\ k = k0
      <3>1. merged[i][s] = added.bucket /\ Adds(e, i, k) /\ ~(k < Oldest(now))
        BY <1>9, <1>10, <1>20, <2>1, <2>7
      <3>2. Wipes(e, i, k) <=> shed /\ k < bound
        BY <1>11, <2>7, <3>1
      <3>3. Shows(m, added.bucket, k, live0 \cup {n})
        BY <1>19, <2>1, <2>7 DEF Shows
      <3> QED
        BY <1>12, <1>18, <2>1, <2>7, <3>1, <3>2, <3>3
    <2> QED
      BY <2>1, <2>4, <2>5, <2>6, <2>7
  <1>23. ASSUME shed PROVE RingTypes' /\ RingsShow'
    <2>1. /\ DOMAIN rings' = Instances
          /\ \A i \in Instances :
               /\ DOMAIN rings'[i] = Slots
               /\ \A s \in Slots :
                    rings'[i][s] = IF merged[i][s].start < bound THEN Unused ELSE merged[i][s]
      BY <1>6, <1>23 DEF Shed
    <2>2. ASSUME NEW i \in Instances, NEW s \in Slots PROVE IsBucket(rings'[i][s])
      <3>1. IsBucket(Unused)
        BY DEF IsBucket, Unused, None
      <3> QED
        BY <1>21, <2>1, <3>1
    <2>3. ASSUME NEW i \in Instances, NEW k \in Nat
          PROVE  Shows(log', rings'[i][k % Capacity], k, Living(log', i, k))
      <3>1. PICK b, c, m : b = merged[i][k % Capacity] /\ c = rings'[i][k % Capacity] /\ m = log'
        OBVIOUS
      <3>2. IsBucket(b) /\ c = IF b.start < bound THEN Unused ELSE b
        BY <1>21, <2>1, <3>1, SlotType
      <3>3. \A live : Shows(m, b, k, live) =>
              /\ k < bound => Shows(m, c, k, {})
              /\ ~(k < bound) => Shows(m, c, k, live)
        BY <1>9, <3>2, CutShows
      <3>4. CASE k < bound
        <4>1. \E live : Shows(m, b, k, live)
          BY <1>22, <1>23, <3>1, <3>4
        <4>2. Living(log', i, k) = {}
          BY <1>11, <1>12, <1>23, <3>4
        <4> QED
          BY <3>1, <3>3, <3>4, <4>1, <4>2
      <3>5. CASE ~(k < bound)
        <4>1. Shows(m, b, k, Living(log', i, k))
          BY <1>12, <1>22, <3>1, <3>5
        <4> QED
          BY <3>1, <3>3, <3>5, <4>1
      <3> QED
        BY <3>4, <3>5
    <2>4. RingsShow'
      BY <2>3, RingsShowNext
    <2>5. RingTypes'
      BY <2>1, <2>2 DEF RingTypes
    <2> QED
      BY <2>4, <2>5
  <1>24. ASSUME ~shed PROVE RingTypes' /\ RingsShow'
    <2>1. rings' = merged
      BY <1>6, <1>24
    <2>2. ASSUME NEW i \in Instances, NEW k \in Nat
          PROVE  Shows(log', rings'[i][k % Capacity], k, Living(log', i, k))
      BY <1>12, <1>22, <1>24, <2>1
    <2>3. RingsShow'
      BY <2>2, RingsShowNext
    <2>4. RingTypes'
      BY <1>20, <1>21, <2>1 DEF RingTypes
    <2> QED
      BY <2>3, <2>4
  <1>25. LogTypes'
    BY <1>8, LogGrows
  <1>26. DroppedTypes' /\ dropped'.cap = dropped.cap
    <2>1. dropped.cap \in Nat /\ "cap" \in DOMAIN dropped
      BY DEF DroppedTypes
    <2>2. dropped' = [dropped EXCEPT !.cap = dropped.cap]
      BY <1>6, <1>19, <2>1
    <2>3. dropped' = dropped
      BY <2>2 DEF DroppedTypes
    <2> QED
      BY <2>3 DEF DroppedTypes
  <1> QED
    BY <1>23, <1>24, <1>25, <1>26
-----------------------------------------------------------------------------
(* What the rings show is what the store promises. *)

LEMMA SameWords ==
  /\ \A i, k : LiveMerges(i, k) = Living(log, i, k)
  /\ \A live, d : Naming(live, d) = Namers(log, live, d)
  /\ \A live, d : ExpectedSeries(live, d) = SeriesSaid(log, live, d)
  /\ \A live : ExpectedGauge(live) = GaugeSaid(log, live)
  <1>1. \A i, k : LiveMerges(i, k) = Living(log, i, k)
    <2>1. \A j, i, k : WipedBy(j, i, k) <=> Wipes(log[j], i, k)
      BY DEF WipedBy, Wipes, At
    <2>2. \A j, i, k : (log[j].kept /\ log[j].snap.instance = i /\ At(j) = k) <=> Adds(log[j], i, k)
      BY DEF Adds, At
    <2> QED
      BY <2>1, <2>2 DEF LiveMerges, Living
  <1>2. \A live, d : Naming(live, d) = Namers(log, live, d)
    BY DEF Naming, Namers
  <1>3. \A j : Speaker(j) = Author(log, j)
    BY DEF Speaker, Author
  <1>4. \A live, d : ExpectedSeries(live, d) = SeriesSaid(log, live, d)
    <2> TAKE live, d
    <2>1. \A key : Said(live, d, key) = SayOf(log, live, d, key)
      BY <1>2, <1>3 DEF Said, SayOf
    <2>2. {Speaker(j) : j \in Naming(live, d)} = {Author(log, j) : j \in Namers(log, live, d)}
      BY <1>2, <1>3
    <2> QED
      BY <2>1, <2>2 DEF ExpectedSeries, SeriesSaid
  <1>5. \A live : ExpectedGauge(live) = GaugeSaid(log, live)
    <2> TAKE live
    <2>1. Gauged(live) = Gaugers(log, live)
      BY DEF Gauged, Gaugers
    <2>2. Latest(live) = LastGauged(log, live)
      BY <2>1 DEF Latest, LastGauged
    <2> QED
      BY <2>1, <2>2 DEF ExpectedGauge, GaugeSaid
  <1> QED
    BY <1>1, <1>2, <1>4, <1>5

LEMMA BucketsAreTimes == ASSUME LogTypes PROVE Buckets \subseteq Nat
  <1>1. \A j \in DOMAIN log : At(j) \in Nat
    BY SnapshotTypes DEF LogTypes, At
  <1> QED
    BY <1>1 DEF Buckets

LEMMA ShownIsExact == ASSUME LogTypes, RingsShow PROVE BucketsExact
  <1> SUFFICES ASSUME NEW i \in Instances, NEW k \in Buckets
               PROVE  LET b == rings[i][k % Capacity] live == LiveMerges(i, k) IN
                      /\ b.start = k <=> live # {}
                      /\ live # {} =>
                           /\ b.agents = {log[j].snap.agent : j \in live}
                           /\ b.restarted = {log[j].snap.agent : j \in {x \in live : log[x].snap.restarted}}
                           /\ b.gauge = ExpectedGauge(live)
                           /\ \A d \in DOMAIN b.series : b.series[d] = ExpectedSeries(live, d)
                           /\ DOMAIN b.series = UNION {ToSet(log[j].snap.series) : j \in live}
    BY DEF BucketsExact
  <1>1. PICK b, live : b = rings[i][k % Capacity] /\ live = LiveMerges(i, k)
    OBVIOUS
  <1>2. k \in Nat /\ Shows(log, b, k, live)
    BY <1>1, BucketsAreTimes, SameWords DEF RingsShow
  <1>3. b.start = k <=> live # {}
    BY <1>2 DEF Shows
  <1>4. live # {} => Contents(log, b, live)
    BY <1>2 DEF Shows
  <1>5. ExpectedGauge(live) = GaugeSaid(log, live) /\ \A d : ExpectedSeries(live, d) = SeriesSaid(log, live, d)
    BY SameWords
  <1>6. live # {} =>
          /\ b.agents = {log[j].snap.agent : j \in live}
          /\ b.restarted = {log[j].snap.agent : j \in {x \in live : log[x].snap.restarted}}
          /\ b.gauge = ExpectedGauge(live)
          /\ \A d \in DOMAIN b.series : b.series[d] = ExpectedSeries(live, d)
          /\ DOMAIN b.series = UNION {ToSet(log[j].snap.series) : j \in live}
    BY <1>4, <1>5 DEF Contents
  <1> QED
    BY <1>1, <1>3, <1>6

LEMMA GreaterOfTwo ==
  ASSUME NEW a \in Int, NEW b \in Int
  PROVE  Max({a, b}) \in {a, b} /\ Max({a, b}) >= a /\ Max({a, b}) >= b
  <1>1. \E x \in {a, b} : \A y \in {a, b} : x >= y
    <2>1. CASE a >= b
      BY <2>1
    <2>2. CASE ~(a >= b)
      BY <2>2
    <2> QED
      BY <2>1, <2>2
  <1> QED
    BY <1>1 DEF Max

LEMMA ShownIsAnswered == ASSUME LogTypes, RingsShow, ingestClock \in Nat PROVE RetainedAnswers
  <1> SUFFICES ASSUME NEW i \in Instances, NEW d \in AllDims, NEW from \in Buckets
               PROVE  Read(i, from, Index(ingestClock), d) =
                        SumOf([k \in {x \in Buckets : /\ from <= x
                                                      /\ x \in Oldest(ingestClock) .. Index(ingestClock)
                                                      /\ LiveMerges(i, x) # {}}
                                 |-> ExpectedCount(i, k, d)])
    BY DEF RetainedAnswers, ReadsRetained
  <1>1. PICK to, oldest : to = Index(ingestClock) /\ oldest = Oldest(ingestClock)
    OBVIOUS
  <1>2. to \in Nat /\ oldest \in Int /\ oldest = to - Capacity + 1 /\ from \in Nat /\ Buckets \subseteq Nat
    BY <1>1, IndexType, OldestType, BucketsAreTimes DEF Oldest
  <1>3. PICK least : least = Max({from, to - Capacity + 1})
    OBVIOUS
  <1>4. least \in Int /\ least >= from /\ least >= oldest /\ (least = from \/ least = oldest)
    BY <1>2, <1>3, GreaterOfTwo
  <1> DEFINE read == InRange(i, from, to)
             told == {x \in Buckets : from <= x /\ x \in oldest .. to /\ LiveMerges(i, x) # {}}
  <1>5. read = {k \in least .. to : rings[i][k % Capacity].start = k}
    BY <1>3 DEF InRange
  <1>6. \A k \in Nat : /\ rings[i][k % Capacity].start = k <=> LiveMerges(i, k) # {}
                       /\ LiveMerges(i, k) # {} => Contents(log, rings[i][k % Capacity], LiveMerges(i, k))
    BY SameWords DEF RingsShow, Shows
  <1>7. \A k : LiveMerges(i, k) # {} => k \in Buckets
    BY DEF LiveMerges, Buckets
  <1>8. read = told
    <2>1. ASSUME NEW k \in read PROVE k \in told
      <3>1. k \in least .. to /\ rings[i][k % Capacity].start = k
        BY <1>5
      <3>2. k \in Nat /\ from <= k /\ k \in oldest .. to
        BY <1>2, <1>4, <3>1
      <3> QED
        BY <1>6, <1>7, <3>1, <3>2
    <2>2. ASSUME NEW k \in told PROVE k \in read
      <3>1. k \in Nat /\ k \in least .. to
        BY <1>2, <1>4
      <3> QED
        BY <1>5, <1>6, <3>1
    <2> QED
      BY <2>1, <2>2
  <1>9. ASSUME NEW k \in told PROVE CountIn(rings[i][k % Capacity], d) = ExpectedCount(i, k, d)
    <2>1. PICK b, live : b = rings[i][k % Capacity] /\ live = LiveMerges(i, k)
      OBVIOUS
    <2>2. Contents(log, b, live)
      BY <1>2, <1>6, <2>1
    <2>3. Naming(live, d) = {} <=> d \notin DOMAIN b.series
      BY <2>2 DEF Contents, Naming
    <2>4. CASE d \in DOMAIN b.series
      <3>1. b.series[d] = ExpectedSeries(live, d)
        BY <2>2, <2>4, SameWords DEF Contents
      <3>2. ExpectedCount(i, k, d) = SumOf(ExpectedSeries(live, d))
        BY <2>1, <2>3, <2>4 DEF ExpectedCount
      <3> QED
        BY <2>1, <2>4, <3>1, <3>2 DEF CountIn
    <2>5. CASE d \notin DOMAIN b.series
      BY <2>1, <2>3, <2>5 DEF CountIn, ExpectedCount
    <2> QED
      BY <2>4, <2>5
  <1> HIDE DEF read, told
  <1>10. [k \in read |-> CountIn(rings[i][k % Capacity], d)] = [k \in told |-> ExpectedCount(i, k, d)]
    BY <1>8, <1>9
  <1>11. Read(i, from, to, d) = SumOf([k \in told |-> ExpectedCount(i, k, d)])
    BY <1>10 DEF Read, read
  <1> QED
    BY <1>1, <1>11 DEF told
-----------------------------------------------------------------------------
(* What is taken from the queue, and what becomes of it. *)

LEMMA FrontMoves ==
  ASSUME NEW S, NEW s \in Seq(S), NEW t \in Seq(S), t # <<>>
  PROVE  Append(s, t[1]) \o Tail(t) = s \o t
  <1>1. /\ Len(t) \in Nat \ {0} /\ t[1] \in S /\ Tail(t) \in Seq(S) /\ Len(Tail(t)) = Len(t) - 1
        /\ Len(s) \in Nat /\ \A n \in 1 .. Len(t) - 1 : Tail(t)[n] = t[n + 1]
    OBVIOUS
  <1> DEFINE left == Append(s, t[1]) \o Tail(t)
             right == s \o t
  <1>2. left \in Seq(S) /\ right \in Seq(S) /\ Len(left) = Len(s) + Len(t) /\ Len(right) = Len(s) + Len(t)
    BY <1>1
  <1>3. ASSUME NEW n \in 1 .. Len(s) + Len(t) PROVE left[n] = right[n]
    <2>1. CASE n <= Len(s)
      BY <1>1, <2>1
    <2>2. CASE n = Len(s) + 1
      BY <1>1, <2>2
    <2>3. CASE n > Len(s) + 1
      <3>1. /\ n - (Len(s) + 1) \in 1 .. Len(t) - 1 /\ n - (Len(s) + 1) + 1 = n - Len(s)
        BY <1>1, <2>3
      <3>2. left[n] = Tail(t)[n - (Len(s) + 1)]
        BY <1>1, <2>3
      <3>3. right[n] = t[n - Len(s)]
        BY <1>1, <2>3
      <3> QED
        BY <1>1, <3>1, <3>2, <3>3
    <2> QED
      BY <1>1, <2>1, <2>2, <2>3
  <1> HIDE DEF left, right
  <1>4. left = right
    BY <1>2, <1>3
  <1> QED
    BY <1>4 DEF left, right

LEMMA JoinedType ==
  ASSUME NEW s \in Seq(Snapshots), NEW a \in Accepteds
  PROVE  /\ Batches[a.batch].snapshots \in Seq(Snapshots)
         /\ Joined(s, a) = s \o Batches[a.batch].snapshots /\ Joined(s, a) \in Seq(Snapshots)
  <1>1. a.batch \in DOMAIN Batches
    BY DEF Accepteds
  <1>2. PICK snaps : snaps = Batches[a.batch].snapshots
    OBVIOUS
  <1>3. snaps \in Seq(ToSet(snaps)) /\ ToSet(snaps) \subseteq Snapshots
    BY <1>1, <1>2, IngestionAssumption DEF IsList, Snapshots
  <1>4. snaps \in Seq(Snapshots)
    BY <1>3
  <1> QED
    BY <1>2, <1>4 DEF Joined

(* Every snapshot of a flattened list of acceptances is one of theirs. *)
FlatFrom(taken, n, s) ==
  /\ s \in Seq(Snapshots)
  /\ \A m \in DOMAIN s : \E p \in 1 .. n : s[m] \in ToSet(Batches[taken[p].batch].snapshots)

LEMMA FlatType ==
  ASSUME NEW taken \in Seq(Accepteds)
  PROVE  \A n \in 0 .. Len(taken) : FlatFrom(taken, n, Flattened(taken)[n])
  <1> DEFINE flat == Flattened(taken)
             T == {n \in Nat : n <= Len(taken) => FlatFrom(taken, n, flat[n])}
  <1>1. /\ Len(taken) \in Nat /\ flat[0] = <<>>
        /\ \A n \in 0 .. Len(taken) : n # 0 => flat[n] = Joined(flat[n - 1], taken[n])
    BY FlattenedSteps
  <1> HIDE DEF flat
  <1>2. 0 \in T
    <2>1. <<>> \in Seq(Snapshots) /\ DOMAIN <<>> = {}
      OBVIOUS
    <2>2. PICK s : s = <<>>
      OBVIOUS
    <2>3. FlatFrom(taken, 0, s)
      BY <2>1, <2>2 DEF FlatFrom
    <2> QED
      BY <1>1, <2>2, <2>3
  <1>3. ASSUME NEW n \in Nat, n \in T PROVE n + 1 \in T
    <2>1. SUFFICES ASSUME n + 1 <= Len(taken) PROVE FlatFrom(taken, n + 1, flat[n + 1])
      OBVIOUS
    <2>2. n <= Len(taken) /\ n + 1 \in 0 .. Len(taken) /\ n + 1 # 0 /\ n + 1 - 1 = n /\ n + 1 \in 1 .. Len(taken)
      BY <1>1, <2>1
    <2>3. PICK s, a, snaps : s = flat[n] /\ a = taken[n + 1] /\ snaps = Batches[a.batch].snapshots
      OBVIOUS
    <2>4. FlatFrom(taken, n, s) /\ a \in Accepteds
      BY <1>3, <2>2, <2>3
    <2>5. flat[n + 1] = s \o snaps /\ s \in Seq(Snapshots) /\ snaps \in Seq(Snapshots)
      <3>1. flat[n + 1] = Joined(s, a)
        BY <1>1, <2>2, <2>3
      <3> QED
        BY <2>3, <2>4, <3>1, JoinedType DEF FlatFrom
    <2>6. ASSUME NEW m \in DOMAIN (s \o snaps)
          PROVE  \E p \in 1 .. n + 1 : (s \o snaps)[m] \in ToSet(Batches[taken[p].batch].snapshots)
      <3>1. m \in 1 .. Len(s) + Len(snaps) /\ Len(s) \in Nat /\ Len(snaps) \in Nat
        BY <2>5
      <3>2. CASE m <= Len(s)
        <4>1. m \in DOMAIN s /\ (s \o snaps)[m] = s[m]
          BY <2>5, <3>1, <3>2
        <4>2. PICK p \in 1 .. n : s[m] \in ToSet(Batches[taken[p].batch].snapshots)
          BY <2>4, <4>1 DEF FlatFrom
        <4>3. p \in 1 .. n + 1
          OBVIOUS
        <4> QED
          BY <4>1, <4>2, <4>3
      <3>3. CASE ~(m <= Len(s))
        <4>1. m - Len(s) \in DOMAIN snaps /\ (s \o snaps)[m] = snaps[m - Len(s)]
          BY <2>5, <3>1, <3>3
        <4>2. snaps[m - Len(s)] \in ToSet(snaps)
          BY <4>1 DEF ToSet
        <4>3. n + 1 \in 1 .. n + 1
          OBVIOUS
        <4> QED
          BY <2>3, <4>1, <4>2, <4>3
      <3> QED
        BY <3>2, <3>3
    <2>7. s \o snaps \in Seq(Snapshots)
      BY <2>5
    <2> QED
      BY <2>5, <2>6, <2>7 DEF FlatFrom
  <1>4. Nat \subseteq T
    <2> HIDE DEF T
    <2> QED
      BY <1>2, <1>3, NatSet
  <1> QED
    BY <1>1, <1>4 DEF flat

LEMMA FlatAppend ==
  ASSUME NEW taken \in Seq(Accepteds), NEW a \in Accepteds
  PROVE  Flat(Append(taken, a)) = Flat(taken) \o Batches[a.batch].snapshots
  <1> DEFINE more == Append(taken, a)
             T == {n \in Nat : n <= Len(taken) => Flattened(more)[n] = Flattened(taken)[n]}
  <1>1. /\ Len(taken) \in Nat /\ more \in Seq(Accepteds) /\ Len(more) = Len(taken) + 1
        /\ \A n \in 1 .. Len(taken) : more[n] = taken[n]
        /\ more[Len(taken) + 1] = a
    OBVIOUS
  <1> HIDE DEF more
  <1>2. /\ Flattened(taken)[0] = <<>> /\ Flattened(more)[0] = <<>>
        /\ \A n \in 0 .. Len(taken) : n # 0 => Flattened(taken)[n] = Joined(Flattened(taken)[n - 1], taken[n])
        /\ \A n \in 0 .. Len(more) : n # 0 => Flattened(more)[n] = Joined(Flattened(more)[n - 1], more[n])
    BY <1>1, FlattenedSteps
  <1>3. 0 \in T
    BY <1>2
  <1>4. ASSUME NEW n \in Nat, n \in T PROVE n + 1 \in T
    <2>1. SUFFICES ASSUME n + 1 <= Len(taken) PROVE Flattened(more)[n + 1] = Flattened(taken)[n + 1]
      OBVIOUS
    <2>2. /\ n <= Len(taken) /\ n + 1 \in 0 .. Len(taken) /\ n + 1 \in 0 .. Len(more) /\ n + 1 # 0
          /\ n + 1 - 1 = n /\ n + 1 \in 1 .. Len(taken)
      BY <1>1, <2>1
    <2>3. Flattened(more)[n] = Flattened(taken)[n] /\ more[n + 1] = taken[n + 1]
      BY <1>1, <1>4, <2>2
    <2> QED
      BY <1>2, <2>2, <2>3
  <1>5. Flattened(more)[Len(taken)] = Flattened(taken)[Len(taken)]
    <2>1. Nat \subseteq T
      <3> HIDE DEF T
      <3> QED
        BY <1>3, <1>4, NatSet
    <2> QED
      BY <1>1, <2>1
  <1>6. Flattened(more)[Len(taken) + 1] = Joined(Flattened(taken)[Len(taken)], a)
    <2>1. Len(taken) + 1 \in 0 .. Len(more) /\ Len(taken) + 1 # 0 /\ Len(taken) + 1 - 1 = Len(taken)
      BY <1>1
    <2> QED
      BY <1>1, <1>2, <1>5, <2>1
  <1>7. Flattened(taken)[Len(taken)] \in Seq(Snapshots)
    BY <1>1, FlatType DEF FlatFrom
  <1> QED
    BY <1>1, <1>6, <1>7, FlattenedDefined, JoinedType DEF more

LEMMA FlatNone == Flat(<<>>) = <<>>
  <1>1. Len(<<>>) = 0
    OBVIOUS
  <1> QED
    BY <1>1, FlattenedSteps, FlattenedDefined

(* An event that is held is not stored again. *)
LEMMA StoredDistinct ==
  ASSUME NEW S, NEW held \in Seq(S), Distinct(held), NEW sent \in Seq(S)
  PROVE  Stored(held, sent) \in Seq(S) /\ Distinct(Stored(held, sent))
  <1> DEFINE T == {n \in Nat : n <= Len(sent) => /\ Storing(held, sent)[n] \in Seq(S)
                                                 /\ Distinct(Storing(held, sent)[n])}
  <1>1. /\ Len(sent) \in Nat /\ Storing(held, sent)[0] = held
        /\ \A n \in 0 .. Len(sent) : n # 0 =>
             Storing(held, sent)[n] = Evict(AppendEvent(Storing(held, sent)[n - 1], sent[n]))
    BY StoringSteps
  <1>2. 0 \in T
    BY <1>1
  <1>3. ASSUME NEW q \in Seq(S), Distinct(q), NEW x \in S
        PROVE  Evict(AppendEvent(q, x)) \in Seq(S) /\ Distinct(Evict(AppendEvent(q, x)))
    <2>1. AppendEvent(q, x) \in Seq(S) /\ Distinct(AppendEvent(q, x))
      <3>1. CASE x \in ToSet(q)
        BY <1>3, <3>1 DEF AppendEvent
      <3>2. CASE x \notin ToSet(q)
        <4>1. AppendEvent(q, x) = Append(q, x)
          BY <3>2 DEF AppendEvent
        <4>2. \A n \in 1 .. Len(q) : q[n] # x
          BY <3>2 DEF ToSet
        <4>3. /\ Len(q) \in Nat /\ DOMAIN Append(q, x) = 1 .. Len(q) + 1
              /\ \A n \in 1 .. Len(q) : Append(q, x)[n] = q[n]
              /\ Append(q, x)[Len(q) + 1] = x /\ Append(q, x) \in Seq(S) /\ DOMAIN q = 1 .. Len(q)
          OBVIOUS
        <4>4. ASSUME NEW m \in 1 .. Len(q) + 1, NEW n \in 1 .. Len(q) + 1, Append(q, x)[m] = Append(q, x)[n]
              PROVE  m = n
          <5>1. \A k \in 1 .. Len(q) + 1 : k \in 1 .. Len(q) \/ k = Len(q) + 1
            BY <4>3
          <5>2. CASE m \in 1 .. Len(q) /\ n \in 1 .. Len(q)
            BY <1>3, <4>3, <4>4, <5>2 DEF Distinct
          <5>3. CASE m = Len(q) + 1 \/ n = Len(q) + 1
            BY <4>2, <4>3, <4>4, <5>1, <5>3
          <5> QED
            BY <5>1, <5>2, <5>3
        <4> QED
          BY <4>1, <4>3, <4>4 DEF Distinct
      <3> QED
        BY <3>1, <3>2
    <2>2. PICK r : r = AppendEvent(q, x)
      OBVIOUS
    <2>3. CASE Len(r) > EventLimit
      <3>1. EventLimit \in Nat \ {0} /\ Len(r) \in Nat /\ Len(r) # 0
        BY <2>1, <2>2, <2>3, IngestionAssumption
      <3>2. Evict(r) = Tail(r) /\ r # <<>>
        BY <2>3, <3>1 DEF Evict
      <3>3. /\ Tail(r) \in Seq(S) /\ DOMAIN Tail(r) = 1 .. Len(r) - 1 /\ DOMAIN r = 1 .. Len(r)
            /\ \A n \in 1 .. Len(r) - 1 : Tail(r)[n] = r[n + 1]
        BY <2>1, <2>2, <3>1, <3>2
      <3>4. ASSUME NEW m \in 1 .. Len(r) - 1, NEW n \in 1 .. Len(r) - 1, Tail(r)[m] = Tail(r)[n]
            PROVE  m = n
        <4>1. m + 1 \in 1 .. Len(r) /\ n + 1 \in 1 .. Len(r) /\ r[m + 1] = r[n + 1]
          BY <3>1, <3>3, <3>4
        <4>2. m + 1 = n + 1
          BY <2>1, <2>2, <3>3, <4>1 DEF Distinct
        <4> QED
          BY <4>2
      <3> QED
        BY <2>2, <3>2, <3>3, <3>4 DEF Distinct
    <2>4. CASE ~(Len(r) > EventLimit)
      BY <2>1, <2>2, <2>4 DEF Evict
    <2> QED
      BY <2>3, <2>4
  <1>4. ASSUME NEW n \in Nat, n \in T PROVE n + 1 \in T
    <2>1. SUFFICES ASSUME n + 1 <= Len(sent)
                   PROVE  Storing(held, sent)[n + 1] \in Seq(S) /\ Distinct(Storing(held, sent)[n + 1])
      OBVIOUS
    <2>2. /\ n <= Len(sent) /\ n + 1 \in 0 .. Len(sent) /\ n + 1 # 0 /\ n + 1 - 1 = n /\ sent[n + 1] \in S
      BY <1>1, <2>1
    <2>3. Storing(held, sent)[n + 1] = Evict(AppendEvent(Storing(held, sent)[n], sent[n + 1]))
      BY <1>1, <2>2
    <2>4. PICK q : q = Storing(held, sent)[n]
      OBVIOUS
    <2> QED
      BY <1>3, <1>4, <2>2, <2>3, <2>4
  <1>5. Nat \subseteq T
    <2> HIDE DEF T
    <2> QED
      BY <1>2, <1>4, NatSet
  <1> QED
    BY <1>1, <1>5, StoringDefined

-----------------------------------------------------------------------------
(* The queue: what is accepted is taken in order, and processed. *)

LogSnaps == [j \in DOMAIN log |-> log[j].snap]
QueueInv == WorkTypes /\ Conserved /\ TakenBefore /\ Distinct(events)

LEMMA LogSnapsType == ASSUME LogTypes PROVE LogSnaps \in Seq(Snapshots) /\ Len(LogSnaps) = Len(log)
  <1>1. PICK S : log \in Seq(S)
    BY DEF LogTypes
  <1>2. Len(log) \in Nat /\ DOMAIN log = 1 .. Len(log)
    BY <1>1
  <1>3. LogSnaps \in [1 .. Len(log) -> Snapshots]
    BY <1>2 DEF LogSnaps, LogTypes
  <1> QED
    BY <1>2, <1>3

LEMMA LogSnapsGrow ==
  ASSUME LogTypes, NEW e, e.snap \in Snapshots, log' = Append(log, e)
  PROVE  LogSnaps' = Append(LogSnaps, e.snap)
  <1>1. PICK S : log \in Seq(S)
    BY DEF LogTypes
  <1>2. PICK s, m, n : s = LogSnaps /\ m = log' /\ n = Len(log)
    OBVIOUS
  <1>3. s \in Seq(Snapshots) /\ Len(s) = n /\ n \in Nat /\ DOMAIN log = 1 .. n
    BY <1>1, <1>2, LogSnapsType
  <1>4. DOMAIN m = 1 .. n + 1 /\ m[n + 1] = e /\ \A j \in 1 .. n : m[j] = log[j]
    BY <1>1, <1>2
  <1>5. \A j \in 1 .. n : s[j] = log[j].snap
    BY <1>2, <1>3 DEF LogSnaps
  <1>6. /\ DOMAIN Append(s, e.snap) = 1 .. n + 1 /\ Append(s, e.snap)[n + 1] = e.snap
        /\ \A j \in 1 .. n : Append(s, e.snap)[j] = s[j]
        /\ Append(s, e.snap) \in Seq(Snapshots)
    BY <1>3
  <1>7. \A j \in 1 .. n + 1 : m[j].snap = Append(s, e.snap)[j]
    <2>1. \A j \in 1 .. n + 1 : j \in 1 .. n \/ j = n + 1
      BY <1>3
    <2> QED
      BY <1>4, <1>5, <1>6, <2>1
  <1>8. PICK more : more = [j \in 1 .. n + 1 |-> m[j].snap]
    OBVIOUS
  <1>9. [j \in DOMAIN m |-> m[j].snap] = Append(s, e.snap)
    <2>1. \A j \in 1 .. n + 1 : m[j].snap \in Snapshots
      BY <1>3, <1>6, <1>7
    <2>2. more \in [1 .. n + 1 -> Snapshots] /\ n + 1 \in Nat
      BY <1>3, <1>8, <2>1
    <2>3. more \in Seq(Snapshots) /\ Len(more) = n + 1
      BY <2>2
    <2>4. Append(s, e.snap) \in Seq(Snapshots) /\ Len(Append(s, e.snap)) = n + 1
      BY <1>3
    <2>5. \A j \in 1 .. n + 1 : more[j] = Append(s, e.snap)[j]
      BY <1>7, <1>8
    <2>6. more = Append(s, e.snap)
      BY <2>3, <2>4, <2>5
    <2> QED
      BY <1>4, <1>8, <2>6
  <1> QED
    BY <1>2, <1>9 DEF LogSnaps

(* The acceptances that were taken from the queue. *)
TakenPart == SubSeq(accepted, 1, Taken)

LEMMA TakenParts ==
  ASSUME GuardTypes, WorkTypes, Taken \in Nat
  PROVE  /\ Len(accepted) \in Nat /\ Len(inbox) \in Nat /\ Taken <= Len(accepted)
         /\ TakenPart \in Seq(Accepteds) /\ Len(TakenPart) = Taken
         /\ \A p \in 1 .. Taken : TakenPart[p] = accepted[p]
  <1>1. accepted \in Seq(Accepteds) /\ inbox \in Seq(DOMAIN Batches)
    BY DEF GuardTypes, WorkTypes
  <1>2. Len(accepted) \in Nat /\ Len(inbox) \in Nat /\ Taken <= Len(accepted)
    BY <1>1 DEF Taken
  <1>3. PICK t : t = Taken
    OBVIOUS
  <1>4. \A p \in 1 .. t : accepted[p] \in Accepteds
    BY <1>1, <1>2, <1>3
  <1>5. /\ SubSeq(accepted, 1, t) \in Seq(Accepteds) /\ Len(SubSeq(accepted, 1, t)) = t
        /\ \A p \in 1 .. t : SubSeq(accepted, 1, t)[p] = accepted[p]
    BY <1>1, <1>2, <1>3, <1>4
  <1> QED
    BY <1>2, <1>3, <1>5 DEF TakenPart

LEMMA TakeKeeps ==
  ASSUME GuardTypes, LogTypes, QueueInv, Take
  PROVE  QueueInv'
  <1>1. PICK t, n : t = Taken /\ n = Len(inbox)
    OBVIOUS
  <1>2. /\ working = NoItem /\ inbox # <<>> /\ inbox' = Tail(inbox)
        /\ working' = [batch |-> inbox[1], now |-> ingestClock, left |-> Batches[inbox[1]].snapshots]
        /\ UNCHANGED <<accepted, ingestClock, log, events>>
    BY DEF Take, Requests, storeVars
  <1>3. /\ Len(accepted) \in Nat /\ n \in Nat /\ t \in Nat /\ t <= Len(accepted) /\ t = Len(accepted) - n
        /\ TakenPart \in Seq(Accepteds) /\ Len(TakenPart) = t
        /\ \A p \in 1 .. t : TakenPart[p] = accepted[p]
    BY <1>1, TakenParts DEF QueueInv, TakenBefore, Taken
  <1>4. /\ inbox \in Seq(DOMAIN Batches) /\ accepted \in Seq(Accepteds) /\ ingestClock \in Nat
        /\ inbox = [k \in 1 .. n |-> accepted[t + k].batch]
        /\ LogSnaps \o working.left = Flat(TakenPart)
    BY <1>1 DEF QueueInv, WorkTypes, GuardTypes, Conserved, LogSnaps, TakenPart
  <1>5. /\ n >= 1 /\ Len(inbox') = n - 1 /\ inbox[1] \in DOMAIN Batches /\ inbox' \in Seq(DOMAIN Batches)
        /\ \A k \in 1 .. n - 1 : inbox'[k] = inbox[k + 1]
    BY <1>1, <1>2, <1>4
  <1>6. Taken' = t + 1 /\ t + 1 <= Len(accepted)
    <2>1. Taken' = Len(accepted) - (n - 1)
      BY <1>2, <1>5 DEF Taken
    <2> QED
      BY <1>3, <1>5, <2>1
  <1>7. PICK a : a = accepted[t + 1]
    OBVIOUS
  <1>8. a \in Accepteds /\ a.batch = inbox[1]
    BY <1>3, <1>4, <1>5, <1>6, <1>7
  <1>9. inbox' = [k \in 1 .. Len(inbox') |-> accepted'[Taken' + k].batch]
    <2>1. \A k \in 1 .. n - 1 : inbox'[k] = accepted[t + (k + 1)].batch /\ t + (k + 1) = t + 1 + k
      <3>1. SUFFICES ASSUME NEW k \in 1 .. n - 1
                     PROVE  inbox'[k] = accepted[t + (k + 1)].batch /\ t + (k + 1) = t + 1 + k
        OBVIOUS
      <3>2. k \in Nat /\ k + 1 \in 1 .. n /\ t + (k + 1) = t + 1 + k
        BY <1>3, <1>5
      <3>3. inbox'[k] = inbox[k + 1]
        BY <1>5
      <3>4. inbox[k + 1] = accepted[t + (k + 1)].batch
        <4>1. inbox = [m \in 1 .. n |-> accepted[t + m].batch]
          BY <1>4
        <4> QED
          BY <3>2, <4>1
      <3> QED
        BY <3>2, <3>3, <3>4
    <2>2. inbox' = [k \in 1 .. n - 1 |-> inbox'[k]]
      BY <1>5
    <2> QED
      BY <1>2, <1>5, <1>6, <2>1, <2>2
  <1>10. SubSeq(accepted, 1, t + 1) = Append(TakenPart, a)
    <2>1. PICK s : s = TakenPart
      OBVIOUS
    <2>2. \A p \in 1 .. t + 1 : accepted[p] \in Accepteds
      BY <1>3, <1>4, <1>6
    <2>3. /\ SubSeq(accepted, 1, t + 1) \in Seq(Accepteds) /\ Len(SubSeq(accepted, 1, t + 1)) = t + 1
          /\ \A p \in 1 .. t + 1 : SubSeq(accepted, 1, t + 1)[p] = accepted[p]
      BY <1>3, <1>4, <1>6, <2>2
    <2>4. /\ Append(s, a) \in Seq(Accepteds) /\ Len(Append(s, a)) = t + 1
          /\ \A p \in 1 .. t : Append(s, a)[p] = s[p]
          /\ Append(s, a)[t + 1] = a
      BY <1>3, <1>8, <2>1
    <2>5. \A p \in 1 .. t + 1 : SubSeq(accepted, 1, t + 1)[p] = Append(s, a)[p]
      <3>1. \A p \in 1 .. t + 1 : p \in 1 .. t \/ p = t + 1
        BY <1>3
      <3> QED
        BY <1>3, <1>7, <2>1, <2>3, <2>4, <3>1
    <2> QED
      BY <2>1, <2>3, <2>4, <2>5
  <1>11. PICK snaps : snaps = Batches[inbox[1]].snapshots
    OBVIOUS
  <1>12. Flat(Append(TakenPart, a)) = Flat(TakenPart) \o snaps /\ snaps \in Seq(Snapshots)
    <2>1. PICK s : s = TakenPart
      OBVIOUS
    <2>2. <<>> \in Seq(Snapshots)
      OBVIOUS
    <2> QED
      BY <1>3, <1>8, <1>11, <2>1, <2>2, FlatAppend, JoinedType
  <1>13. LogSnaps \o <<>> = LogSnaps /\ working.left = <<>>
    <2>1. PICK s : s = LogSnaps /\ s \in Seq(Snapshots)
      BY LogSnapsType
    <2>2. s \o <<>> = s
      BY <2>1
    <2> QED
      BY <1>2, <2>1, <2>2 DEF NoItem
  <1>14. LogSnaps' = LogSnaps /\ working'.left = snaps
    BY <1>2, <1>11 DEF LogSnaps
  <1>15. LogSnaps' \o working'.left = Flat(SubSeq(accepted', 1, Taken'))
    BY <1>2, <1>4, <1>6, <1>10, <1>12, <1>13, <1>14
  <1>16. Conserved'
    BY <1>9, <1>15 DEF Conserved, LogSnaps
  <1>17. WorkTypes'
    <2>1. working' \in Items
      BY <1>2, <1>4, <1>5, <1>11, <1>12 DEF Items
    <2>2. \E S : events' \in Seq(S)
      BY <1>2 DEF QueueInv, WorkTypes
    <2>3. working'.now <= ingestClock' /\ working'.batch \in DOMAIN Batches
      BY <1>2, <1>4, <1>5
    <2> QED
      BY <1>5, <2>1, <2>2, <2>3 DEF WorkTypes
  <1>18. TakenBefore'
    <2>1. \A p \in DOMAIN accepted : accepted[p].at <= ingestClock
      BY DEF QueueInv, TakenBefore
    <2>2. \A p \in 1 .. t + 1 : accepted[p].at <= ingestClock
      BY <1>3, <1>4, <1>6, <2>1
    <2>3. working'.now = ingestClock /\ t + 1 \in Nat
      BY <1>2, <1>3
    <2> QED
      BY <1>2, <1>6, <2>1, <2>2, <2>3 DEF TakenBefore
  <1>19. Distinct(events)'
    BY <1>2 DEF QueueInv, Distinct
  <1> QED
    BY <1>16, <1>17, <1>18, <1>19 DEF QueueInv

(* What stays when the queue and the item being processed do. *)
LEMMA ProcessKeeps ==
  ASSUME GuardTypes, LogTypes, QueueInv, working.left # <<>>,
         NEW e, e.snap = working.left[1], log' = Append(log, e),
         working' = [working EXCEPT !.left = Tail(working.left)],
         UNCHANGED <<accepted, ingestClock, inbox, events>>
  PROVE  QueueInv'
  <1>1. PICK s, t : s = LogSnaps /\ t = working.left
    OBVIOUS
  <1>2. working \in Items /\ t \in Seq(Snapshots) /\ t # <<>> /\ s \in Seq(Snapshots)
    BY <1>1, LogSnapsType DEF QueueInv, WorkTypes, Items
  <1>3. t[1] \in Snapshots /\ Tail(t) \in Seq(Snapshots)
    BY <1>2
  <1>4. working' \in Items /\ working'.left = Tail(t) /\ working'.now = working.now /\ working'.batch = working.batch
    BY <1>1, <1>2, <1>3 DEF Items
  <1>5. LogSnaps' = Append(s, t[1])
    BY <1>1, <1>3, LogSnapsGrow
  <1>6. LogSnaps' \o working'.left = s \o t
    BY <1>2, <1>4, <1>5, FrontMoves
  <1>7. s \o t = Flat(SubSeq(accepted, 1, Taken))
    BY <1>1 DEF QueueInv, Conserved, LogSnaps
  <1>8. Taken' = Taken
    BY DEF Taken
  <1>9. Conserved'
    <2>1. LogSnaps' \o working'.left = Flat(SubSeq(accepted', 1, Taken'))
      BY <1>6, <1>7, <1>8
    <2>2. inbox' = [n \in 1 .. Len(inbox') |-> accepted'[Taken' + n].batch]
      BY <1>8 DEF QueueInv, Conserved
    <2> QED
      BY <2>1, <2>2 DEF Conserved, LogSnaps
  <1>10. working # NoItem
    BY DEF NoItem
  <1>11. WorkTypes'
    BY <1>4, <1>10 DEF QueueInv, WorkTypes
  <1>12. TakenBefore'
    BY <1>4, <1>8, <1>10 DEF QueueInv, TakenBefore
  <1>13. Distinct(events)'
    BY DEF QueueInv, Distinct
  <1> QED
    BY <1>9, <1>11, <1>12, <1>13 DEF QueueInv

LEMMA DoneKeeps ==
  ASSUME GuardTypes, LogTypes, QueueInv, Done
  PROVE  QueueInv'
  <1>1. /\ working # NoItem /\ working.left = <<>> /\ working' = NoItem
        /\ events' = Stored(events, Batches[working.batch].events)
        /\ UNCHANGED <<accepted, ingestClock, log, inbox>>
    BY DEF Done, Requests, storeVars
  <1>2. PICK sent : sent = Batches[working.batch].events
    OBVIOUS
  <1>3. sent \in Seq(ToSet(sent)) /\ ingestClock \in Nat
    BY <1>1, <1>2, IngestionAssumption DEF QueueInv, WorkTypes, IsList, GuardTypes
  <1>4. PICK S : events \in Seq(S)
    BY DEF QueueInv, WorkTypes
  <1>5. PICK U : U = S \cup ToSet(sent)
    OBVIOUS
  <1>6. events \in Seq(U) /\ sent \in Seq(U)
    BY <1>3, <1>4, <1>5
  <1>7. events' \in Seq(U) /\ Distinct(events')
    <2>1. PICK held : held = events
      OBVIOUS
    <2>2. held \in Seq(U) /\ Distinct(held)
      BY <1>6, <2>1 DEF QueueInv
    <2>3. Stored(held, sent) \in Seq(U) /\ Distinct(Stored(held, sent))
      BY <1>6, <2>2, StoredDistinct
    <2> QED
      BY <1>1, <1>2, <2>1, <2>3
  <1>8. Distinct(events)'
    BY <1>7 DEF Distinct
  <1>9. NoItem.left = <<>> /\ NoItem.now = 0 /\ NoItem \in Items
    <2>1. <<>> \in Seq(Snapshots)
      OBVIOUS
    <2> QED
      BY <2>1 DEF NoItem, Items
  <1>10. Taken' = Taken /\ LogSnaps' = LogSnaps /\ working'.left = working.left
    BY <1>1, <1>9 DEF Taken, LogSnaps
  <1>11. Conserved'
    BY <1>1, <1>10 DEF QueueInv, Conserved
  <1>12. WorkTypes'
    <2>1. 0 <= ingestClock
      BY <1>3
    <2> QED
      BY <1>1, <1>7, <1>9, <2>1 DEF QueueInv, WorkTypes
  <1>13. TakenBefore'
    BY <1>1, <1>10 DEF QueueInv, TakenBefore
  <1> QED
    BY <1>8, <1>11, <1>12, <1>13 DEF QueueInv

LEMMA AcceptQueues ==
  ASSUME GuardTypes, LogTypes, QueueInv, NEW name \in DOMAIN Batches, Accept(name)
  PROVE  QueueInv'
  <1>1. PICK t, n, a : t = Taken /\ n = Len(inbox) /\ a = [batch |-> name, at |-> ingestClock]
    OBVIOUS
  <1>2. /\ inbox' = Append(inbox, name) /\ accepted' = Append(accepted, a)
        /\ UNCHANGED <<working, events, log, ingestClock>>
    BY <1>1 DEF Accept, Send, storeVars
  <1>3. /\ inbox \in Seq(DOMAIN Batches) /\ accepted \in Seq(Accepteds) /\ ingestClock \in Nat
        /\ inbox = [k \in 1 .. n |-> accepted[t + k].batch] /\ t \in Nat /\ a \in Accepteds
        /\ \A p \in DOMAIN accepted : accepted[p].at <= ingestClock
        /\ working # NoItem => \A p \in 1 .. t : accepted[p].at <= working.now
    BY <1>1 DEF QueueInv, WorkTypes, GuardTypes, Conserved, TakenBefore, Accepteds
  <1>4. PICK len : len = Len(accepted)
    OBVIOUS
  <1>5. /\ len \in Nat /\ n \in Nat /\ t = len - n /\ t <= len
    BY <1>1, <1>3, <1>4 DEF Taken
  <1>6. /\ accepted' \in Seq(Accepteds) /\ Len(accepted') = len + 1 /\ DOMAIN accepted' = 1 .. len + 1
        /\ DOMAIN accepted = 1 .. len
        /\ \A p \in 1 .. len : accepted'[p] = accepted[p]
        /\ accepted'[len + 1] = a
    BY <1>2, <1>3, <1>4
  <1>7. /\ inbox' \in Seq(DOMAIN Batches) /\ Len(inbox') = n + 1 /\ inbox'[n + 1] = name
        /\ \A k \in 1 .. n : inbox'[k] = inbox[k]
    BY <1>1, <1>2, <1>3
  <1>8. Taken' = t
    <2>1. Taken' = (len + 1) - (n + 1)
      BY <1>6, <1>7 DEF Taken
    <2> QED
      BY <1>5, <2>1
  <1>9. inbox' = [k \in 1 .. n + 1 |-> accepted'[t + k].batch]
    <2>1. ASSUME NEW k \in 1 .. n + 1 PROVE inbox'[k] = accepted'[t + k].batch
      <3>1. CASE k = n + 1
        <4>1. t + k = len + 1 /\ inbox'[k] = name /\ a.batch = name
          BY <1>1, <1>5, <1>7, <3>1
        <4> QED
          BY <1>6, <4>1
      <3>2. CASE k # n + 1
        <4>1. k \in 1 .. n /\ t + k \in 1 .. len
          <5>1. k \in Nat /\ 1 <= k /\ k <= n
            BY <1>5, <3>2
          <5>2. t + k >= 1 /\ t + k <= len /\ t + k \in Nat
            <6>1. t + n = len /\ t \in Nat /\ t + k <= t + n
              BY <1>3, <1>5, <5>1
            <6> QED
              BY <1>5, <5>1, <6>1
          <5> QED
            BY <1>5, <5>1, <5>2
        <4>2. inbox[k] = accepted[t + k].batch
          BY <1>3, <4>1
        <4> QED
          BY <1>6, <1>7, <4>1, <4>2
      <3> QED
        BY <3>1, <3>2
    <2>2. inbox' = [k \in 1 .. n + 1 |-> inbox'[k]]
      BY <1>7
    <2> QED
      BY <2>1, <2>2
  <1>10. SubSeq(accepted', 1, t) = SubSeq(accepted, 1, t)
    <2>1. PICK m : m = accepted'
      OBVIOUS
    <2>2. \A p \in 1 .. t : m[p] = accepted[p] /\ accepted[p] \in Accepteds
      BY <1>3, <1>5, <1>6, <2>1
    <2>3. /\ SubSeq(accepted, 1, t) \in Seq(Accepteds) /\ Len(SubSeq(accepted, 1, t)) = t
          /\ \A p \in 1 .. t : SubSeq(accepted, 1, t)[p] = accepted[p]
      BY <1>3, <1>4, <1>5, <2>2
    <2>4. /\ SubSeq(m, 1, t) \in Seq(Accepteds) /\ Len(SubSeq(m, 1, t)) = t
          /\ \A p \in 1 .. t : SubSeq(m, 1, t)[p] = m[p]
      <3>1. m \in Seq(Accepteds) /\ t \in Nat /\ t <= Len(m) /\ \A p \in 1 .. t : m[p] \in Accepteds
        BY <1>3, <1>5, <1>6, <2>1, <2>2
      <3> QED
        BY <3>1
    <2> QED
      BY <2>1, <2>2, <2>3, <2>4
  <1>11. Conserved'
    <2>1. LogSnaps \o working.left = Flat(SubSeq(accepted, 1, t))
      BY <1>1 DEF QueueInv, Conserved, LogSnaps
    <2>2. LogSnaps' \o working'.left = Flat(SubSeq(accepted', 1, Taken'))
      BY <1>2, <1>8, <1>10, <2>1 DEF LogSnaps
    <2> QED
      BY <1>7, <1>8, <1>9, <2>2 DEF Conserved, LogSnaps
  <1>12. WorkTypes'
    BY <1>2, <1>7 DEF QueueInv, WorkTypes
  <1>13. TakenBefore'
    <2>1. a.at <= ingestClock
      BY <1>1, <1>3
    <2>2. \A p \in 1 .. len + 1 : p \in 1 .. len \/ p = len + 1
      BY <1>5
    <2>3. \A p \in DOMAIN accepted' : accepted'[p].at <= ingestClock'
      BY <1>2, <1>3, <1>6, <2>1, <2>2
    <2>4. \A p \in 1 .. t : accepted'[p] = accepted[p]
      BY <1>5, <1>6
    <2>5. working' # NoItem => \A p \in 1 .. t : accepted'[p].at <= working'.now
      BY <1>2, <1>3, <2>4
    <2> QED
      BY <1>3, <1>8, <2>3, <2>5 DEF TakenBefore
  <1>14. Distinct(events)'
    BY <1>2 DEF QueueInv, Distinct
  <1> QED
    BY <1>11, <1>12, <1>13, <1>14 DEF QueueInv

LEMMA QueueWaits ==
  ASSUME GuardTypes, QueueInv, UNCHANGED <<accepted, inbox, working, events, log>>,
         ingestClock' \in Nat, ingestClock <= ingestClock'
  PROVE  QueueInv'
  <1>1. ingestClock \in Nat /\ working.now \in Nat /\ Taken' = Taken
    BY DEF GuardTypes, QueueInv, WorkTypes, Items, Taken
  <1>2. Conserved'
    BY <1>1 DEF QueueInv, Conserved
  <1>3. WorkTypes'
    BY <1>1 DEF QueueInv, WorkTypes
  <1>4. TakenBefore'
    <2>1. \A p \in DOMAIN accepted : accepted[p].at \in Nat /\ accepted[p].at <= ingestClock
      <3>1. \A p \in DOMAIN accepted : accepted[p] \in Accepteds
        BY DEF GuardTypes
      <3> QED
        BY <3>1 DEF QueueInv, TakenBefore, Accepteds
    <2>2. \A p \in DOMAIN accepted : accepted[p].at <= ingestClock'
      BY <1>1, <2>1
    <2> QED
      BY <1>1, <2>2 DEF QueueInv, TakenBefore
  <1>5. Distinct(events)'
    BY DEF QueueInv, Distinct
  <1> QED
    BY <1>2, <1>3, <1>4, <1>5 DEF QueueInv

-----------------------------------------------------------------------------
(* The series admitted to a bucket. *)

LEMMA ListFinite ==
  ASSUME NEW s, IsList(s)
  PROVE  IsFiniteSet(ToSet(s))
  <1>1. Len(s) \in Nat /\ DOMAIN s = 1 .. Len(s) /\ ToSet(s) = {s[n] : n \in 1 .. Len(s)}
    BY DEF IsList, ToSet
  <1>2. IsFiniteSet(1 .. Len(s))
    <2>1. 1 \in Int /\ Len(s) \in Int
      BY <1>1
    <2> QED
      BY <2>1, FS_Interval
  <1> DEFINE f == [n \in 1 .. Len(s) |-> s[n]]
  <1>3. f \in Surjection(1 .. Len(s), ToSet(s))
    BY <1>1 DEF Surjection
  <1> HIDE DEF f
  <1> QED
    BY <1>2, <1>3, FS_Surjection

LEMMA CandidatesFinite ==
  ASSUME NEW n \in DOMAIN Batches
  PROVE  IsFiniteSet(Candidates(Batches[n]))
  <1>1. PICK snaps : snaps = Batches[n].snapshots
    OBVIOUS
  <1>2. IsList(snaps) /\ \A s \in ToSet(snaps) : IsList(s.series)
    BY <1>1, IngestionAssumption DEF IsSnapshot
  <1>3. IsFiniteSet(ToSet(snaps))
    BY <1>2, ListFinite
  <1> DEFINE F(s) == {<<KeyOf(s), d>> : d \in ToSet(s.series)}
             G == {F(s) : s \in ToSet(snaps)}
  <1>4. ASSUME NEW s \in ToSet(snaps) PROVE IsFiniteSet(F(s))
    <2>1. IsFiniteSet(ToSet(s.series))
      BY <1>2, ListFinite
    <2>2. PICK key, dims : key = KeyOf(s) /\ dims = ToSet(s.series)
      OBVIOUS
    <2> DEFINE f == [d \in dims |-> <<key, d>>]
    <2>3. f \in Surjection(dims, {<<key, d>> : d \in dims})
      BY DEF Surjection
    <2> HIDE DEF f
    <2>4. IsFiniteSet({<<key, d>> : d \in dims})
      BY <2>1, <2>2, <2>3, FS_Surjection
    <2> QED
      BY <2>2, <2>4
  <1>5. IsFiniteSet(G)
    <2> DEFINE f == [s \in ToSet(snaps) |-> F(s)]
    <2>1. f \in Surjection(ToSet(snaps), G)
      <3> HIDE DEF F
      <3> QED
        BY DEF Surjection
    <2> HIDE DEF f, G
    <2> QED
      BY <1>3, <2>1, FS_Surjection
  <1>6. \A x \in G : IsFiniteSet(x)
    BY <1>4
  <1>7. IsFiniteSet(UNION G)
    <2> HIDE DEF G
    <2> QED
      BY <1>5, <1>6, FS_UNION
  <1> QED
    BY <1>1, <1>7 DEF Candidates

ReserveInv == ReservedCounts /\ CapKept

LEMMA CandidateTypes ==
  /\ \A n \in DOMAIN Batches : Candidates(Batches[n]) \subseteq AnyCandidates
  /\ \A x \in AnyCandidates : x[1][2] \in Nat
  <1>1. ASSUME NEW n \in DOMAIN Batches, NEW x \in Candidates(Batches[n]) PROVE x[1][2] \in Nat
    <2>1. PICK s \in ToSet(Batches[n].snapshots) : \E d \in ToSet(s.series) : x = <<KeyOf(s), d>>
      BY DEF Candidates
    <2>2. s.native \in Nat
      BY IngestionAssumption DEF IsSnapshot
    <2>3. PICK k \in Nat : k = Index(s.native)
      BY <2>2, IndexType
    <2>4. k * Width \in Nat
      BY StartLater
    <2>5. x[1] = <<s.instance, k * Width>>
      BY <2>1, <2>3 DEF KeyOf
    <2> QED
      BY <2>4, <2>5
  <1> QED
    BY <1>1 DEF AnyCandidates

LEMMA HoldersFinite ==
  ASSUME GuardTypes, NEW x
  PROVE  /\ IsFiniteSet(Holders(x)) /\ Cardinality(Holders(x)) \in Nat
         /\ Cardinality(Holders(x)) = 0 <=> Holders(x) = {}
  <1>1. Len(accepted) \in Nat /\ Holders(x) \in SUBSET (1 .. Len(accepted))
    BY DEF GuardTypes, Holders
  <1>2. IsFiniteSet(1 .. Len(accepted))
    <2>1. 1 \in Int /\ Len(accepted) \in Int
      BY <1>1
    <2> QED
      BY <2>1, FS_Interval
  <1>3. IsFiniteSet(Holders(x))
    BY <1>1, <1>2, FS_Subset
  <1> QED
    BY <1>3, FS_CardinalityType, FS_EmptySet

LEMMA UnexpiringRight ==
  ASSUME GuardTypes, ReservedCounts
  PROVE  /\ CountsRight(Unexpiring(reserved))
         /\ \A x \in DOMAIN Unexpiring(reserved) : x[1][2] >= Oldest(ingestClock)
  <1>1. PICK r, u : r = reserved /\ u = Unexpiring(reserved)
    OBVIOUS
  <1>2. /\ DOMAIN u = {x \in DOMAIN r : x[1][2] >= Oldest(ingestClock)}
        /\ \A x \in DOMAIN u : u[x] = r[x]
    BY <1>1 DEF Unexpiring, Restrict
  <1>3. CountsRight(r)
    BY <1>1 DEF ReservedCounts
  <1>4. CountsRight(u)
    BY <1>2, <1>3 DEF CountsRight
  <1> QED
    BY <1>1, <1>2, <1>4

LEMMA ReleaseUndoes ==
  ASSUME NEW r, CountsRight(r), NEW b
  PROVE  CountsRight(Release(Reserve(r, b), b))
  <1>1. PICK more, back : more = Reserve(r, b) /\ back = Release(more, b)
    OBVIOUS
  <1>2. PICK wanted : wanted = Candidates(b)
    OBVIOUS
  <1> DEFINE one(x) == IF x \in wanted THEN 1 ELSE 0
             had(x) == IF x \in DOMAIN r THEN r[x] ELSE 0
  <1>3. DOMAIN more = DOMAIN r \cup wanted /\ \A x \in DOMAIN more : more[x] = had(x) + one(x)
    BY <1>1, <1>2 DEF Reserve
  <1>4. /\ DOMAIN back = {x \in DOMAIN more : more[x] - one(x) > 0}
        /\ \A x \in DOMAIN back : back[x] = more[x] - one(x)
    BY <1>1, <1>2 DEF Release, Restrict
  <1>5. \A x \in DOMAIN r : r[x] \in Nat \ {0}
    BY DEF CountsRight
  <1>6. \A x \in DOMAIN more : more[x] - one(x) = had(x) /\ (had(x) > 0 <=> x \in DOMAIN r)
    BY <1>3, <1>5
  <1>7. DOMAIN back = DOMAIN r /\ \A x \in DOMAIN back : back[x] = r[x]
    BY <1>3, <1>4, <1>6
  <1>8. CountsRight(back)
    BY <1>7 DEF CountsRight
  <1> QED
    BY <1>1, <1>8

(* The reservations, or what is right about them, without a new acceptance. *)
LEMMA CountsStay ==
  ASSUME ReserveInv, UNCHANGED <<accepted, ingestClock>>, CountsRight(reserved')
  PROVE  ReserveInv'
  <1>1. \A x : Holders(x)' = Holders(x)
    BY DEF Holders, CandidatesOf
  <1>2. CountsRight(reserved)'
    <2>1. PICK r : r = reserved'
      OBVIOUS
    <2> QED
      BY <1>1, <2>1 DEF CountsRight
  <1>3. \A t, key : AdmittedBy(t, key)' = AdmittedBy(t, key)
    BY DEF AdmittedBy, CandidatesOf
  <1>4. CapKept'
    BY <1>3 DEF ReserveInv, CapKept
  <1> QED
    BY <1>2, <1>4 DEF ReserveInv, ReservedCounts

LEMMA CountsTick ==
  ASSUME GuardTypes, ReserveInv, \A p \in DOMAIN accepted : accepted[p].at <= ingestClock,
         ingestClock' = ingestClock + 1, UNCHANGED <<accepted, reserved>>
  PROVE  ReserveInv'
  <1>1. PICK now : now = ingestClock
    OBVIOUS
  <1>2. now \in Nat /\ now + 1 \in Nat /\ now <= now + 1
    BY <1>1 DEF GuardTypes
  <1>3. Oldest(now) \in Int /\ Oldest(now + 1) \in Int /\ Oldest(now) <= Oldest(now + 1)
    BY <1>2, OldestType, OldestGrows
  <1>4. \A x : Holders(x)' = Holders(x)
    BY DEF Holders, CandidatesOf
  <1>5. \A x \in AnyCandidates : x[1][2] >= Oldest(now + 1) => x[1][2] >= Oldest(now)
    BY <1>3, CandidateTypes
  <1>6. CountsRight(reserved)'
    <2>1. CountsRight(reserved)
      BY DEF ReserveInv, ReservedCounts
    <2> QED
      BY <1>1, <1>4, <1>5, <2>1 DEF CountsRight
  <1>7. \A t, key : AdmittedBy(t, key)' = AdmittedBy(t, key)
    BY DEF AdmittedBy, CandidatesOf
  <1>8. \A p \in DOMAIN accepted : accepted[p].at \in Nat /\ accepted[p].at <= now
    <2>1. \A p \in DOMAIN accepted : accepted[p] \in Accepteds
      BY DEF GuardTypes
    <2> QED
      BY <1>1, <2>1 DEF Accepteds
  <1>9. \A key : AdmittedBy(now + 1, key) = AdmittedBy(now, key)
    <2>1. \A p \in DOMAIN accepted : accepted[p].at <= now + 1 <=> accepted[p].at <= now
      BY <1>2, <1>8
    <2> QED
      BY <2>1 DEF AdmittedBy
  <1>10. ASSUME NEW t \in 0 .. now + 1, NEW n \in DOMAIN Batches, NEW c \in Candidates(Batches[n]),
                c[1][2] >= Oldest(t)
         PROVE  IsFiniteSet(AdmittedBy(t, c[1])) /\ Cardinality(AdmittedBy(t, c[1])) <= SeriesCap
    <2>1. CASE t \in 0 .. now
      BY <1>1, <1>10, <2>1 DEF ReserveInv, CapKept
    <2>2. CASE t = now + 1
      <3>1. c \in AnyCandidates /\ c[1][2] >= Oldest(now) /\ now \in 0 .. now
        BY <1>2, <1>5, <1>10, <2>2, CandidateTypes
      <3>2. IsFiniteSet(AdmittedBy(now, c[1])) /\ Cardinality(AdmittedBy(now, c[1])) <= SeriesCap
        BY <1>1, <3>1 DEF ReserveInv, CapKept
      <3> QED
        BY <1>9, <2>2, <3>2
    <2>3. t \in 0 .. now \/ t = now + 1
      BY <1>2
    <2> QED
      BY <2>1, <2>2, <2>3
  <1>11. CapKept'
    BY <1>1, <1>7, <1>10 DEF CapKept
  <1> QED
    BY <1>6, <1>11 DEF ReserveInv, ReservedCounts

(* An acceptance reserves the series of its batch, which fit. *)
LEMMA HoldersGrow ==
  ASSUME GuardTypes, NEW name \in DOMAIN Batches, NEW a, a.batch = name, accepted' = Append(accepted, a),
         NEW n, n = Len(accepted)
  PROVE  /\ n \in Nat /\ DOMAIN accepted = 1 .. n /\ DOMAIN accepted' = 1 .. n + 1
         /\ \A p \in 1 .. n : accepted'[p] = accepted[p] /\ CandidatesOf(p)' = CandidatesOf(p)
         /\ accepted'[n + 1] = a /\ CandidatesOf(n + 1)' = Candidates(Batches[name])
         /\ \A x : Holders(x)' = IF x \in Candidates(Batches[name]) THEN Holders(x) \cup {n + 1}
                                 ELSE Holders(x)
  <1>2. /\ n \in Nat /\ DOMAIN accepted = 1 .. n /\ DOMAIN accepted' = 1 .. n + 1
        /\ accepted'[n + 1] = a /\ \A p \in 1 .. n : accepted'[p] = accepted[p]
    BY DEF GuardTypes
  <1>3. /\ \A p \in 1 .. n : CandidatesOf(p)' = CandidatesOf(p)
        /\ CandidatesOf(n + 1)' = Candidates(Batches[name])
    BY <1>2 DEF CandidatesOf
  <1>4. \A p \in 1 .. n + 1 : p \in 1 .. n \/ p = n + 1
    BY <1>2
  <1>5. 1 .. n \subseteq 1 .. n + 1 /\ n + 1 \in 1 .. n + 1
    BY <1>2
  <1>6. \A x : Holders(x)' = IF x \in Candidates(Batches[name]) THEN Holders(x) \cup {n + 1} ELSE Holders(x)
    BY <1>2, <1>3, <1>4, <1>5 DEF Holders
  <1> QED
    BY <1>2, <1>3, <1>6

LEMMA AcceptCounts ==
  ASSUME GuardTypes, ReserveInv, NEW name \in DOMAIN Batches, Accept(name)
  PROVE  CountsRight(reserved)'
  <1>1. PICK wanted, u, r, n :
          wanted = Candidates(Batches[name]) /\ u = Unexpiring(reserved) /\ r = reserved' /\ n = Len(accepted)
    OBVIOUS
  <1> DEFINE a == [batch |-> name, at |-> ingestClock]
             one(x) == IF x \in wanted THEN 1 ELSE 0
             had(x) == IF x \in DOMAIN u THEN u[x] ELSE 0
  <1>2. accepted' = Append(accepted, a) /\ UNCHANGED ingestClock /\ r = Reserve(u, Batches[name])
    BY <1>1 DEF Accept, Send
  <1>3. a.batch = name
    OBVIOUS
  <1>4. /\ n \in Nat /\ DOMAIN accepted = 1 .. n
        /\ \A x : Holders(x)' = IF x \in wanted THEN Holders(x) \cup {n + 1} ELSE Holders(x)
    <2> HIDE DEF a
    <2> QED
      BY <1>1, <1>2, <1>3, HoldersGrow
  <1>5. CountsRight(u)
    BY <1>1, UnexpiringRight DEF ReserveInv
  <1>6. DOMAIN r = DOMAIN u \cup wanted /\ \A x \in DOMAIN r : r[x] = had(x) + one(x)
    BY <1>1, <1>2 DEF Reserve
  <1>7. wanted \subseteq AnyCandidates
    BY <1>1, CandidateTypes
  <1>8. /\ DOMAIN r \subseteq AnyCandidates
        /\ \A x \in DOMAIN r : r[x] \in Nat \ {0}
        /\ \A x : had(x) \in Nat /\ (IF x \in DOMAIN r THEN r[x] ELSE 0) = had(x) + one(x)
    <2>1. \A x \in DOMAIN u : u[x] \in Nat \ {0} /\ x \in AnyCandidates
      BY <1>5 DEF CountsRight
    <2>2. \A x : had(x) \in Nat /\ (x \in DOMAIN u => had(x) >= 1) /\ (x \notin DOMAIN u => had(x) = 0)
      BY <2>1
    <2>3. \A x : one(x) \in Nat /\ (x \in wanted => one(x) = 1) /\ (x \notin wanted => one(x) = 0)
      OBVIOUS
    <2> HIDE DEF had, one
    <2>4. DOMAIN r \subseteq AnyCandidates
      BY <1>6, <1>7, <2>1
    <2>5. \A x \in DOMAIN r : r[x] \in Nat \ {0}
      BY <1>6, <2>2, <2>3
    <2>6. \A x : (IF x \in DOMAIN r THEN r[x] ELSE 0) = had(x) + one(x)
      BY <1>6, <2>2, <2>3
    <2> QED
      BY <2>2, <2>4, <2>5, <2>6
  <1>9. ASSUME NEW x \in AnyCandidates, x[1][2] >= Oldest(ingestClock)
        PROVE  had(x) + one(x) = Cardinality(Holders(x)')
    <2>1. had(x) = Cardinality(Holders(x))
      BY <1>5, <1>9 DEF CountsRight
    <2>2. IsFiniteSet(Holders(x)) /\ Cardinality(Holders(x)) \in Nat
      BY HoldersFinite
    <2>3. n + 1 \notin Holders(x)
      BY <1>4 DEF Holders
    <2>4. Cardinality(Holders(x) \cup {n + 1}) = Cardinality(Holders(x)) + 1
      BY <2>2, <2>3, FS_AddElement
    <2> HIDE DEF had
    <2>5. CASE x \in wanted
      <3>1. one(x) = 1 /\ Holders(x)' = Holders(x) \cup {n + 1}
        BY <1>4, <2>5
      <3> HIDE DEF one
      <3> QED
        BY <2>1, <2>4, <3>1
    <2>6. CASE x \notin wanted
      <3>1. one(x) = 0 /\ Holders(x)' = Holders(x)
        BY <1>4, <2>6
      <3> HIDE DEF one
      <3> QED
        BY <2>1, <2>2, <3>1
    <2> QED
      BY <2>5, <2>6
  <1>10. \A x \in AnyCandidates : x[1][2] >= Oldest(ingestClock') =>
           (IF x \in DOMAIN r THEN r[x] ELSE 0) = Cardinality(Holders(x)')
    BY <1>2, <1>8, <1>9
  <1> QED
    BY <1>1, <1>8, <1>10 DEF CountsRight

(* What is reserved in a retained bucket is what was admitted to it. *)
LEMMA ReservedIsAdmitted ==
  ASSUME GuardTypes, CountsRight(reserved), \A p \in DOMAIN accepted : accepted[p].at <= ingestClock,
         NEW key, key[2] >= Oldest(ingestClock)
  PROVE  SeriesOf(Unexpiring(reserved), key) = AdmittedBy(ingestClock, key)
  <1>1. PICK u : u = Unexpiring(reserved)
    OBVIOUS
  <1>2. CountsRight(u)
    BY <1>1, UnexpiringRight DEF ReservedCounts
  <1>3. \A x \in AnyCandidates : x[1] = key => (x \in DOMAIN u <=> Holders(x) # {})
    <2> SUFFICES ASSUME NEW x \in AnyCandidates, x[1] = key PROVE x \in DOMAIN u <=> Holders(x) # {}
      OBVIOUS
    <2>1. (IF x \in DOMAIN u THEN u[x] ELSE 0) = Cardinality(Holders(x))
      BY <1>2 DEF CountsRight
    <2>2. Cardinality(Holders(x)) = 0 <=> Holders(x) = {}
      BY HoldersFinite
    <2>3. x \in DOMAIN u => u[x] # 0
      BY <1>2 DEF CountsRight
    <2> QED
      BY <2>1, <2>2, <2>3
  <1>4. DOMAIN u \subseteq AnyCandidates
    BY <1>2 DEF CountsRight
  <1>5. \A x : Holders(x) # {} <=> \E p \in DOMAIN accepted : accepted[p].at <= ingestClock /\ x \in CandidatesOf(p)
    BY DEF Holders
  <1> QED
    BY <1>1, <1>3, <1>4, <1>5 DEF SeriesOf, AdmittedBy

LEMMA AcceptFits ==
  ASSUME GuardTypes, ReserveInv, \A p \in DOMAIN accepted : accepted[p].at <= ingestClock,
         NEW name \in DOMAIN Batches, Accept(name)
  PROVE  CapKept'
  <1>1. PICK wanted, n, now :
          wanted = Candidates(Batches[name]) /\ n = Len(accepted) /\ now = ingestClock
    OBVIOUS
  <1> DEFINE a == [batch |-> name, at |-> now]
  <1>2. accepted' = Append(accepted, a) /\ ingestClock' = now /\ Fits(Unexpiring(reserved), Batches[name])
    BY <1>1 DEF Accept, Send
  <1>3. a.batch = name /\ a.at = now /\ now \in Nat
    BY <1>1 DEF GuardTypes
  <1> HIDE DEF a
  <1>4. /\ n \in Nat /\ DOMAIN accepted = 1 .. n /\ DOMAIN accepted' = 1 .. n + 1
        /\ \A p \in 1 .. n : accepted'[p] = accepted[p] /\ CandidatesOf(p)' = CandidatesOf(p)
        /\ accepted'[n + 1] = a /\ CandidatesOf(n + 1)' = wanted
    BY <1>1, <1>2, <1>3, HoldersGrow
  <1>5. /\ \A p \in 1 .. n + 1 : p \in 1 .. n \/ p = n + 1
        /\ 1 .. n \subseteq 1 .. n + 1 /\ n + 1 \in 1 .. n + 1
    BY <1>4
  <1> DEFINE fresh(key) == {x \in wanted : x[1] = key}
  <1>6. wanted \subseteq AnyCandidates
    BY <1>1, CandidateTypes
  <1>7. ASSUME NEW t \in 0 .. now, NEW m \in DOMAIN Batches, NEW c \in Candidates(Batches[m]),
               c[1][2] >= Oldest(t)
        PROVE  IsFiniteSet(AdmittedBy(t, c[1])') /\ Cardinality(AdmittedBy(t, c[1])') <= SeriesCap
    <2>1. PICK key : key = c[1]
      OBVIOUS
    <2>2. IsFiniteSet(AdmittedBy(t, key)) /\ Cardinality(AdmittedBy(t, key)) <= SeriesCap
      BY <1>1, <1>7, <2>1 DEF ReserveInv, CapKept
    <2>3. CASE ~(now <= t)
      <3>1. AdmittedBy(t, key)' = AdmittedBy(t, key)
        BY <1>3, <1>4, <1>5, <2>3 DEF AdmittedBy
      <3> QED
        BY <2>1, <2>2, <3>1
    <2>4. CASE now <= t
      <3>1. t = now
        BY <1>3, <2>4
      <3>2. AdmittedBy(now, key)' = AdmittedBy(now, key) \cup fresh(key)
        <4>1. now <= now
          BY <1>3
        <4> QED
          BY <1>3, <1>4, <1>5, <1>6, <4>1 DEF AdmittedBy
      <3>3. CASE fresh(key) = {}
        BY <2>1, <2>2, <3>1, <3>2, <3>3
      <3>4. CASE fresh(key) # {}
        <4>1. PICK x \in wanted : x[1] = key
          BY <3>4
        <4>2. Cardinality(SeriesOf(Unexpiring(reserved), key) \cup fresh(key)) <= SeriesCap
          BY <1>1, <1>2, <4>1 DEF Fits
        <4>3. SeriesOf(Unexpiring(reserved), key) = AdmittedBy(now, key)
          BY <1>1, <1>7, <2>1, <3>1, ReservedIsAdmitted DEF ReserveInv, ReservedCounts
        <4>4. IsFiniteSet(wanted) /\ fresh(key) \in SUBSET wanted
          BY <1>1, CandidatesFinite
        <4>5. IsFiniteSet(fresh(key))
          <5> HIDE DEF fresh
          <5> QED
            BY <4>4, FS_Subset
        <4>6. IsFiniteSet(AdmittedBy(now, key) \cup fresh(key))
          <5> HIDE DEF fresh
          <5> QED
            BY <2>2, <3>1, <4>5, FS_Union
        <4> QED
          BY <2>1, <3>1, <3>2, <4>2, <4>3, <4>6
      <3> QED
        BY <3>3, <3>4
    <2> QED
      BY <2>3, <2>4
  <1> QED
    BY <1>2, <1>7 DEF CapKept

LEMMA AcceptReserves ==
  ASSUME GuardTypes, ReserveInv, \A p \in DOMAIN accepted : accepted[p].at <= ingestClock,
         NEW name \in DOMAIN Batches, Accept(name)
  PROVE  ReserveInv'
  BY AcceptCounts, AcceptFits DEF ReserveInv, ReservedCounts

(* No request changes what is right about the reservations. *)
LEMMA PostReserves ==
  ASSUME GuardTypes, ReserveInv, \A p \in DOMAIN accepted : accepted[p].at <= ingestClock,
         NEW name \in DOMAIN Batches, Post(name)
  PROVE  ReserveInv'
  <1> DEFINE b == Batches[name]
  <1>1. PICK u : u = Unexpiring(reserved)
    OBVIOUS
  <1>2. CountsRight(u) /\ CountsRight(reserved)
    BY <1>1, UnexpiringRight DEF ReserveInv, ReservedCounts
  <1>3. CASE Repeat(b)
    <2>1. reserved' = reserved /\ UNCHANGED <<accepted, ingestClock>>
      BY <1>3 DEF Repeat, Send, Quiet
    <2> QED
      BY <1>2, <2>1, CountsStay
  <1>4. CASE Refuse(b)
    <2>1. (reserved' = u \/ reserved' = reserved) /\ UNCHANGED <<accepted, ingestClock>>
      BY <1>1, <1>4 DEF Refuse, Send, Quiet
    <2>2. CountsRight(reserved')
      <3>1. CASE reserved' = u
        BY <1>2, <3>1
      <3>2. CASE reserved' = reserved
        BY <1>2, <3>2
      <3> QED
        BY <2>1, <3>1, <3>2
    <2> QED
      BY <2>1, <2>2, CountsStay
  <1>5. CASE Full(b)
    <2>1. reserved' = Release(Reserve(u, b), b) /\ UNCHANGED <<accepted, ingestClock>>
      BY <1>1, <1>5 DEF Full, Send, Quiet
    <2>2. CountsRight(Release(Reserve(u, b), b))
      BY <1>2, ReleaseUndoes
    <2>3. CountsRight(reserved')
      BY <2>1, <2>2
    <2> QED
      BY <2>1, <2>3, CountsStay
  <1>6. CASE Accept(name)
    BY <1>6, AcceptReserves
  <1> QED
    BY <1>3, <1>4, <1>5, <1>6 DEF Post

(* The next snapshot of an item fits in its bucket: whatever lives there was
   admitted to it, as was what the snapshot brings. *)
LEMMA FlatAdmitted ==
  ASSUME GuardTypes, LogTypes, QueueInv, working # NoItem,
         NEW m \in 1 .. Len(LogSnaps \o working.left), NEW snap, snap = (LogSnaps \o working.left)[m],
         NEW d \in ToSet(snap.series)
  PROVE  <<KeyOf(snap), d>> \in AdmittedBy(working.now, KeyOf(snap))
  <1>1. PICK taken, flat, t : taken = TakenPart /\ flat = Flat(taken) /\ t = Taken
    OBVIOUS
  <1>2. /\ taken \in Seq(Accepteds) /\ Len(taken) = t /\ t \in Nat /\ t <= Len(accepted)
        /\ \A p \in 1 .. t : taken[p] = accepted[p]
        /\ Len(accepted) \in Nat
    BY <1>1, TakenParts DEF QueueInv, TakenBefore
  <1>3. flat = LogSnaps \o working.left
    BY <1>1 DEF QueueInv, Conserved, LogSnaps, TakenPart
  <1>4. FlatFrom(taken, t, flat)
    <2>1. t \in 0 .. Len(taken)
      BY <1>2
    <2> QED
      BY <1>1, <1>2, <2>1, FlatType, FlattenedDefined
  <1>5. m \in DOMAIN flat
    <2>1. DOMAIN flat = 1 .. Len(flat)
      BY <1>4 DEF FlatFrom
    <2> QED
      BY <1>3, <2>1
  <1>6. PICK p \in 1 .. t : snap \in ToSet(Batches[taken[p].batch].snapshots)
    BY <1>3, <1>4, <1>5 DEF FlatFrom
  <1>7. p \in DOMAIN accepted /\ accepted[p] = taken[p] /\ accepted[p].batch \in DOMAIN Batches
    <2>1. p \in 1 .. Len(accepted) /\ accepted \in Seq(Accepteds)
      BY <1>2 DEF GuardTypes
    <2>2. p \in DOMAIN accepted /\ accepted[p] \in Accepteds
      BY <2>1
    <2> QED
      BY <1>2, <2>2 DEF Accepteds
  <1>8. accepted[p].at <= working.now
    BY <1>1 DEF QueueInv, TakenBefore
  <1>9. PICK x, key : key = KeyOf(snap) /\ x = <<key, d>>
    OBVIOUS
  <1>10. x \in CandidatesOf(p) /\ x[1] = key
    BY <1>6, <1>7, <1>9 DEF CandidatesOf, Candidates
  <1>11. x \in AnyCandidates
    BY <1>7, <1>10 DEF CandidatesOf, AnyCandidates
  <1> QED
    BY <1>7, <1>8, <1>9, <1>10, <1>11 DEF AdmittedBy

LEMMA RoomForNext ==
  ASSUME GuardTypes, LogTypes, QueueInv, CapKept, working.left # <<>>,
         NEW snap, snap = working.left[1], Index(snap.native) >= Oldest(working.now)
  PROVE  RoomFor(snap)
  <1>1. PICK s, t, n, now, key :
          s = LogSnaps /\ t = working.left /\ n = Len(log) /\ now = working.now /\ key = KeyOf(snap)
    OBVIOUS
  <1>2. /\ working \in Items /\ working # NoItem /\ s \in Seq(Snapshots) /\ t \in Seq(Snapshots) /\ t # <<>>
        /\ Len(s) = n /\ now \in Nat /\ now <= ingestClock /\ ingestClock \in Nat
    BY <1>1, LogSnapsType DEF QueueInv, WorkTypes, Items, NoItem, GuardTypes
  <1>3. /\ n \in Nat /\ DOMAIN log = 1 .. n /\ Len(t) \in Nat \ {0} /\ snap \in Snapshots
        /\ Len(s \o t) = n + Len(t) /\ (s \o t)[n + 1] = snap
        /\ \A j \in 1 .. n : (s \o t)[j] = log[j].snap
    <2>1. n \in Nat /\ DOMAIN log = 1 .. n
      BY <1>1 DEF LogTypes
    <2>2. \A j \in 1 .. n : s[j] = log[j].snap
      BY <1>1, <2>1 DEF LogSnaps
    <2>3. /\ Len(t) \in Nat \ {0} /\ t[1] \in Snapshots /\ Len(s \o t) = n + Len(t)
          /\ (s \o t)[n + 1] = t[1] /\ \A j \in 1 .. n : (s \o t)[j] = s[j]
      BY <1>2, <2>1
    <2> QED
      BY <1>1, <2>1, <2>2, <2>3
  <1> DEFINE admitted == AdmittedBy(now, key)
             live == Living(log, snap.instance, Index(snap.native))
  <1>4. ASSUME NEW j \in live, NEW d \in ToSet(log[j].snap.series) PROVE <<key, d>> \in admitted
    <2>1. j \in 1 .. n /\ Adds(log[j], snap.instance, Index(snap.native))
      BY <1>3 DEF Living
    <2>2. KeyOf(log[j].snap) = key
      BY <1>1, <2>1 DEF Adds, KeyOf
    <2>3. PICK one : one = log[j].snap
      OBVIOUS
    <2>4. j \in 1 .. Len(s \o t) /\ one = (s \o t)[j]
      BY <1>3, <2>1, <2>3
    <2>5. <<KeyOf(one), d>> \in AdmittedBy(working.now, KeyOf(one))
      BY <1>1, <1>2, <2>3, <2>4, FlatAdmitted
    <2> QED
      BY <1>1, <2>2, <2>3, <2>5
  <1>5. ASSUME NEW d \in ToSet(snap.series) PROVE <<key, d>> \in admitted
    <2>1. n + 1 \in 1 .. Len(s \o t)
      BY <1>3
    <2> QED
      BY <1>1, <1>2, <1>3, <2>1, FlatAdmitted
  <1>6. \A d \in NamedWith(snap) : <<key, d>> \in admitted
    BY <1>4, <1>5 DEF NamedWith, NamedIn
  <1>7. CASE NamedWith(snap) = {}
    <2>1. IsFiniteSet({}) /\ Cardinality({}) = 0
      BY FS_EmptySet
    <2> QED
      BY <1>7, <2>1, StoreAssumption DEF RoomFor
  <1>8. CASE NamedWith(snap) # {}
    <2>1. PICK d0 \in NamedWith(snap) : <<key, d0>> \in admitted
      BY <1>6, <1>8
    <2>2. PICK m \in DOMAIN Batches : <<key, d0>> \in Candidates(Batches[m])
      BY <2>1 DEF AdmittedBy, AnyCandidates
    <2>3. PICK c : c = <<key, d0>>
      OBVIOUS
    <2>4. c[1] = key /\ c[1][2] >= Oldest(now)
      <3>1. PICK k \in Nat : k = Index(snap.native)
        BY <1>3, SnapshotTypes
      <3>2. k * Width \in Nat /\ k <= k * Width
        BY StartLater
      <3>3. key[2] = k * Width
        BY <1>1, <3>1 DEF KeyOf
      <3>4. Oldest(now) \in Int
        BY <1>2, OldestType
      <3> QED
        BY <1>1, <2>3, <3>1, <3>2, <3>3, <3>4
    <2>5. now \in 0 .. ingestClock
      BY <1>2
    <2>6. IsFiniteSet(admitted) /\ Cardinality(admitted) <= SeriesCap
      BY <2>2, <2>3, <2>4, <2>5 DEF CapKept
    <2> DEFINE holding == {x \in admitted : x[2] \in NamedWith(snap)}
               f == [x \in holding |-> x[2]]
    <2>7. holding \in SUBSET admitted
      OBVIOUS
    <2>8. f \in Surjection(holding, NamedWith(snap))
      <3>1. \A d \in NamedWith(snap) : <<key, d>> \in holding /\ <<key, d>>[2] = d
        BY <1>6
      <3> HIDE DEF admitted
      <3> QED
        BY <3>1 DEF Surjection
    <2> HIDE DEF admitted, holding, f
    <2>9. IsFiniteSet(holding) /\ Cardinality(holding) <= Cardinality(admitted)
      BY <2>6, <2>7, FS_Subset
    <2>10. IsFiniteSet(NamedWith(snap)) /\ Cardinality(NamedWith(snap)) <= Cardinality(holding)
      BY <2>8, <2>9, FS_Surjection
    <2>11. /\ Cardinality(NamedWith(snap)) \in Nat /\ Cardinality(holding) \in Nat /\ Cardinality(admitted) \in Nat
           /\ SeriesCap \in Nat
      BY <2>6, <2>9, <2>10, FS_CardinalityType, StoreAssumption
    <2> QED
      BY <2>6, <2>9, <2>10, <2>11 DEF RoomFor
  <1> QED
    BY <1>7, <1>8

-----------------------------------------------------------------------------
(* The inductive invariant. *)

StoreInv == RingTypes /\ LogTypes /\ DroppedTypes /\ RingsShow /\ dropped.cap = 0
FeedInv == GuardTypes /\ StoreInv /\ QueueInv /\ ReserveInv

LEMMA StoreStart == IngestInit => StoreInv
  <1> SUFFICES ASSUME IngestInit PROVE StoreInv
    OBVIOUS
  <1>1. /\ rings = [i \in Instances |-> [s \in Slots |-> Unused]] /\ log = <<>>
        /\ dropped = [old |-> 0, retention |-> 0, cap |-> 0]
    BY DEF IngestInit, StoreInit
  <1>2. IsBucket(Unused) /\ Unused.start = None
    BY DEF IsBucket, Unused, None
  <1>3. RingTypes
    <2> HIDE DEF Unused
    <2> QED
      BY <1>1, <1>2 DEF RingTypes
  <1>4. LogTypes
    <2>1. log \in Seq({})
      BY <1>1
    <2> QED
      BY <1>1, <2>1 DEF LogTypes
  <1>5. DroppedTypes /\ dropped.cap = 0
    BY <1>1 DEF DroppedTypes
  <1>6. ASSUME NEW i \in Instances, NEW k \in Nat PROVE Shows(log, rings[i][k % Capacity], k, Living(log, i, k))
    <2>1. rings[i][k % Capacity] = Unused
      BY <1>1, SlotType
    <2>2. Living(log, i, k) = {}
      BY <1>1 DEF Living
    <2>3. k # None
      BY DEF None
    <2> QED
      BY <1>2, <2>1, <2>2, <2>3 DEF Shows
  <1> QED
    BY <1>3, <1>4, <1>5, <1>6 DEF StoreInv, RingsShow

LEMMA QueueStart == IngestInit => QueueInv
  <1> SUFFICES ASSUME IngestInit PROVE QueueInv
    OBVIOUS
  <1>1. PICK empty : empty = <<>>
    OBVIOUS
  <1>2. /\ inbox = empty /\ working = NoItem /\ events = empty /\ accepted = empty /\ log = empty
        /\ ingestClock \in Nat
    BY <1>1, IngestionAssumption DEF IngestInit, StoreInit
  <1>3. /\ Len(empty) = 0 /\ DOMAIN empty = {} /\ (\A S : empty \in Seq(S)) /\ empty \o empty = empty
    BY <1>1
  <1>4. Taken = 0
    BY <1>2, <1>3 DEF Taken
  <1>5. WorkTypes
    <2>1. NoItem \in Items /\ NoItem.now = 0
      BY <1>1, <1>3 DEF NoItem, Items
    <2>2. 0 <= ingestClock
      BY <1>2
    <2>3. events \in Seq({}) /\ inbox \in Seq(DOMAIN Batches)
      BY <1>2, <1>3
    <2> QED
      BY <1>2, <2>1, <2>2, <2>3 DEF WorkTypes
  <1>6. Conserved
    <2>1. NoItem.left = empty
      BY <1>1 DEF NoItem
    <2>2. LogSnaps = empty
      BY <1>1, <1>2, <1>3 DEF LogSnaps
    <2>3. SubSeq(accepted, 1, 0) = empty
      BY <1>1, <1>2
    <2>4. Flat(empty) = empty
      BY <1>1, FlatNone
    <2>5. LogSnaps \o working.left = Flat(SubSeq(accepted, 1, Taken))
      BY <1>2, <1>3, <1>4, <2>1, <2>2, <2>3, <2>4
    <2>6. inbox = [n \in 1 .. Len(inbox) |-> accepted[Taken + n].batch]
      BY <1>1, <1>2, <1>3
    <2> QED
      BY <2>5, <2>6 DEF Conserved, LogSnaps
  <1>7. TakenBefore
    BY <1>2, <1>3, <1>4 DEF TakenBefore
  <1>8. Distinct(events)
    BY <1>2, <1>3 DEF Distinct
  <1> QED
    BY <1>5, <1>6, <1>7, <1>8 DEF QueueInv

LEMMA ReserveStart == IngestInit => ReserveInv
  <1> SUFFICES ASSUME IngestInit PROVE ReserveInv
    OBVIOUS
  <1>1. PICK empty : empty = <<>>
    OBVIOUS
  <1>2. reserved = empty /\ accepted = empty /\ DOMAIN empty = {}
    BY <1>1 DEF IngestInit
  <1>3. \A x : Holders(x) = {}
    BY <1>2 DEF Holders
  <1>4. IsFiniteSet({}) /\ Cardinality({}) = 0
    BY FS_EmptySet
  <1>5. ReservedCounts
    BY <1>2, <1>3, <1>4 DEF ReservedCounts, CountsRight
  <1>6. \A t, key : AdmittedBy(t, key) = {}
    BY <1>2 DEF AdmittedBy
  <1>7. CapKept
    <2>1. 0 <= SeriesCap
      BY StoreAssumption
    <2>2. \A t, key : IsFiniteSet(AdmittedBy(t, key)) /\ Cardinality(AdmittedBy(t, key)) <= SeriesCap
      BY <1>4, <1>6, <2>1
    <2> QED
      BY <2>2 DEF CapKept
  <1> QED
    BY <1>5, <1>7 DEF ReserveInv

(* The store, while nothing is processed. *)
LEMMA StoreWaits == ASSUME StoreInv, UNCHANGED storeVars PROVE StoreInv'
  <1>1. RingTypes'
    BY DEF StoreInv, storeVars, RingTypes
  <1>2. LogTypes'
    BY DEF StoreInv, storeVars, LogTypes
  <1>3. DroppedTypes' /\ dropped'.cap = 0
    BY DEF StoreInv, storeVars, DroppedTypes
  <1>4. RingsShow'
    BY DEF StoreInv, storeVars, RingsShow
  <1> QED
    BY <1>1, <1>2, <1>3, <1>4 DEF StoreInv

LEMMA ProcessStep ==
  ASSUME FeedInv, ProcessNext
  PROVE  StoreInv' /\ QueueInv' /\ ReserveInv'
  <1>1. PICK snap, now : snap = working.left[1] /\ now = working.now
    OBVIOUS
  <1>2. /\ working.left # <<>> /\ working' = [working EXCEPT !.left = Tail(working.left)]
        /\ Process(snap, now)
        /\ UNCHANGED <<accepted, ingestClock, inbox, events, reserved>>
    BY <1>1 DEF ProcessNext, Requests
  <1>3. snap \in Snapshots /\ now \in Nat
    <2>1. working.left \in Seq(Snapshots) /\ working.now \in Nat
      BY DEF FeedInv, QueueInv, WorkTypes, Items
    <2> QED
      BY <1>1, <1>2, <2>1
  <1>4. /\ RingTypes' /\ LogTypes' /\ RingsShow' /\ DroppedTypes' /\ dropped'.cap = dropped.cap
    <2>1. CASE Discard(snap, now)
      BY <1>3, <2>1, DiscardKeeps DEF FeedInv, StoreInv
    <2>2. CASE Unretained(snap, now)
      BY <1>3, <2>2, UnretainedKeeps DEF FeedInv, StoreInv
    <2>3. CASE Merge(snap, now)
      <3>1. Index(snap.native) >= Oldest(now)
        BY <2>3 DEF Merge
      <3>2. RoomFor(snap)
        BY <1>1, <1>2, <3>1, RoomForNext DEF FeedInv, StoreInv, ReserveInv
      <3> QED
        BY <1>3, <2>3, <3>2, MergeKeeps DEF FeedInv, StoreInv
    <2> QED
      BY <1>2, <2>1, <2>2, <2>3 DEF Process
  <1>5. PICK e : e.snap = snap /\ log' = Append(log, e)
    <2>1. \A kept, shed : Entry(snap, now, kept, shed).snap = snap
      BY DEF Entry
    <2>2. \E kept, shed : log' = Append(log, Entry(snap, now, kept, shed))
      BY <1>2 DEF Process, Discard, Unretained, Merge
    <2> QED
      BY <2>1, <2>2
  <1>6. QueueInv'
    BY <1>1, <1>2, <1>5, ProcessKeeps DEF FeedInv, StoreInv
  <1>7. ReserveInv'
    <2>1. CountsRight(reserved')
      BY <1>2 DEF FeedInv, ReserveInv, ReservedCounts
    <2> QED
      BY <1>2, <2>1, CountsStay DEF FeedInv
  <1> QED
    BY <1>4, <1>6, <1>7 DEF FeedInv, StoreInv

LEMMA FeedStep ==
  ASSUME FeedInv, [IngestNext]_ingestVars
  PROVE  StoreInv' /\ QueueInv' /\ ReserveInv'
  <1>1. /\ GuardTypes /\ StoreInv /\ LogTypes /\ QueueInv /\ ReserveInv /\ ingestClock \in Nat
        /\ \A p \in DOMAIN accepted : accepted[p].at <= ingestClock
        /\ CountsRight(reserved)
    BY DEF FeedInv, StoreInv, GuardTypes, QueueInv, TakenBefore, ReserveInv, ReservedCounts
  <1>2. ASSUME NEW name \in DOMAIN Batches, Post(name) PROVE StoreInv' /\ QueueInv' /\ ReserveInv'
    <2>1. Send
      BY <1>2 DEF Post, Repeat, Refuse, Full, Accept
    <2>2. StoreInv'
      BY <1>1, <2>1, StoreWaits DEF Send
    <2>3. ReserveInv'
      BY <1>1, <1>2, PostReserves
    <2>4. CASE Accept(name)
      BY <1>1, <2>2, <2>3, <2>4, AcceptQueues
    <2>5. CASE UNCHANGED <<accepted, inbox>>
      <3>1. UNCHANGED <<working, events, log, ingestClock>>
        BY <2>1 DEF Send, storeVars
      <3>2. QueueInv'
        <4>1. ingestClock' \in Nat /\ ingestClock <= ingestClock'
          BY <1>1, <3>1
        <4> QED
          BY <1>1, <2>5, <3>1, <4>1, QueueWaits
      <3> QED
        BY <2>2, <2>3, <3>2
    <2> QED
      BY <1>2, <2>4, <2>5 DEF Post, Repeat, Refuse, Full, Quiet
  <1>3. CASE Take
    <2>1. UNCHANGED storeVars /\ UNCHANGED <<accepted, ingestClock>> /\ reserved' = reserved
      BY <1>3 DEF Take, Requests
    <2>2. ReserveInv'
      BY <1>1, <2>1, CountsStay
    <2> QED
      BY <1>1, <1>3, <2>1, <2>2, StoreWaits, TakeKeeps
  <1>4. CASE ProcessNext
    BY <1>4, ProcessStep
  <1>5. CASE Done
    <2>1. UNCHANGED storeVars /\ UNCHANGED <<accepted, ingestClock>> /\ reserved' = reserved
      BY <1>5 DEF Done, Requests
    <2>2. ReserveInv'
      BY <1>1, <2>1, CountsStay
    <2> QED
      BY <1>1, <1>5, <2>1, <2>2, StoreWaits, DoneKeeps
  <1>6. CASE IngestTick
    <2>1. /\ UNCHANGED storeVars /\ UNCHANGED <<accepted, reserved>> /\ ingestClock' = ingestClock + 1
          /\ UNCHANGED <<inbox, working, events, log>>
      BY <1>6 DEF IngestTick, storeVars
    <2>2. ReserveInv'
      BY <1>1, <2>1, CountsTick
    <2>3. ingestClock' \in Nat /\ ingestClock <= ingestClock'
      BY <1>1, <2>1
    <2>4. QueueInv'
      BY <1>1, <2>1, <2>3, QueueWaits
    <2> QED
      BY <1>1, <2>1, <2>2, <2>4, StoreWaits
  <1>7. CASE UNCHANGED ingestVars
    <2>1. /\ UNCHANGED storeVars /\ UNCHANGED <<accepted, ingestClock>> /\ reserved' = reserved
          /\ UNCHANGED <<inbox, working, events, log>>
      BY <1>7 DEF ingestVars, storeVars
    <2>2. ReserveInv'
      BY <1>1, <2>1, CountsStay
    <2>3. ingestClock' \in Nat /\ ingestClock <= ingestClock'
      BY <1>1, <2>1
    <2>4. QueueInv'
      BY <1>1, <2>1, <2>3, QueueWaits
    <2> QED
      BY <1>1, <2>1, <2>2, <2>4, StoreWaits
  <1> QED
    BY <1>2, <1>3, <1>4, <1>5, <1>6, <1>7 DEF IngestNext

IngestInv == GuardInv /\ FeedInv

LEMMA IngestStart == IngestInit => IngestInv
  BY GuardStart, StoreStart, QueueStart, ReserveStart DEF IngestInv, FeedInv, GuardInv

LEMMA IngestStep == IngestInv /\ [IngestNext]_ingestVars => IngestInv'
  <1> SUFFICES ASSUME IngestInv, [IngestNext]_ingestVars PROVE IngestInv'
    OBVIOUS
  <1>1. GuardInv'
    BY GuardStep DEF IngestInv
  <1>2. StoreInv' /\ QueueInv' /\ ReserveInv'
    BY FeedStep DEF IngestInv
  <1> QED
    BY <1>1, <1>2 DEF IngestInv, FeedInv, GuardInv

LEMMA CountsAreExact == ASSUME GuardTypes, ReserveInv PROVE ReservedExactly
  <1>1. \A i \in DOMAIN accepted : CandidatesOf(i) \subseteq AnyCandidates
    <2>1. \A i \in DOMAIN accepted : accepted[i].batch \in DOMAIN Batches
      <3>1. \A i \in DOMAIN accepted : accepted[i] \in Accepteds
        BY DEF GuardTypes
      <3> QED
        BY <3>1 DEF Accepteds
    <2> QED
      BY <2>1, CandidateTypes DEF CandidatesOf
  <1>2. CountsRight(reserved)
    BY DEF ReserveInv, ReservedCounts
  <1> QED
    BY <1>1, <1>2 DEF CountsRight, ReservedExactly

(* MetricStore: for every order of the snapshots and every repetition of them,
   a bucket that was not swept, shed or displaced holds the last thing each
   agent said of each of its native buckets, once, and the latest gauges. *)
THEOREM BucketsHold == IngestSpec => []BucketsExact
  <1>1. IngestInv => BucketsExact
    BY ShownIsExact DEF IngestInv, FeedInv, StoreInv
  <1> QED
    BY <1>1, IngestStart, IngestStep, PTL DEF IngestSpec

(* MetricStore.read: at any time a query sums what the retained buckets of its
   range should hold, and nothing of a bucket whose slot another one took. *)
THEOREM AnswersHold == IngestSpec => []RetainedAnswers
  <1>1. IngestInv => RetainedAnswers
    BY ShownIsAnswered DEF IngestInv, FeedInv, StoreInv, GuardTypes
  <1> QED
    BY <1>1, IngestStart, IngestStep, PTL DEF IngestSpec

(* IngestionService: what was accepted is taken once, in order, and all of it is
   processed; the series reserved in a retained bucket are counted as often as
   batches accepted need them, so that the store never drops a series for its
   cap; and no event is held twice. *)
THEOREM AdmissionHolds == IngestSpec => []AdmittedConserved
  <1>1. IngestInv => AdmittedConserved
    BY CountsAreExact DEF IngestInv, FeedInv, StoreInv, QueueInv, AdmittedConserved, Distinct
  <1> QED
    BY <1>1, IngestStart, IngestStep, PTL DEF IngestSpec

=============================================================================
