--------------------------- MODULE AlertStoreProofs ---------------------------
(***************************************************************************)
(* Facts about sequences without repetitions and about the operators of    *)
(* AlertStore, for all limits of the store.                                *)
(***************************************************************************)
EXTENDS AlertStore, TLAPS, SequenceTheorems, FiniteSetTheorems

Once(s) == \A i, j \in DOMAIN s : s[i] = s[j] => i = j
In(s) == {s[i] : i \in DOMAIN s}

-----------------------------------------------------------------------------
(* Sequences without repetitions. *)

LEMMA EndJoins ==
  ASSUME NEW S, NEW s \in Seq(S), NEW x \in S, Once(s), x \notin In(s)
  PROVE  Append(s, x) \in Seq(S) /\ Once(Append(s, x)) /\ In(Append(s, x)) = In(s) \cup {x}
<1>1. /\ Append(s, x) \in Seq(S) /\ Len(s) \in Nat /\ DOMAIN s = 1 .. Len(s)
      /\ DOMAIN Append(s, x) = 1 .. Len(s) + 1
      /\ Append(s, x)[Len(s) + 1] = x
      /\ \A i \in 1 .. Len(s) : Append(s, x)[i] = s[i]
  OBVIOUS
<1>2. Once(Append(s, x))
  BY <1>1 DEF Once, In
<1>3. In(Append(s, x)) = In(s) \cup {x}
  BY <1>1 DEF In
<1> QED
  BY <1>1, <1>2, <1>3

(* One position taken out. *)
LEMMA AfterRemoveAt ==
  ASSUME NEW S, NEW s \in Seq(S), NEW n \in 1 .. Len(s)
  PROVE  /\ RemoveAt(s, n) \in Seq(S) /\ Len(RemoveAt(s, n)) = Len(s) - 1
         /\ \A i \in 1 .. Len(s) - 1 :
              RemoveAt(s, n)[i] = IF i < n THEN s[i] ELSE s[i + 1]
<1> DEFINE u == SubSeq(s, 1, n - 1)
           v == SubSeq(s, n + 1, Len(s))
<1>1. Len(s) \in Nat /\ n \in Nat /\ 1 <= n /\ n <= Len(s)
  OBVIOUS
<1>2. /\ u \in Seq(S) /\ Len(u) = n - 1 /\ \A i \in 1 .. n - 1 : u[i] = s[i]
  BY <1>1, SubSeqProperties
<1>3. /\ v \in Seq(S) /\ Len(v) = Len(s) - n /\ \A i \in 1 .. Len(s) - n : v[i] = s[n + i]
  BY <1>1, SubSeqProperties
<1>4. RemoveAt(s, n) = u \o v
  BY DEF RemoveAt
<1> HIDE DEF u, v
<1>5. /\ u \o v \in Seq(S) /\ Len(u \o v) = Len(u) + Len(v)
      /\ \A i \in 1 .. Len(u) + Len(v) :
           (u \o v)[i] = IF i <= Len(u) THEN u[i] ELSE v[i - Len(u)]
  BY <1>2, <1>3, ConcatProperties
<1>6. ASSUME NEW i \in 1 .. Len(s) - 1
      PROVE  (u \o v)[i] = IF i < n THEN s[i] ELSE s[i + 1]
  <2>1. i \in 1 .. Len(u) + Len(v)
    BY <1>1, <1>2, <1>3
  <2>2. CASE i < n
    BY <1>1, <1>2, <1>5, <2>1, <2>2
  <2>3. CASE ~(i < n)
    <3>1. i - (n - 1) \in 1 .. Len(s) - n /\ ~(i <= Len(u)) /\ n + (i - (n - 1)) = i + 1
      BY <1>1, <1>2, <2>3
    <3>2. (u \o v)[i] = v[i - (n - 1)]
      BY <1>2, <1>5, <2>1, <3>1
    <3>3. v[i - (n - 1)] = s[n + (i - (n - 1))]
      BY <1>3, <3>1
    <3> QED
      BY <2>3, <3>1, <3>2, <3>3
  <2> QED
    BY <2>2, <2>3
<1> QED
  BY <1>1, <1>2, <1>3, <1>4, <1>5, <1>6

(* Where the positions that stay come from. *)
LEMMA RemoveAtFrom ==
  ASSUME NEW S, NEW s \in Seq(S), NEW n \in 1 .. Len(s)
  PROVE  \E from \in [DOMAIN RemoveAt(s, n) -> DOMAIN s \ {n}] :
           /\ \A i \in DOMAIN RemoveAt(s, n) : RemoveAt(s, n)[i] = s[from[i]]
           /\ \A i, j \in DOMAIN RemoveAt(s, n) : from[i] = from[j] => i = j
           /\ \A j \in DOMAIN s \ {n} : \E i \in DOMAIN RemoveAt(s, n) : from[i] = j
<1> DEFINE t == RemoveAt(s, n)
           from == [i \in DOMAIN t |-> IF i < n THEN i ELSE i + 1]
<1>1. /\ t \in Seq(S) /\ Len(t) = Len(s) - 1
      /\ \A i \in 1 .. Len(s) - 1 : t[i] = IF i < n THEN s[i] ELSE s[i + 1]
  BY AfterRemoveAt
<1> HIDE DEF t
<1>2. /\ Len(s) \in Nat /\ DOMAIN s = 1 .. Len(s) /\ DOMAIN t = 1 .. Len(s) - 1
      /\ n \in Nat
  BY <1>1, LenProperties
<1>3. from \in [DOMAIN t -> DOMAIN s \ {n}]
  BY <1>2
<1>4. \A i \in DOMAIN t : t[i] = s[from[i]]
  BY <1>1, <1>2
<1>5. \A i, j \in DOMAIN t : from[i] = from[j] => i = j
  BY <1>2
<1>6. \A j \in DOMAIN s \ {n} : \E i \in DOMAIN t : from[i] = j
  <2> TAKE j \in DOMAIN s \ {n}
  <2>1. CASE j < n
    <3>1. j \in DOMAIN t /\ from[j] = j
      BY <1>2, <2>1
    <3> QED
      BY <3>1
  <2>2. CASE j > n
    <3>1. j - 1 \in DOMAIN t /\ from[j - 1] = j
      BY <1>2, <2>2
    <3> QED
      BY <3>1
  <2> QED
    BY <1>2, <2>1, <2>2
<1> HIDE DEF from
<1> QED
  BY <1>3, <1>4, <1>5, <1>6 DEF t

(* What RemoveFirst takes out of a sequence that holds x once. *)
LEMMA AfterRemoveFirst ==
  ASSUME NEW S, NEW s \in Seq(S), NEW x, x \in In(s), Once(s)
  PROVE  /\ RemoveFirst(s, x) \in Seq(S) /\ Once(RemoveFirst(s, x))
         /\ In(RemoveFirst(s, x)) = In(s) \ {x}
         /\ Len(RemoveFirst(s, x)) = Len(s) - 1
<1> DEFINE I == {i \in 1 .. Len(s) : s[i] = x}
           t == RemoveFirst(s, x)
<1>1. PICK n \in 1 .. Len(s) : s[n] = x
  BY DEF In
<1>2. I = {n}
  BY <1>1 DEF Once
<1>3. Min(I) = n
  BY <1>1, <1>2 DEF Min
<1>4. SelectInSeq(s, LAMBDA v : v = x) = Min(I)
  BY <1>2 DEF SelectInSeq
<1>5. t = RemoveAt(s, n)
  BY <1>1, <1>3, <1>4 DEF RemoveFirst
<1> HIDE DEF t, I
<1>6. t \in Seq(S) /\ Len(t) = Len(s) - 1
  BY <1>5, AfterRemoveAt
<1>7. PICK from \in [DOMAIN t -> DOMAIN s \ {n}] :
        /\ \A i \in DOMAIN t : t[i] = s[from[i]]
        /\ \A i, j \in DOMAIN t : from[i] = from[j] => i = j
        /\ \A j \in DOMAIN s \ {n} : \E i \in DOMAIN t : from[i] = j
  BY <1>5, RemoveAtFrom
<1>8. Once(t)
  BY <1>7 DEF Once
<1>9. In(t) \subseteq In(s) \ {x}
  BY <1>1, <1>7 DEF Once, In
<1>10. In(s) \ {x} \subseteq In(t)
  <2> SUFFICES ASSUME NEW j \in DOMAIN s, s[j] # x PROVE s[j] \in In(t)
    BY DEF In
  <2>1. PICK i \in DOMAIN t : from[i] = j
    BY <1>1, <1>7
  <2>2. s[j] = t[i]
    BY <1>7, <2>1
  <2> QED
    BY <2>2 DEF In
<1>11. In(t) = In(s) \ {x}
  BY <1>9, <1>10
<1> QED
  BY <1>6, <1>8, <1>11 DEF t

(* The newest of a sequence. *)
LEMMA AfterLasts ==
  ASSUME NEW S, NEW s \in Seq(S), NEW n \in Nat
  PROVE  /\ Lasts(s, n) \in Seq(S) /\ Len(Lasts(s, n)) <= n
         /\ Len(s) <= n => Lasts(s, n) = s
         /\ In(Lasts(s, n)) \subseteq In(s)
         /\ Once(s) => Once(Lasts(s, n))
<1>1. Len(s) \in Nat /\ DOMAIN s = 1 .. Len(s)
  BY LenProperties
<1>2. CASE Len(s) <= n
  <2>1. Lasts(s, n) = s
    BY <1>1, <1>2 DEF Lasts
  <2> QED
    BY <1>2, <2>1
<1>3. CASE Len(s) > n
  <2> DEFINE t == SubSeq(s, Len(s) - n + 1, Len(s))
             k == Len(s) - n
  <2>1. k \in Nat /\ k + 1 = Len(s) - n + 1 /\ k + n = Len(s)
    BY <1>1, <1>3
  <2>2. /\ t \in Seq(S) /\ Len(t) = n
        /\ \A i \in 1 .. n : t[i] = s[k + i]
    BY <1>1, <1>3, SubSeqProperties
  <2>3. Lasts(s, n) = t
    BY <1>3 DEF Lasts
  <2> HIDE DEF t
  <2>4. DOMAIN t = 1 .. n
    BY <2>2, LenProperties
  <2> HIDE DEF k
  <2>5. \A i \in DOMAIN t : k + i \in DOMAIN s /\ t[i] = s[k + i]
    BY <1>1, <2>1, <2>2, <2>4
  <2>6. \A i, j \in DOMAIN t : k + i = k + j => i = j
    BY <2>1, <2>4
  <2>7. In(t) \subseteq In(s)
    BY <2>5 DEF In
  <2>8. Once(s) => Once(t)
    BY <2>5, <2>6 DEF Once
  <2>9. ~(Len(s) <= n) /\ Len(t) <= n
    BY <1>1, <1>3, <2>2
  <2> QED
    BY <2>2, <2>3, <2>7, <2>8, <2>9
<1> QED
  BY <1>1, <1>2, <1>3

LEMMA LastsFrom ==
  ASSUME NEW S, NEW s \in Seq(S), NEW n \in Nat
  PROVE  \E k \in Nat : \A i \in DOMAIN Lasts(s, n) :
           k + i \in DOMAIN s /\ Lasts(s, n)[i] = s[k + i] /\ i \in Nat
<1>1. Len(s) \in Nat /\ DOMAIN s = 1 .. Len(s)
  BY LenProperties
<1>2. CASE Len(s) <= n
  <2>1. Lasts(s, n) = s
    BY <1>1, <1>2 DEF Lasts
  <2>2. \A i \in DOMAIN s : 0 + i \in DOMAIN s /\ s[i] = s[0 + i] /\ i \in Nat
    BY <1>1
  <2> QED
    BY <2>1, <2>2
<1>3. CASE Len(s) > n
  <2> DEFINE t == SubSeq(s, Len(s) - n + 1, Len(s))
             k == Len(s) - n
  <2>1. k \in Nat /\ k + 1 = Len(s) - n + 1 /\ k + n = Len(s)
    BY <1>1, <1>3
  <2>2. /\ t \in Seq(S) /\ Len(t) = n
        /\ \A i \in 1 .. n : t[i] = s[k + i]
    BY <1>1, <1>3, SubSeqProperties
  <2>3. Lasts(s, n) = t
    BY <1>3 DEF Lasts
  <2> HIDE DEF t
  <2>4. DOMAIN t = 1 .. n
    BY <2>2, LenProperties
  <2> HIDE DEF k
  <2>5. \A i \in DOMAIN t : k + i \in DOMAIN s /\ t[i] = s[k + i] /\ i \in Nat
    BY <1>1, <2>1, <2>2, <2>4
  <2> QED
    BY <2>1, <2>3, <2>5
<1> QED
  BY <1>1, <1>2, <1>3

(* The newest stays. *)
LEMMA LastsKeepsNewest ==
  ASSUME NEW S, NEW s \in Seq(S), NEW n \in Nat \ {0}, s # <<>>
  PROVE  s[Len(s)] \in In(Lasts(s, n))
<1>1. Len(s) \in Nat \ {0} /\ DOMAIN s = 1 .. Len(s)
  BY LenProperties, EmptySeq
<1>2. CASE Len(s) <= n
  <2>1. Lasts(s, n) = s /\ Len(s) \in DOMAIN s
    BY <1>1, <1>2 DEF Lasts
  <2> QED
    BY <2>1 DEF In
<1>3. CASE Len(s) > n
  <2> DEFINE t == SubSeq(s, Len(s) - n + 1, Len(s))
             k == Len(s) - n
  <2>1. k \in Nat /\ k + 1 = Len(s) - n + 1 /\ k + n = Len(s)
    BY <1>1, <1>3
  <2>2. /\ t \in Seq(S) /\ Len(t) = n
        /\ \A i \in 1 .. n : t[i] = s[k + i]
    BY <1>1, <1>3, SubSeqProperties
  <2>3. Lasts(s, n) = t
    BY <1>3 DEF Lasts
  <2> HIDE DEF t
  <2>4. DOMAIN t = 1 .. n
    BY <2>2, LenProperties
  <2> HIDE DEF k
  <2>5. n \in DOMAIN t /\ t[n] = s[Len(s)]
    BY <2>1, <2>2, <2>4
  <2> QED
    BY <2>3, <2>5 DEF In
<1> QED
  BY <1>1, <1>2, <1>3

(* A sequence without repetitions is no longer than its elements are many. *)
LEMMA OnceBounds ==
  ASSUME NEW S, IsFiniteSet(S), NEW s \in Seq(S), Once(s)
  PROVE  Len(s) <= Cardinality(S)
<1>1. Len(s) \in Nat /\ DOMAIN s = 1 .. Len(s) /\ s \in [1 .. Len(s) -> S]
  BY LenProperties
<1>2. IsFiniteSet(1 .. Len(s)) /\ Cardinality(1 .. Len(s)) = Len(s)
  BY <1>1, FS_Interval
<1>3. s \in Injection(1 .. Len(s), S)
  BY <1>1 DEF Once, Injection, IsInjective
<1>4. Cardinality(1 .. Len(s)) <= Cardinality(S)
  <2> DEFINE D == 1 .. Len(s)
  <2> HIDE DEF D
  <2>1. s \in Injection(D, S)
    BY <1>3 DEF D
  <2>2. Cardinality(D) <= Cardinality(S)
    BY <2>1, FS_Injection
  <2> QED
    BY <2>2 DEF D
<1> QED
  BY <1>2, <1>4

-----------------------------------------------------------------------------
(* The alerts of an instance, of those in S. *)

Statuses == ActiveStatuses \cup {"resolved"}
ResolvedIds(inst) == {a \in DOMAIN inst.alerts : inst.alerts[a].status = "resolved"}

InstanceOk(inst, S) ==
  /\ inst = [alerts |-> inst.alerts, recent |-> inst.recent]
  /\ inst.recent \in Seq(S) /\ Once(inst.recent) /\ Len(inst.recent) <= RecentLimit
  /\ In(inst.recent) = ResolvedIds(inst)
  /\ DOMAIN inst.alerts \subseteq S
  /\ \A a \in DOMAIN inst.alerts : inst.alerts[a].status \in Statuses

LEMMA ActiveOrResolved ==
  ASSUME NEW stored, stored.status \in Statuses
  PROVE  Active(stored) <=> stored.status # "resolved"
  BY DEF Statuses, ActiveStatuses, Active

(* The ids resolved, before the oldest may have to go. *)
Others(inst, id) == IF IsResolved(inst, id) THEN RemoveFirst(inst.recent, id) ELSE inst.recent
Newer(inst, id, stored) ==
  IF Active(stored) THEN Others(inst, id) ELSE Append(Others(inst, id), id)

LEMMA RecentOnce ==
  ASSUME NEW S, NEW inst, InstanceOk(inst, S), NEW id \in S, NEW stored
  PROVE  /\ Newer(inst, id, stored) \in Seq(S) /\ Once(Newer(inst, id, stored))
         /\ In(Newer(inst, id, stored))
              = (ResolvedIds(inst) \ {id}) \cup (IF Active(stored) THEN {} ELSE {id})
<1> DEFINE others == Others(inst, id)
           recent == Newer(inst, id, stored)
<1>1. others \in Seq(S) /\ Once(others) /\ In(others) = ResolvedIds(inst) \ {id}
      /\ Len(others) <= RecentLimit
  <2>1. Len(inst.recent) \in Nat /\ RecentLimit \in Nat
    BY StoreAssumption DEF InstanceOk
  <2>2. CASE IsResolved(inst, id)
    <3>1. id \in In(inst.recent)
      BY <2>2 DEF IsResolved, Known, InstanceOk, ResolvedIds
    <3>2. /\ others \in Seq(S) /\ Once(others) /\ In(others) = In(inst.recent) \ {id}
          /\ Len(others) = Len(inst.recent) - 1
      BY <2>2, <3>1, AfterRemoveFirst DEF InstanceOk, Others
    <3> HIDE DEF others
    <3> QED
      BY <2>1, <3>2 DEF InstanceOk
  <2>3. CASE ~IsResolved(inst, id)
    <3>1. id \notin ResolvedIds(inst)
      BY <2>3 DEF IsResolved, Known, ResolvedIds
    <3> QED
      BY <2>3, <3>1 DEF InstanceOk, Others
  <2> QED
    BY <2>2, <2>3
<1>3. recent = IF Active(stored) THEN others ELSE Append(others, id)
  BY DEF Newer
<1> HIDE DEF others, recent
<1>2. /\ recent \in Seq(S) /\ Once(recent)
      /\ In(recent) = (ResolvedIds(inst) \ {id}) \cup (IF Active(stored) THEN {} ELSE {id})
  <2>1. CASE Active(stored)
    BY <1>1, <1>3, <2>1
  <2>2. CASE ~Active(stored)
    <3>1. id \notin In(others)
      BY <1>1
    <3> QED
      BY <1>1, <1>3, <2>2, <3>1, EndJoins
  <2> QED
    BY <2>1, <2>2
<1> QED
  BY <1>2 DEF recent

LEMMA PlaceIs ==
  ASSUME NEW inst, NEW id, NEW stored
  PROVE  LET recent == Newer(inst, id, stored)
             kept == Lasts(recent, RecentLimit)
         IN  Place(inst, id, stored) =
               [alerts |-> [x \in (DOMAIN inst.alerts \cup {id}) \ (In(recent) \ In(kept)) |->
                              IF x = id THEN stored ELSE inst.alerts[x]],
                recent |-> kept]
  BY DEF Place, Newer, Others, In

LEMMA PlaceOk ==
  ASSUME NEW S, NEW inst, InstanceOk(inst, S), NEW id \in S,
         NEW stored, stored.status \in Statuses
  PROVE  InstanceOk(Place(inst, id, stored), S)
<1> DEFINE recent == Newer(inst, id, stored)
           kept == Lasts(recent, RecentLimit)
           gone == In(recent) \ In(kept)
           new == [alerts |-> [x \in (DOMAIN inst.alerts \cup {id}) \ gone |->
                                 IF x = id THEN stored ELSE inst.alerts[x]],
                   recent |-> kept]
<1>1. Place(inst, id, stored) = new
  BY PlaceIs
<1>3. /\ recent \in Seq(S) /\ Once(recent)
      /\ In(recent) = (ResolvedIds(inst) \ {id}) \cup (IF Active(stored) THEN {} ELSE {id})
  BY RecentOnce
<1> HIDE DEF recent
<1>4. /\ kept \in Seq(S) /\ Len(kept) <= RecentLimit
      /\ In(kept) \subseteq In(recent) /\ Once(kept)
  BY <1>3, StoreAssumption, AfterLasts
<1> HIDE DEF kept
<1>6. stored.status = "resolved" <=> ~Active(stored)
  BY ActiveOrResolved
<1>7. In(kept) = ResolvedIds(new)
  BY <1>3, <1>4, <1>6 DEF ResolvedIds
<1>8. DOMAIN new.alerts \subseteq S /\ \A a \in DOMAIN new.alerts : new.alerts[a].status \in Statuses
  BY DEF InstanceOk
<1> QED
  BY <1>1, <1>4, <1>7, <1>8 DEF InstanceOk

LEMMA RecordsStatus ==
  ASSUME NEW old, NEW e
  PROVE  NextRecord(old, e).status = e.status /\ FirstRecord(e).status = e.status
  BY DEF NextRecord, FirstRecord

LEMMA MergeOk ==
  ASSUME NEW S, NEW inst, InstanceOk(inst, S), NEW e, e.id \in S, e.status \in Statuses
  PROVE  InstanceOk(Merge(inst, e), S)
<1> DEFINE record == IF Known(inst, e.id) THEN NextRecord(inst.alerts[e.id], e)
                                          ELSE FirstRecord(e)
<1>1. CASE Stale(inst, e)
  BY <1>1 DEF Merge
<1>2. CASE ~Stale(inst, e)
  <2>1. Merge(inst, e) = Place(inst, e.id, record) /\ record.status = e.status
    BY <1>2, RecordsStatus DEF Merge
  <2> HIDE DEF record
  <2> QED
    BY <2>1, PlaceOk
<1> QED
  BY <1>1, <1>2

LEMMA NoAlertsOk ==
  ASSUME NEW S
  PROVE  InstanceOk(NoAlerts, S)
<1>1. NoAlerts.recent = <<>> /\ <<>> \in Seq(S) /\ Len(<<>>) = 0 /\ DOMAIN <<>> = {}
  BY DEF NoAlerts
<1>2. DOMAIN NoAlerts.alerts = {}
  BY DEF NoAlerts
<1>3. Once(NoAlerts.recent) /\ In(NoAlerts.recent) = {}
  BY <1>1 DEF Once, In
<1> QED
  BY <1>1, <1>2, <1>3, StoreAssumption DEF InstanceOk, ResolvedIds, NoAlerts

-----------------------------------------------------------------------------
(* What a merge does to the other alerts and to a resolved one. *)

(* Placing one alert leaves every other one as it was, or evicts it. *)
LEMMA PlaceKeepsOthers ==
  ASSUME NEW inst, NEW id, NEW stored, NEW x, x # id, Known(Place(inst, id, stored), x)
  PROVE  Known(inst, x) /\ Place(inst, id, stored).alerts[x] = inst.alerts[x]
  BY DEF Place, Known

LEMMA PlaceStores ==
  ASSUME NEW inst, NEW id, NEW stored, Known(Place(inst, id, stored), id)
  PROVE  Place(inst, id, stored).alerts[id] = stored
  BY DEF Place, Known

(* An alert once resolved is not active after any update: an update of another
   alert leaves it alone, a late one of its own is stale, and the only other
   is a resolution. *)
LEMMA MergeKeepsResolved ==
  ASSUME NEW inst, NEW e, NEW a, IsResolved(inst, a)
  PROVE  ~IsActive(Merge(inst, e), a)
<1>0. "resolved" \notin ActiveStatuses
  BY DEF ActiveStatuses
<1>1. CASE Stale(inst, e)
  BY <1>0, <1>1 DEF Merge, IsResolved, IsActive, Active
<1>2. CASE ~Stale(inst, e)
  <2> DEFINE record == IF Known(inst, e.id) THEN NextRecord(inst.alerts[e.id], e)
                                            ELSE FirstRecord(e)
  <2>1. Merge(inst, e) = Place(inst, e.id, record) /\ record.status = e.status
    BY <1>2, RecordsStatus DEF Merge
  <2> HIDE DEF record
  <2>2. CASE a # e.id
    BY <1>0, <2>1, <2>2, PlaceKeepsOthers DEF IsResolved, IsActive, Active
  <2>3. CASE a = e.id
    <3>1. e.status = "resolved"
      BY <1>2, <2>3 DEF Stale
    <3> QED
      BY <1>0, <2>1, <2>3, <3>1, PlaceStores DEF IsActive, Active
  <2> QED
    BY <2>2, <2>3
<1> QED
  BY <1>1, <1>2

(* The store can hold all the ids there are: nothing is evicted. *)
RoomForAll(S) == IsFiniteSet(S) /\ Cardinality(S) <= RecentLimit

LEMMA PlaceKeepsAll ==
  ASSUME NEW S, RoomForAll(S), NEW inst, InstanceOk(inst, S), NEW id \in S,
         NEW stored, stored.status \in Statuses
  PROVE  /\ DOMAIN Place(inst, id, stored).alerts = DOMAIN inst.alerts \cup {id}
         /\ Place(inst, id, stored).alerts
              = [x \in DOMAIN inst.alerts \cup {id} |-> IF x = id THEN stored ELSE inst.alerts[x]]
<1> DEFINE recent == Newer(inst, id, stored)
           kept == Lasts(recent, RecentLimit)
           gone == In(recent) \ In(kept)
<1>1. recent \in Seq(S) /\ Once(recent)
  BY RecentOnce
<1>2. Place(inst, id, stored).alerts
        = [x \in (DOMAIN inst.alerts \cup {id}) \ gone |-> IF x = id THEN stored ELSE inst.alerts[x]]
  BY PlaceIs
<1> HIDE DEF recent
<1>3. Len(recent) <= RecentLimit
  <2>1. Len(recent) <= Cardinality(S) /\ Len(recent) \in Nat
    BY <1>1, OnceBounds, LenProperties DEF RoomForAll
  <2>2. Cardinality(S) \in Nat /\ Cardinality(S) <= RecentLimit /\ RecentLimit \in Nat
    BY StoreAssumption, FS_CardinalityType DEF RoomForAll
  <2> QED
    BY <2>1, <2>2
<1>4. kept = recent
  BY <1>1, <1>3, AfterLasts, StoreAssumption
<1>5. gone = {}
  BY <1>4
<1> QED
  BY <1>2, <1>5

LEMMA MergeKeepsAll ==
  ASSUME NEW S, RoomForAll(S), NEW inst, InstanceOk(inst, S),
         NEW e, e.id \in S, e.status \in Statuses
  PROVE  /\ DOMAIN Merge(inst, e).alerts \subseteq DOMAIN inst.alerts \cup {e.id}
         /\ \A a : IsResolved(inst, a) => IsResolved(Merge(inst, e), a)
         /\ \A a : a # e.id => (IsActive(Merge(inst, e), a) <=> IsActive(inst, a))
         /\ e.status = "resolved" => IsResolved(Merge(inst, e), e.id)
<1> DEFINE record == IF Known(inst, e.id) THEN NextRecord(inst.alerts[e.id], e)
                                          ELSE FirstRecord(e)
<1>1. CASE Stale(inst, e)
  BY <1>1 DEF Merge, Stale
<1>2. CASE ~Stale(inst, e)
  <2>1. Merge(inst, e) = Place(inst, e.id, record) /\ record.status = e.status
    BY <1>2, RecordsStatus DEF Merge
  <2> HIDE DEF record
  <2>2. /\ DOMAIN Merge(inst, e).alerts = DOMAIN inst.alerts \cup {e.id}
        /\ Merge(inst, e).alerts
             = [x \in DOMAIN inst.alerts \cup {e.id} |-> IF x = e.id THEN record ELSE inst.alerts[x]]
    BY <2>1, PlaceKeepsAll
  <2>3. ASSUME NEW a, IsResolved(inst, a) PROVE IsResolved(Merge(inst, e), a)
    <3>1. CASE a = e.id
      <4>1. e.status = "resolved"
        BY <1>2, <2>3, <3>1 DEF Stale
      <4> QED
        BY <2>1, <2>2, <3>1, <4>1 DEF IsResolved, Known
    <3>2. CASE a # e.id
      BY <2>2, <2>3, <3>2 DEF IsResolved, Known
    <3> QED
      BY <3>1, <3>2
  <2>4. ASSUME NEW a, a # e.id PROVE IsActive(Merge(inst, e), a) <=> IsActive(inst, a)
    BY <2>2, <2>4 DEF IsActive, Known
  <2>5. e.status = "resolved" => IsResolved(Merge(inst, e), e.id)
    BY <2>1, <2>2 DEF IsResolved, Known
  <2> QED
    BY <2>2, <2>3, <2>4, <2>5
<1> QED
  BY <1>1, <1>2

(* What the update leaves of every alert, and what it stores of its own. *)
LEMMA MergeExact ==
  ASSUME NEW S, RoomForAll(S), NEW inst, InstanceOk(inst, S),
         NEW e, e.id \in S, e.status \in Statuses
  PROVE  /\ \A a : a # e.id => (Known(Merge(inst, e), a) <=> Known(inst, a))
         /\ \A a : a # e.id /\ Known(inst, a) => Merge(inst, e).alerts[a] = inst.alerts[a]
         /\ Known(Merge(inst, e), e.id)
         /\ Stale(inst, e) => Merge(inst, e) = inst
         /\ ~Stale(inst, e) =>
              /\ Merge(inst, e).alerts[e.id].status = e.status
              /\ Known(inst, e.id) /\ e.delivery # NoDelivery =>
                   Merge(inst, e).alerts[e.id].delivery = e.delivery
<1> DEFINE record == IF Known(inst, e.id) THEN NextRecord(inst.alerts[e.id], e)
                                          ELSE FirstRecord(e)
<1>1. CASE Stale(inst, e)
  BY <1>1 DEF Merge, Stale, IsResolved
<1>2. CASE ~Stale(inst, e)
  <2>1. Merge(inst, e) = Place(inst, e.id, record) /\ record.status = e.status
    BY <1>2, RecordsStatus DEF Merge
  <2>2. Known(inst, e.id) /\ e.delivery # NoDelivery => record.delivery = e.delivery
    BY DEF NextRecord
  <2> HIDE DEF record
  <2>3. /\ DOMAIN Merge(inst, e).alerts = DOMAIN inst.alerts \cup {e.id}
        /\ Merge(inst, e).alerts
             = [x \in DOMAIN inst.alerts \cup {e.id} |-> IF x = e.id THEN record ELSE inst.alerts[x]]
    BY <2>1, PlaceKeepsAll
  <2>4. Merge(inst, e).alerts[e.id] = record
    BY <2>3
  <2> QED
    BY <1>2, <2>1, <2>2, <2>3, <2>4 DEF Known
<1> QED
  BY <1>1, <1>2
=============================================================================
