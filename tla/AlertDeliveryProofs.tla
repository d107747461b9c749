-------------------------- MODULE AlertDeliveryProofs --------------------------
(***************************************************************************)
(* Theorems about AlertDelivery, for all alerts and their notifications,  *)
(* every number of workers and every size of the queue and of the tracker. *)
(***************************************************************************)
EXTENDS AlertDelivery, AlertStoreProofs

(* A delivery, and the types that the callbacks' side needs. *)
Deliveries == [note : Notes \cup {NoNote}, attempt : Nat, phase : {"idle", "sent", "retrying"}]
CallbackTypes ==
  /\ told \in [Alerts -> Nat]
  /\ queue \in Seq(Notes) /\ worker \in [Workers -> Deliveries]

FateInv == CallbackTypes /\ Accounted

-----------------------------------------------------------------------------
(* Notifications. *)

LEMMA NoteFields ==
  ASSUME NEW x \in Notes
  PROVE  /\ x.id \in Alerts /\ x.n \in 1 .. Len(Life[x.id])
         /\ x = [id |-> x.id, n |-> x.n]
  BY DeliveryAssumption DEF Notes

LEMMA NoteFrom ==
  ASSUME NEW a \in Alerts, NEW n \in 1 .. Len(Life[a])
  PROVE  [id |-> a, n |-> n] \in Notes
<1>1. n \in DOMAIN Life[a]
  BY DeliveryAssumption
<1>2. [id |-> a, n |-> n] \in [id : {a}, n : DOMAIN Life[a]]
  BY <1>1
<1> QED
  BY <1>2 DEF Notes

(* The notification routed is the only one that becomes routed. *)
Next1(a) == [id |-> a, n |-> told[a] + 1]

LEMMA RouteAdds ==
  ASSUME CallbackTypes, NEW a \in Alerts, Route(a)
  PROVE  /\ Next1(a) \in Notes /\ Next1(a) \notin Routed
         /\ Routed' = Routed \cup {Next1(a)}
<1>1. told[a] \in Nat /\ told[a] < Len(Life[a]) /\ Len(Life[a]) \in Nat
  BY DeliveryAssumption DEF CallbackTypes, Route
<1>2. told' = [told EXCEPT ![a] = @ + 1] /\ told \in [Alerts -> Nat]
  BY DEF Route, CallbackTypes
<1>3. Next1(a) \in Notes
  BY <1>1, NoteFrom DEF Next1
<1>4. Next1(a) \notin Routed
  BY <1>1 DEF Routed, Next1
<1>5. ASSUME NEW x \in Notes
      PROVE  x.n <= told'[x.id] <=> x.n <= told[x.id] \/ x = Next1(a)
  <2>1. x.id \in Alerts /\ x.n \in Nat /\ x = [id |-> x.id, n |-> x.n]
    BY NoteFields, DeliveryAssumption
  <2>2. CASE x.id = a
    BY <1>1, <1>2, <2>1, <2>2 DEF Next1
  <2>3. CASE x.id # a
    BY <1>2, <2>1, <2>3 DEF Next1
  <2> QED
    BY <2>2, <2>3
<1> QED
  BY <1>3, <1>4, <1>5 DEF Routed

LEMMA NoNoteIsNone == NoNote \notin Notes
<1> SUFFICES ASSUME NoNote \in Notes PROVE FALSE
  OBVIOUS
<1>1. NoNote.n \in 1 .. Len(Life[NoNote.id])
  BY NoteFields
<1> QED
  BY <1>1 DEF NoNote

-----------------------------------------------------------------------------
(* The queue loses its head, or gains a notification at its end. *)

LEMMA HeadLeaves ==
  ASSUME NEW S, NEW s \in Seq(S), s # <<>>, Once(s)
  PROVE  /\ Head(s) \in S /\ Tail(s) \in Seq(S) /\ Once(Tail(s))
         /\ In(s) = In(Tail(s)) \cup {Head(s)} /\ Head(s) \notin In(Tail(s))
<1>1. /\ Head(s) = s[1] /\ s[1] \in S /\ 1 \in DOMAIN s /\ Tail(s) \in Seq(S)
      /\ DOMAIN s = 1 .. Len(s) /\ Len(s) \in Nat \ {0}
      /\ DOMAIN Tail(s) = 1 .. Len(s) - 1
      /\ \A i \in 1 .. Len(s) - 1 : Tail(s)[i] = s[i + 1]
  OBVIOUS
<1>2. Once(Tail(s))
  BY <1>1 DEF Once
<1>3. Head(s) \notin In(Tail(s))
  BY <1>1 DEF Once, In
<1>4. \A i \in DOMAIN s : i = 1 \/ (i - 1 \in DOMAIN Tail(s) /\ Tail(s)[i - 1] = s[i])
  BY <1>1
<1>5. \A i \in DOMAIN Tail(s) : i + 1 \in DOMAIN s /\ Tail(s)[i] = s[i + 1]
  BY <1>1
<1>6. In(s) = In(Tail(s)) \cup {Head(s)}
  <2>1. ASSUME NEW i \in DOMAIN s PROVE s[i] \in In(Tail(s)) \cup {Head(s)}
    <3>1. CASE i = 1
      BY <1>1, <3>1
    <3>2. CASE i - 1 \in DOMAIN Tail(s) /\ Tail(s)[i - 1] = s[i]
      <4>1. \E j \in DOMAIN Tail(s) : s[i] = Tail(s)[j]
        BY <3>2
      <4> QED
        BY <4>1 DEF In
    <3> QED
      BY <1>4, <3>1, <3>2
  <2>2. ASSUME NEW i \in DOMAIN Tail(s) PROVE Tail(s)[i] \in In(s)
    <3>1. \E j \in DOMAIN s : Tail(s)[i] = s[j]
      BY <1>5
    <3> QED
      BY <3>1 DEF In
  <2>3. Head(s) \in In(s)
    BY <1>1 DEF In
  <2> QED
    BY <2>1, <2>2, <2>3 DEF In
<1> QED
  BY <1>1, <1>2, <1>3, <1>6

LEMMA QueuedIs == Queued = In(queue) /\ (Accounted => Once(queue))
  BY DEF Queued, In, Accounted, Once

-----------------------------------------------------------------------------
(* A worker takes a notification, goes on with it, or is done. *)

Sharing == \A v, w \in Workers : worker[v] # Idle /\ Job(v) = Job(w) => v = w

LEMMA WorkerTakes ==
  ASSUME CallbackTypes, Sharing, NEW w \in Workers, worker[w] = Idle,
         NEW d \in Deliveries, d # Idle, d.note \notin Calling, d.note # NoNote,
         NoNote \notin Calling, worker' = [worker EXCEPT ![w] = d]
  PROVE  worker' \in [Workers -> Deliveries] /\ Sharing' /\ Calling' = Calling \cup {d.note}
<1>1. worker \in [Workers -> Deliveries]
  BY DEF CallbackTypes
<1>2. worker'[w] = d /\ \A v \in Workers \ {w} : worker'[v] = worker[v]
  BY <1>1
<1>3. \A v \in Workers \ {w} : worker[v] # Idle => Job(v) # d.note
  BY DEF Calling
<1>4. \A v \in Workers : worker[v] = Idle => Job(v) = NoNote
  BY DEF Job, Idle
<1>5. Sharing'
  BY <1>2, <1>3, <1>4 DEF Sharing, Job
<1>6. Calling' = Calling \cup {d.note}
  BY <1>2 DEF Calling, Job
<1> QED
  BY <1>1, <1>5, <1>6

LEMMA WorkerGoesOn ==
  ASSUME CallbackTypes, Sharing, NEW w \in Workers, worker[w] # Idle,
         NEW d \in Deliveries, d # Idle, d.note = Job(w),
         worker' = [worker EXCEPT ![w] = d]
  PROVE  worker' \in [Workers -> Deliveries] /\ Sharing' /\ Calling' = Calling
<1>1. worker \in [Workers -> Deliveries]
  BY DEF CallbackTypes
<1>2. worker'[w] = d /\ \A v \in Workers \ {w} : worker'[v] = worker[v]
  BY <1>1
<1>3. \A v \in Workers : Job(v)' = Job(v) /\ (worker'[v] # Idle <=> worker[v] # Idle)
  BY <1>2 DEF Job
<1>4. Sharing'
  BY <1>3 DEF Sharing
<1>5. Calling' = Calling
  BY <1>3 DEF Calling
<1> QED
  BY <1>1, <1>4, <1>5

LEMMA WorkerEnds ==
  ASSUME CallbackTypes, Sharing, NEW w \in Workers, worker[w] # Idle, Job(w) # NoNote,
         NoNote \notin Calling, worker' = [worker EXCEPT ![w] = Idle]
  PROVE  /\ worker' \in [Workers -> Deliveries] /\ Sharing'
         /\ Job(w) \in Calling /\ Calling' = Calling \ {Job(w)}
<1>1. worker \in [Workers -> Deliveries] /\ Idle \in Deliveries
  BY DEF CallbackTypes, Idle, Deliveries
<1>2. worker'[w] = Idle /\ \A v \in Workers \ {w} : worker'[v] = worker[v]
  BY <1>1
<1>3. \A v \in Workers \ {w} : worker[v] # Idle => Job(v) # Job(w) /\ Job(v) # NoNote
  BY DEF Sharing, Calling
<1>4. Idle.note = NoNote
  BY DEF Idle
<1>5. Sharing'
  BY <1>2, <1>3, <1>4 DEF Sharing, Job
<1>6. Calling' = Calling \ {Job(w)}
  BY <1>2, <1>3 DEF Calling, Job
<1>7. Job(w) \in Calling
  BY DEF Calling
<1> QED
  BY <1>1, <1>5, <1>6, <1>7

-----------------------------------------------------------------------------
(* The five groups of a notification's fate. *)

LEMMA FateIs ==
  Accounted <=>
    /\ Routed = Queued \cup Calling \cup dropped \cup settled
    /\ Queued \cap Calling = {} /\ dropped \cap settled = {}
    /\ (Queued \cup Calling) \cap (dropped \cup settled) = {}
    /\ Once(queue) /\ Sharing
  BY DEF Accounted, Once, Sharing

LEMMA NoneNoteCalls == ASSUME Accounted PROVE NoNote \notin Calling
  BY FateIs, NoNoteIsNone DEF Routed

LEMMA RoutedStays == ASSUME UNCHANGED told PROVE Routed' = Routed
  BY DEF Routed

LEMMA QueuedStays ==
  ASSUME UNCHANGED queue PROVE Queued' = Queued /\ (Once(queue))' = Once(queue)
  BY DEF Queued, Once

LEMMA CallingStays ==
  ASSUME UNCHANGED worker PROVE Calling' = Calling /\ Sharing' = Sharing
  BY DEF Calling, Job, Sharing

-----------------------------------------------------------------------------
(* The steps that touch a fate. *)

LEMMA RouteKeeps ==
  ASSUME FateInv, NEW a \in Alerts, Route(a)
  PROVE  FateInv'
<1> DEFINE x == Next1(a)
<1>1. x \in Notes /\ x \notin Routed /\ Routed' = Routed \cup {x}
  BY RouteAdds DEF FateInv
<1>2. queue \in Seq(Notes) /\ Once(queue) /\ Queued = In(queue)
  BY FateIs, QueuedIs DEF FateInv, CallbackTypes
<1>3. /\ Routed = Queued \cup Calling \cup dropped \cup settled
      /\ Queued \cap Calling = {} /\ dropped \cap settled = {}
      /\ (Queued \cup Calling) \cap (dropped \cup settled) = {}
  BY FateIs DEF FateInv
<1>4. UNCHANGED <<worker, settled>>
  BY DEF Route
<1>5. Calling' = Calling /\ Sharing'
  BY <1>4, CallingStays, FateIs DEF FateInv
<1>6. Queued' = In(queue')
  BY DEF Queued, In
<1>7. told' \in [Alerts -> Nat] /\ worker' \in [Workers -> Deliveries]
  BY <1>4 DEF FateInv, CallbackTypes, Route
<1>8. /\ queue' = IF Len(queue) >= QueueSize THEN Append(Tail(queue), x) ELSE Append(queue, x)
      /\ dropped' = dropped \cup (IF Len(queue) >= QueueSize THEN {Head(queue)} ELSE {})
  BY DEF Route, Put, Next1
<1>9. x \notin In(queue)
  BY <1>1, <1>2, <1>3
<1> HIDE DEF x
<1>10. CASE Len(queue) >= QueueSize
  <2>1. queue' = Append(Tail(queue), x) /\ dropped' = dropped \cup {Head(queue)}
    BY <1>8, <1>10
  <2>2. queue # <<>>
    <3>1. Len(queue) # 0
      BY <1>2, <1>10, DeliveryAssumption
    <3> QED
      BY <3>1
  <2>3. /\ Head(queue) \in Notes /\ Tail(queue) \in Seq(Notes) /\ Once(Tail(queue))
        /\ In(queue) = In(Tail(queue)) \cup {Head(queue)} /\ Head(queue) \notin In(Tail(queue))
    BY <1>2, <2>2, HeadLeaves
  <2>4. /\ queue' \in Seq(Notes) /\ Once(queue')
        /\ In(queue') = In(Tail(queue)) \cup {x}
    <3> DEFINE t == Tail(queue)
    <3>1. /\ t \in Seq(Notes) /\ Once(t) /\ x \in Notes /\ x \notin In(t)
          /\ queue' = Append(t, x)
      BY <1>1, <1>9, <2>1, <2>3
    <3> HIDE DEF t
    <3>2. Append(t, x) \in Seq(Notes) /\ Once(Append(t, x)) /\ In(Append(t, x)) = In(t) \cup {x}
      BY <3>1, EndJoins
    <3>3. queue' \in Seq(Notes) /\ Once(queue') /\ In(queue') = In(t) \cup {x}
      BY <3>1, <3>2
    <3> QED
      BY <3>3 DEF t
  <2>5. Accounted'
    <3>1. Queued' = In(Tail(queue)) \cup {x} /\ Queued = In(Tail(queue)) \cup {Head(queue)}
      BY <1>2, <1>6, <2>3, <2>4
    <3>2. /\ Routed' = Queued' \cup Calling' \cup dropped' \cup settled'
          /\ Queued' \cap Calling' = {} /\ dropped' \cap settled' = {}
          /\ (Queued' \cup Calling') \cap (dropped' \cup settled') = {}
      BY <1>1, <1>3, <1>4, <1>5, <2>1, <2>3, <3>1
    <3> QED
      BY <1>5, <2>4, <3>2 DEF Accounted, Once, Sharing
  <2> QED
    BY <1>7, <2>4, <2>5 DEF FateInv, CallbackTypes
<1>11. CASE ~(Len(queue) >= QueueSize)
  <2>1. queue' = Append(queue, x) /\ dropped' = dropped
    BY <1>8, <1>11
  <2>2. queue' \in Seq(Notes) /\ Once(queue') /\ In(queue') = In(queue) \cup {x}
    BY <1>1, <1>2, <1>9, <2>1, EndJoins
  <2>3. /\ Routed' = Queued' \cup Calling' \cup dropped' \cup settled'
        /\ Queued' \cap Calling' = {} /\ dropped' \cap settled' = {}
        /\ (Queued' \cup Calling') \cap (dropped' \cup settled') = {}
    BY <1>1, <1>2, <1>3, <1>4, <1>5, <1>6, <2>1, <2>2
  <2>4. Accounted'
    BY <1>5, <2>2, <2>3 DEF Accounted, Once, Sharing
  <2> QED
    BY <1>7, <2>2, <2>4 DEF FateInv, CallbackTypes
<1> QED
  BY <1>10, <1>11

(* The head of the queue leaves it for a worker. *)
LEMMA GetKeeps ==
  ASSUME FateInv, NEW w \in Workers, Get(w)
  PROVE  FateInv'
<1> DEFINE x == Head(queue)
           d == [note |-> x, attempt |-> 1, phase |-> "sent"]
<1>1. queue \in Seq(Notes) /\ Once(queue) /\ Queued = In(queue) /\ queue # <<>>
  BY FateIs, QueuedIs DEF FateInv, CallbackTypes, Get
<1>2. /\ Routed = Queued \cup Calling \cup dropped \cup settled
      /\ Queued \cap Calling = {} /\ dropped \cap settled = {}
      /\ (Queued \cup Calling) \cap (dropped \cup settled) = {}
  BY FateIs DEF FateInv
<1>3. /\ x \in Notes /\ Tail(queue) \in Seq(Notes) /\ Once(Tail(queue))
      /\ In(queue) = In(Tail(queue)) \cup {x} /\ x \notin In(Tail(queue))
  BY <1>1, HeadLeaves
<1>4. /\ queue' = Tail(queue) /\ UNCHANGED <<told, dropped, settled>>
      /\ worker' = [worker EXCEPT ![w] = d] /\ worker[w] = Idle
  BY DEF Get, Attempt
<1>5. d \in Deliveries /\ d # Idle /\ d.note = x /\ x # NoNote
  BY <1>3, NoNoteIsNone DEF Deliveries, Idle
<1>6. x \notin Calling /\ NoNote \notin Calling
  BY <1>1, <1>2, <1>3, NoneNoteCalls DEF FateInv
<1> HIDE DEF d, x
<1>7. worker' \in [Workers -> Deliveries] /\ Sharing' /\ Calling' = Calling \cup {x}
  BY <1>4, <1>5, <1>6, WorkerTakes, FateIs DEF FateInv
<1>8. Queued' = In(queue') /\ Routed' = Routed
  BY <1>4, RoutedStays DEF Queued, In
<1>9. /\ Routed' = Queued' \cup Calling' \cup dropped' \cup settled'
      /\ Queued' \cap Calling' = {} /\ dropped' \cap settled' = {}
      /\ (Queued' \cup Calling') \cap (dropped' \cup settled') = {}
  BY <1>1, <1>2, <1>3, <1>4, <1>7, <1>8
<1>10. Accounted'
  BY <1>3, <1>4, <1>7, <1>9 DEF Accounted, Once, Sharing
<1> QED
  BY <1>3, <1>4, <1>7, <1>10 DEF FateInv, CallbackTypes

(* The head of the queue has its outcome at once. *)
LEMMA GetTooLargeKeeps ==
  ASSUME FateInv, NEW w \in Workers, GetTooLarge(w)
  PROVE  FateInv'
<1> DEFINE x == Head(queue)
<1>1. queue \in Seq(Notes) /\ Once(queue) /\ Queued = In(queue) /\ queue # <<>>
  BY FateIs, QueuedIs DEF FateInv, CallbackTypes, GetTooLarge
<1>2. /\ Routed = Queued \cup Calling \cup dropped \cup settled
      /\ Queued \cap Calling = {} /\ dropped \cap settled = {}
      /\ (Queued \cup Calling) \cap (dropped \cup settled) = {}
  BY FateIs DEF FateInv
<1>3. /\ x \in Notes /\ Tail(queue) \in Seq(Notes) /\ Once(Tail(queue))
      /\ In(queue) = In(Tail(queue)) \cup {x} /\ x \notin In(Tail(queue))
  BY <1>1, HeadLeaves
<1>4. /\ queue' = Tail(queue) /\ settled' = settled \cup {x}
      /\ UNCHANGED <<told, worker, dropped>>
  BY DEF GetTooLarge
<1> HIDE DEF x
<1>5. Calling' = Calling /\ Sharing' /\ Queued' = In(queue') /\ Routed' = Routed
  BY <1>4, CallingStays, RoutedStays, FateIs DEF FateInv, Queued, In
<1>6. /\ Routed' = Queued' \cup Calling' \cup dropped' \cup settled'
      /\ Queued' \cap Calling' = {} /\ dropped' \cap settled' = {}
      /\ (Queued' \cup Calling') \cap (dropped' \cup settled') = {}
  BY <1>1, <1>2, <1>3, <1>4, <1>5
<1>7. Accounted'
  BY <1>3, <1>4, <1>5, <1>6 DEF Accounted, Once, Sharing
<1> QED
  BY <1>3, <1>4, <1>7 DEF FateInv, CallbackTypes

(* A callback ends with an outcome. *)
LEMMA SettleKeeps ==
  ASSUME FateInv, NEW w \in Workers, NEW status, worker[w].phase = "sent", Settle(w, status)
  PROVE  FateInv'
<1>1. worker[w] # Idle
  BY DEF Idle
<1>2. Job(w) \in Calling /\ Job(w) # NoNote /\ NoNote \notin Calling
  BY <1>1, NoneNoteCalls DEF FateInv, Calling
<1>3. /\ worker' = [worker EXCEPT ![w] = Idle] /\ settled' = settled \cup {Job(w)}
      /\ UNCHANGED <<told, queue, dropped>>
  BY DEF Settle
<1>4. /\ worker' \in [Workers -> Deliveries] /\ Sharing'
      /\ Calling' = Calling \ {Job(w)}
  BY <1>1, <1>2, <1>3, WorkerEnds, FateIs DEF FateInv
<1>5. Routed' = Routed /\ Queued' = Queued /\ (Once(queue))'
  BY <1>3, RoutedStays, QueuedStays, FateIs DEF FateInv
<1>6. /\ Routed = Queued \cup Calling \cup dropped \cup settled
      /\ Queued \cap Calling = {} /\ dropped \cap settled = {}
      /\ (Queued \cup Calling) \cap (dropped \cup settled) = {}
  BY FateIs DEF FateInv
<1>7. /\ Routed' = Queued' \cup Calling' \cup dropped' \cup settled'
      /\ Queued' \cap Calling' = {} /\ dropped' \cap settled' = {}
      /\ (Queued' \cup Calling') \cap (dropped' \cup settled') = {}
  BY <1>2, <1>3, <1>4, <1>5, <1>6
<1>8. Accounted'
  BY <1>4, <1>5, <1>7 DEF Accounted, Once, Sharing
<1> QED
  BY <1>3, <1>4, <1>8 DEF FateInv, CallbackTypes

(* A worker goes on with the notification it has. *)
LEMMA GoOnKeeps ==
  ASSUME FateInv, NEW w \in Workers, worker[w] # Idle,
         NEW d \in Deliveries, d # Idle, d.note = Job(w),
         worker' = [worker EXCEPT ![w] = d], UNCHANGED <<told, queue, dropped, settled>>
  PROVE  FateInv'
<1>1. worker' \in [Workers -> Deliveries] /\ Sharing' /\ Calling' = Calling
  BY WorkerGoesOn, FateIs DEF FateInv
<1>2. Routed' = Routed /\ Queued' = Queued /\ (Once(queue))'
  BY RoutedStays, QueuedStays, FateIs DEF FateInv
<1>3. Accounted'
  BY <1>1, <1>2, FateIs DEF FateInv, Accounted, Once, Sharing
<1> QED
  BY <1>1, <1>3 DEF FateInv, CallbackTypes

LEMMA RetryLaterKeeps ==
  ASSUME FateInv, NEW w \in Workers, RetryLater(w)
  PROVE  FateInv'
<1> DEFINE d == [worker[w] EXCEPT !.phase = "retrying"]
<1>1. worker[w] \in Deliveries
  BY DEF FateInv, CallbackTypes
<1>2. d \in Deliveries /\ d.phase = "retrying" /\ d.note = Job(w)
  BY <1>1 DEF Deliveries, Job
<1>3. worker[w] # Idle /\ d # Idle
  BY <1>2 DEF RetryLater, Idle
<1>4. worker' = [worker EXCEPT ![w] = d] /\ UNCHANGED <<told, queue, dropped, settled>>
  BY <1>1 DEF RetryLater
<1> HIDE DEF d
<1> QED
  BY <1>2, <1>3, <1>4, GoOnKeeps

LEMMA RetryKeeps ==
  ASSUME FateInv, NEW w \in Workers, Retry(w)
  PROVE  FateInv'
<1> DEFINE d == [note |-> Job(w), attempt |-> worker[w].attempt + 1, phase |-> "sent"]
<1>1. worker[w] \in Deliveries
  BY DEF FateInv, CallbackTypes
<1>2. d \in Deliveries /\ d.phase = "sent" /\ d.note = Job(w)
  BY <1>1 DEF Deliveries, Job
<1>3. worker[w] # Idle /\ d # Idle
  BY <1>2 DEF Retry, Idle
<1>4. worker' = [worker EXCEPT ![w] = d] /\ UNCHANGED <<told, queue, dropped, settled>>
  BY DEF Retry, Attempt
<1> HIDE DEF d
<1> QED
  BY <1>2, <1>3, <1>4, GoOnKeeps

-----------------------------------------------------------------------------

LEMMA FateStays ==
  ASSUME FateInv, UNCHANGED <<told, callbackVars>>
  PROVE  FateInv'
<1>1. UNCHANGED <<told, queue, worker, dropped, settled>>
  BY DEF callbackVars
<1>2. Routed' = Routed /\ Queued' = Queued /\ Calling' = Calling /\ Sharing' /\ (Once(queue))'
  BY <1>1, RoutedStays, QueuedStays, CallingStays, FateIs DEF FateInv
<1>3. Accounted'
  BY <1>1, <1>2, FateIs DEF FateInv, Accounted, Once, Sharing
<1> QED
  BY <1>1, <1>3 DEF FateInv, CallbackTypes

LEMMA FateStart == Init => FateInv
<1> SUFFICES ASSUME Init PROVE FateInv
  OBVIOUS
<1>1. told = [a \in Alerts |-> 0] /\ queue = <<>> /\ worker = [w \in Workers |-> Idle]
  BY DEF Init
<1>2. CallbackTypes
  BY <1>1 DEF CallbackTypes, Deliveries, Idle
<1>3. Routed = {}
  BY <1>1, NoteFields DEF Routed
<1>4. Queued = {} /\ Once(queue)
  BY <1>1 DEF Queued, Once
<1>5. Calling = {} /\ Sharing
  BY <1>1 DEF Calling, Sharing
<1>6. Accounted
  BY <1>3, <1>4, <1>5, FateIs DEF Init
<1> QED
  BY <1>2, <1>6 DEF FateInv

LEMMA FateStep == FateInv /\ [Next]_vars => FateInv'
<1> SUFFICES ASSUME FateInv, [Next]_vars PROVE FateInv'
  OBVIOUS
<1>1. ASSUME NEW a \in Alerts, Route(a) PROVE FateInv'
  BY <1>1, RouteKeeps
<1>2. ASSUME NEW w \in Workers, Work(w) PROVE FateInv'
  <2>1. CASE Get(w)
    BY <2>1, GetKeeps
  <2>2. CASE GetTooLarge(w)
    BY <2>2, GetTooLargeKeeps
  <2>3. CASE Delivered(w)
    BY <2>3, SettleKeeps DEF Delivered
  <2>4. CASE PermanentFailure(w)
    BY <2>4, SettleKeeps DEF PermanentFailure
  <2>5. CASE RetriesExhausted(w)
    BY <2>5, SettleKeeps DEF RetriesExhausted
  <2>6. CASE RetryLater(w)
    BY <2>6, RetryLaterKeeps
  <2>7. CASE Retry(w)
    BY <2>7, RetryKeeps
  <2> QED
    BY <1>2, <2>1, <2>2, <2>3, <2>4, <2>5, <2>6, <2>7 DEF Work
<1>3. CASE Publish \/ PublishAgain \/ GiveUp
  BY <1>3, FateStays DEF Publish, PublishAgain, GiveUp
<1>4. CASE UNCHANGED vars
  BY <1>4, FateStays DEF vars
<1> QED
  BY <1>1, <1>2, <1>3, <1>4 DEF Next

(* A notification the router handed over is queued once, in one worker's hands,
   dropped for newer ones or settled, never two of these and never none: with
   any number of workers, however small the queue, whatever attempts fail. *)
THEOREM EachHasOneFate == Spec => []Accounted
<1>1. Init => FateInv
  BY FateStart
<1>2. FateInv /\ [Next]_vars => FateInv'
  BY FateStep
<1>3. FateInv => Accounted
  BY DEF FateInv
<1> QED
  BY <1>1, <1>2, <1>3, PTL DEF Spec

-----------------------------------------------------------------------------
(* The records of an alert: one for each notification, in a sequence. *)

TrackStatuses == {"pending", "sent", "retrying", "delivered", "failed"}
Records == [n : Nat, status : TrackStatuses, attempts : Nat]

Keyed(s) == \A i, j \in DOMAIN s : s[i].n = s[j].n => i = j
Keys(s) == {s[i].n : i \in DOMAIN s}

LEMMA KeyedBounds ==
  ASSUME NEW k \in Nat, NEW s \in Seq(Records), Keyed(s), Keys(s) \subseteq 1 .. k
  PROVE  Len(s) <= k
<1> DEFINE f == [i \in 1 .. Len(s) |-> s[i].n]
           D == 1 .. Len(s)
           K == 1 .. k
<1>1. Len(s) \in Nat /\ DOMAIN s = D
  BY LenProperties
<1>2. IsFiniteSet(K) /\ Cardinality(K) = k
  BY FS_Interval
<1>5. Cardinality(D) = Len(s)
  BY <1>1, FS_Interval
<1>3. f \in Injection(D, K)
  BY <1>1 DEF Keyed, Keys, Injection, IsInjective
<1> HIDE DEF f, D, K
<1>4. Cardinality(D) <= Cardinality(K)
  BY <1>2, <1>3, FS_Injection
<1> QED
  BY <1>2, <1>4, <1>5

(* The record of a notification is the one with its key. *)
LEMMA RecordIs ==
  ASSUME NEW trk, NEW x, NEW r \in In(trk[x.id]), r.n = x.n, Keyed(trk[x.id])
  PROVE  Tracked(trk, x) /\ RecordOf(trk, x) = r
  BY DEF In, Keyed, Tracked, RecordOf, PlaceOf

LEMMA RecordIn ==
  ASSUME NEW trk, NEW x, Tracked(trk, x)
  PROVE  /\ PlaceOf(trk, x) \in DOMAIN trk[x.id]
         /\ RecordOf(trk, x) \in In(trk[x.id]) /\ RecordOf(trk, x).n = x.n
<1>1. /\ PlaceOf(trk, x) \in DOMAIN trk[x.id]
      /\ trk[x.id][PlaceOf(trk, x)].n = x.n
  BY DEF Tracked, PlaceOf
<1> QED
  BY <1>1 DEF RecordOf, In

(* The record taken out. *)
LEMMA KeyLeaves ==
  ASSUME NEW s \in Seq(Records), Keyed(s), NEW p \in DOMAIN s
  PROVE  LET t == RemoveAt(s, p) IN
         /\ t \in Seq(Records) /\ Keyed(t)
         /\ In(t) = {r \in In(s) : r.n # s[p].n}
<1> DEFINE t == RemoveAt(s, p)
<1>1. p \in 1 .. Len(s)
  BY LenProperties
<1>2. t \in Seq(Records)
  BY <1>1, AfterRemoveAt
<1>3. PICK from \in [DOMAIN t -> DOMAIN s \ {p}] :
        /\ \A i \in DOMAIN t : t[i] = s[from[i]]
        /\ \A i, j \in DOMAIN t : from[i] = from[j] => i = j
        /\ \A j \in DOMAIN s \ {p} : \E i \in DOMAIN t : from[i] = j
  BY <1>1, RemoveAtFrom
<1> HIDE DEF t
<1>4. Keyed(t)
  BY <1>3 DEF Keyed
<1>5. In(t) \subseteq {r \in In(s) : r.n # s[p].n}
  BY <1>3 DEF In, Keyed
<1>6. ASSUME NEW j \in DOMAIN s, s[j].n # s[p].n PROVE s[j] \in In(t)
  <2>1. PICK i \in DOMAIN t : from[i] = j
    BY <1>3, <1>6
  <2>2. s[j] = t[i]
    BY <1>3, <2>1
  <2> QED
    BY <2>2 DEF In
<1>7. {r \in In(s) : r.n # s[p].n} \subseteq In(t)
  BY <1>6 DEF In
<1> QED
  BY <1>2, <1>4, <1>5, <1>7 DEF t

(* A record with a key of its own comes last. *)
LEMMA KeyJoins ==
  ASSUME NEW s \in Seq(Records), Keyed(s), NEW r \in Records, r.n \notin Keys(s)
  PROVE  LET t == Append(s, r) IN
         t \in Seq(Records) /\ Keyed(t) /\ In(t) = In(s) \cup {r} /\ t # <<>> /\ t[Len(t)] = r
<1> DEFINE t == Append(s, r)
<1>1. /\ t \in Seq(Records) /\ Len(s) \in Nat /\ DOMAIN s = 1 .. Len(s)
      /\ Len(t) = Len(s) + 1 /\ DOMAIN t = 1 .. Len(s) + 1
      /\ t[Len(s) + 1] = r /\ \A i \in 1 .. Len(s) : t[i] = s[i]
  OBVIOUS
<1> HIDE DEF t
<1>2. Keyed(t)
  BY <1>1 DEF Keyed, Keys
<1>3. In(t) = In(s) \cup {r}
  BY <1>1 DEF In
<1>4. t # <<>>
  BY <1>1, EmptySeq
<1> QED
  BY <1>1, <1>2, <1>3, <1>4 DEF t

LEMMA KeysOfLasts ==
  ASSUME NEW s \in Seq(Records), Keyed(s), NEW m \in Nat
  PROVE  Keyed(Lasts(s, m))
<1> DEFINE t == Lasts(s, m)
<1>1. PICK k \in Nat : \A i \in DOMAIN t : k + i \in DOMAIN s /\ t[i] = s[k + i] /\ i \in Nat
  BY LastsFrom
<1> HIDE DEF t
<1>2. \A i, j \in DOMAIN t : k + i = k + j => i = j
  BY <1>1
<1>3. Keyed(t)
  BY <1>1, <1>2 DEF Keyed
<1> QED
  BY <1>3 DEF t

(* What DeliveryTracker.record does to the records of the alert: before the
   oldest leave, and after. *)
Before(trk, x, status) ==
  IF Tracked(trk, x) /\ status # "pending" THEN RecordOf(trk, x).attempts ELSE 0
NewRecord(trk, x, status) ==
  [n |-> x.n, status |-> status,
   attempts |-> Before(trk, x, status) + IF status = "sent" THEN 1 ELSE 0]
Without(trk, x) ==
  IF Tracked(trk, x) THEN RemoveAt(trk[x.id], PlaceOf(trk, x)) ELSE trk[x.id]
AllRecords(trk, x, status) == Append(Without(trk, x), NewRecord(trk, x, status))

LEMMA RecordUnfolds ==
  ASSUME NEW trk, NEW x, NEW status
  PROVE  Record(trk, x, status)
           = [trk EXCEPT ![x.id] = Lasts(AllRecords(trk, x, status), MAX_NOTIFICATIONS_PER_ALERT)]
  BY DEF Record, AllRecords, NewRecord, Without, Before

LEMMA AllRecordsAre ==
  ASSUME NEW trk, NEW x \in Notes, NEW status \in TrackStatuses,
         trk[x.id] \in Seq(Records), Keyed(trk[x.id])
  PROVE  LET u == AllRecords(trk, x, status)
             r == NewRecord(trk, x, status) IN
         /\ u \in Seq(Records) /\ Keyed(u) /\ u # <<>> /\ u[Len(u)] = r /\ r \in Records
         /\ In(u) = {q \in In(trk[x.id]) : q.n # x.n} \cup {r}
         /\ Keys(u) \subseteq Keys(trk[x.id]) \cup {x.n}
<1> DEFINE s == trk[x.id]
           t == Without(trk, x)
           r == NewRecord(trk, x, status)
           u == AllRecords(trk, x, status)
<1>1. x.n \in Nat
  BY NoteFields, DeliveryAssumption
<1>2. t \in Seq(Records) /\ Keyed(t) /\ In(t) = {q \in In(s) : q.n # x.n}
  <2>1. CASE Tracked(trk, x)
    <3>1. PlaceOf(trk, x) \in DOMAIN s /\ s[PlaceOf(trk, x)].n = x.n
      BY <2>1, RecordIn DEF RecordOf
    <3>2. t = RemoveAt(s, PlaceOf(trk, x))
      BY <2>1 DEF Without
    <3> HIDE DEF s, t
    <3> QED
      BY <3>1, <3>2, KeyLeaves DEF s
  <2>2. CASE ~Tracked(trk, x)
    <3>1. t = s
      BY <2>2 DEF Without
    <3>2. \A q \in In(s) : q.n # x.n
      BY <2>2 DEF Tracked, In
    <3> QED
      BY <3>1, <3>2
  <2> QED
    BY <2>1, <2>2
<1>3. r \in Records /\ r.n = x.n
  <2>1. Before(trk, x, status) \in Nat
    <3>1. CASE Tracked(trk, x) /\ status # "pending"
      <4>1. RecordOf(trk, x) \in In(s)
        BY <3>1, RecordIn
      <4>2. In(s) \subseteq Records
        BY DEF In
      <4>3. RecordOf(trk, x).attempts \in Nat
        BY <4>1, <4>2 DEF Records
      <4> QED
        BY <3>1, <4>3 DEF Before
    <3>2. CASE ~(Tracked(trk, x) /\ status # "pending")
      BY <3>2 DEF Before
    <3> QED
      BY <3>1, <3>2
  <2> QED
    BY <1>1, <2>1 DEF NewRecord, Records
<1>4. r.n \notin Keys(t)
  BY <1>2, <1>3 DEF Keys, In
<1>5. u = Append(t, r)
  BY DEF AllRecords
<1> HIDE DEF u, t, r, s
<1>6. u \in Seq(Records) /\ Keyed(u) /\ In(u) = In(t) \cup {r} /\ u # <<>> /\ u[Len(u)] = r
  BY <1>2, <1>3, <1>4, <1>5, KeyJoins
<1>7. \A i \in DOMAIN u : u[i] \in In(u)
  BY DEF In
<1>8. \A q \in In(s) : q.n \in Keys(s)
  BY DEF In, Keys
<1>9. Keys(u) \subseteq Keys(s) \cup {x.n}
  BY <1>2, <1>3, <1>6, <1>7, <1>8 DEF Keys
<1> QED
  BY <1>2, <1>3, <1>6, <1>9 DEF u, r, s

(* One notification recorded: it has the new record, every other one the record
   it had, or none any more - and that only if there were too many. *)
Recorded(new, trk, x, status) ==
  /\ new \in [Alerts -> Seq(Records)]
  /\ \A a \in Alerts : a # x.id => new[a] = trk[a]
  /\ Keyed(new[x.id]) /\ Keys(new[x.id]) \subseteq Keys(trk[x.id]) \cup {x.n}
  /\ Tracked(new, x) /\ RecordOf(new, x) = NewRecord(trk, x, status)
  /\ \A y \in Notes : y # x /\ Tracked(new, y) =>
       Tracked(trk, y) /\ RecordOf(new, y) = RecordOf(trk, y)
  /\ \/ \A y \in Notes : Tracked(trk, y) => Tracked(new, y)
     \/ /\ AllRecords(trk, x, status) \in Seq(Records) /\ Keyed(AllRecords(trk, x, status))
        /\ Len(AllRecords(trk, x, status)) > MAX_NOTIFICATIONS_PER_ALERT
        /\ Keys(AllRecords(trk, x, status)) \subseteq Keys(trk[x.id]) \cup {x.n}
        /\ \A y \in Notes : y.id # x.id => (Tracked(trk, y) <=> Tracked(new, y))

LEMMA AfterRecord ==
  ASSUME NEW trk, trk \in [Alerts -> Seq(Records)], NEW x \in Notes,
         NEW status \in TrackStatuses, Keyed(trk[x.id])
  PROVE  Recorded(Record(trk, x, status), trk, x, status)
<1> DEFINE M == MAX_NOTIFICATIONS_PER_ALERT
           s == trk[x.id]
           u == AllRecords(trk, x, status)
           r == NewRecord(trk, x, status)
           v == Lasts(u, M)
           new == Record(trk, x, status)
<1>1. x.id \in Alerts /\ M \in Nat /\ M \in Nat \ {0} /\ s \in Seq(Records)
  BY NoteFields, DeliveryAssumption
<1>2. /\ u \in Seq(Records) /\ Keyed(u) /\ u # <<>> /\ u[Len(u)] = r /\ r \in Records
      /\ In(u) = {q \in In(s) : q.n # x.n} \cup {r}
      /\ Keys(u) \subseteq Keys(s) \cup {x.n}
  BY <1>1, AllRecordsAre
<1>3. new = [trk EXCEPT ![x.id] = v]
  BY RecordUnfolds
<1>4. r.n = x.n
  BY DEF NewRecord
<1> HIDE DEF u, r
<1>5. Len(u) <= M => v = u
  BY <1>1, <1>2, AfterLasts
<1>6. Keyed(v)
  BY <1>1, <1>2, KeysOfLasts
<1>7. r \in In(v)
  BY <1>1, <1>2, LastsKeepsNewest
<1>15. v \in Seq(Records) /\ In(v) \subseteq In(u)
  BY <1>1, <1>2, AfterLasts
<1> HIDE DEF v, new
<1>8. /\ new \in [Alerts -> Seq(Records)] /\ new[x.id] = v
      /\ \A a \in Alerts : a # x.id => new[a] = trk[a]
  BY <1>1, <1>3, <1>15
<1>9. Keys(v) \subseteq Keys(s) \cup {x.n}
  <2>1. \A i \in DOMAIN v : v[i] \in In(u)
    BY <1>15 DEF In
  <2>2. \A q \in In(s) : q.n \in Keys(s)
    BY DEF In, Keys
  <2> QED
    BY <1>2, <1>4, <2>1, <2>2 DEF Keys
<1>10. Tracked(new, x) /\ RecordOf(new, x) = r
  BY <1>4, <1>6, <1>7, <1>8, RecordIs
<1>11. ASSUME NEW y \in Notes, y # x, Tracked(new, y)
       PROVE  Tracked(trk, y) /\ RecordOf(new, y) = RecordOf(trk, y)
  <2>1. y.id \in Alerts /\ y = [id |-> y.id, n |-> y.n] /\ x = [id |-> x.id, n |-> x.n]
    BY NoteFields
  <2>2. CASE y.id # x.id
    BY <1>8, <1>11, <2>1, <2>2 DEF Tracked, RecordOf, PlaceOf
  <2>3. CASE y.id = x.id
    <3> DEFINE q == RecordOf(new, y)
    <3>1. q \in In(v) /\ q.n = y.n /\ y.n # x.n
      BY <1>8, <1>11, <2>1, <2>3, RecordIn
    <3>2. q \in In(trk[y.id])
      BY <1>2, <1>4, <1>15, <2>3, <3>1
    <3> HIDE DEF q
    <3>3. Tracked(trk, y) /\ RecordOf(trk, y) = q
      BY <2>3, <3>1, <3>2, RecordIs
    <3> QED
      BY <3>3 DEF q
  <2> QED
    BY <2>2, <2>3
<1>12. ASSUME NEW y \in Notes, y.id # x.id PROVE Tracked(trk, y) <=> Tracked(new, y)
  <2>1. y.id \in Alerts
    BY NoteFields
  <2> QED
    BY <1>8, <1>12, <2>1 DEF Tracked
<1>13. ASSUME Len(u) <= M, NEW y \in Notes, Tracked(trk, y) PROVE Tracked(new, y)
  <2>1. y.id \in Alerts /\ y = [id |-> y.id, n |-> y.n] /\ x = [id |-> x.id, n |-> x.n]
    BY NoteFields
  <2>2. CASE y.id # x.id
    BY <1>12, <1>13, <2>2
  <2>3. CASE y = x
    BY <1>10, <2>3
  <2>4. CASE y.id = x.id /\ y # x
    <3>1. PICK q \in In(s) : q.n = y.n
      BY <1>13, <2>4, RecordIn
    <3>2. q \in In(u)
      BY <1>2, <2>1, <2>4, <3>1
    <3>3. v = u /\ new[y.id] = v
      BY <1>5, <1>8, <1>13, <2>4
    <3>4. q \in In(new[y.id])
      BY <3>2, <3>3
    <3> QED
      BY <1>6, <3>1, <3>3, <3>4, RecordIs
  <2> QED
    BY <2>2, <2>3, <2>4
<1>14. Len(u) <= M \/ Len(u) > M
  BY <1>1, <1>2, LenProperties
<1> QED
  BY <1>2, <1>6, <1>8, <1>9, <1>10, <1>11, <1>12, <1>13, <1>14 DEF Recorded, new, u, r

-----------------------------------------------------------------------------
(* What a record says is where its notification is. *)

RecordAgrees(x) ==
  /\ Tracked(tracker, x)
  /\ RecordOf(tracker, x).status = "pending" <=> x \in Queued \cup dropped
  /\ RecordOf(tracker, x).status = "pending" => RecordOf(tracker, x).attempts = 0
  /\ RecordOf(tracker, x).status \in {"delivered", "failed"} <=> x \in settled
  /\ \A w \in Workers : At(x, w) =>
       /\ RecordOf(tracker, x).status = worker[w].phase
       /\ RecordOf(tracker, x).attempts = worker[w].attempt
  /\ RecordOf(tracker, x).status \in {"sent", "retrying"} => \E w \in Workers : At(x, w)

TrackerTypes ==
  /\ tracker \in [Alerts -> Seq(Records)]
  /\ \A a \in Alerts : Keyed(tracker[a]) /\ Keys(tracker[a]) \subseteq 1 .. told[a]

TrackerInv ==
  /\ FateInv /\ TrackerTypes
  /\ forgotten \subseteq Routed
  /\ \A x \in forgotten : told[x.id] > MAX_NOTIFICATIONS_PER_ALERT
  /\ \A x \in Routed \ forgotten : RecordAgrees(x)

(* The notification with a worker is the one its record is about. *)
LEMMA CallingIs ==
  ASSUME FateInv, NEW x \in Notes
  PROVE  x \in Calling <=> \E w \in Workers : At(x, w)
<1>1. x # NoNote
  BY NoNoteIsNone
<1>2. \A w \in Workers : At(x, w) => worker[w] # Idle /\ Job(w) = x
  BY <1>1 DEF At, Idle, Job
<1> QED
  BY <1>2 DEF Calling, At, Job

LEMMA WaitingIs ==
  ASSUME FateInv, NEW x \in Routed
  PROVE  x \in Queued \cup dropped <=> x \notin Calling /\ x \notin settled
  BY FateIs DEF FateInv

(* A step that records one notification, and moves no other. *)
LEMMA TrackKeeps ==
  ASSUME TrackerInv, FateInv', NEW x \in Notes, NEW status \in TrackStatuses,
         Track(x, status),
         x \in Routed', Routed \subseteq Routed', Routed' \subseteq Routed \cup {x},
         \A a \in Alerts : told[a] <= told'[a],
         settled' \ {x} = settled \ {x},
         \A v \in Workers : \/ worker'[v] = worker[v]
                            \/ worker[v].note \in {x, NoNote} /\ worker'[v].note \in {x, NoNote},
         tracker' \in [Alerts -> Seq(Records)] /\ Tracked(tracker, x)' /\ x \notin forgotten
           /\ RecordOf(tracker, x)' = NewRecord(tracker, x, status) => RecordAgrees(x)'
  PROVE  TrackerInv'
<1> DEFINE M == MAX_NOTIFICATIONS_PER_ALERT
           u == AllRecords(tracker, x, status)
<1>1. x.id \in Alerts /\ M \in Nat /\ told \in [Alerts -> Nat] /\ told' \in [Alerts -> Nat]
  BY NoteFields, DeliveryAssumption DEF TrackerInv, FateInv, CallbackTypes
<1>2. /\ tracker \in [Alerts -> Seq(Records)]
      /\ \A a \in Alerts : Keyed(tracker[a]) /\ Keys(tracker[a]) \subseteq 1 .. told[a]
  BY DEF TrackerInv, TrackerTypes
<1>3. tracker' = Record(tracker, x, status)
  BY DEF Track
<1>4. /\ tracker' \in [Alerts -> Seq(Records)]
      /\ \A a \in Alerts : a # x.id => tracker'[a] = tracker[a]
      /\ Keyed(tracker'[x.id]) /\ Keys(tracker'[x.id]) \subseteq Keys(tracker[x.id]) \cup {x.n}
      /\ Tracked(tracker', x) /\ RecordOf(tracker', x) = NewRecord(tracker, x, status)
      /\ \A y \in Notes : y # x /\ Tracked(tracker', y) =>
           Tracked(tracker, y) /\ RecordOf(tracker', y) = RecordOf(tracker, y)
      /\ \/ \A y \in Notes : Tracked(tracker, y) => Tracked(tracker', y)
         \/ /\ u \in Seq(Records) /\ Keyed(u) /\ Len(u) > M
            /\ Keys(u) \subseteq Keys(tracker[x.id]) \cup {x.n}
            /\ \A y \in Notes : y.id # x.id => (Tracked(tracker, y) <=> Tracked(tracker', y))
  <2>1. Recorded(Record(tracker, x, status), tracker, x, status)
    BY <1>1, <1>2, AfterRecord
  <2>2. Recorded(tracker', tracker, x, status)
    BY <1>3, <2>1
  <2> QED
    BY <2>2 DEF Recorded
<1>5. forgotten' = forgotten \cup {y \in Notes : Tracked(tracker, y) /\ ~Tracked(tracker', y)}
  BY DEF Track, Forget
<1> HIDE DEF u, M
<1>6. x.n \in 1 .. told'[x.id]
  <2>1. x.n <= told'[x.id]
    BY DEF Routed
  <2>2. x.n \in 1 .. Len(Life[x.id]) /\ Len(Life[x.id]) \in Nat
    BY <1>1, NoteFields, DeliveryAssumption
  <2> QED
    BY <1>1, <2>1, <2>2
<1>7. \A a \in Alerts : 1 .. told[a] \subseteq 1 .. told'[a]
  BY <1>1
<1>8. TrackerTypes'
  <2>1. Keys(tracker'[x.id]) \subseteq 1 .. told'[x.id]
    BY <1>1, <1>2, <1>4, <1>6, <1>7
  <2>2. \A a \in Alerts : Keyed(tracker'[a]) /\ Keys(tracker'[a]) \subseteq 1 .. told'[a]
    BY <1>2, <1>4, <1>7, <2>1
  <2> QED
    BY <1>4, <2>2 DEF TrackerTypes, Keyed, Keys
<1>9. ASSUME NEW y \in Notes, Tracked(tracker, y), ~Tracked(tracker', y)
      PROVE  y \in Routed /\ told'[y.id] > M
  <2>1. y.id \in Alerts /\ y.n \in Keys(tracker[y.id])
    BY <1>9, NoteFields, RecordIn DEF In, Keys
  <2>2. y.n <= told[y.id]
    BY <1>1, <1>2, <2>1
  <2>3. y.id = x.id /\ u \in Seq(Records) /\ Keyed(u) /\ Len(u) > M
        /\ Keys(u) \subseteq Keys(tracker[x.id]) \cup {x.n}
    BY <1>4, <1>9
  <2>4. Keys(u) \subseteq 1 .. told'[x.id] /\ told'[x.id] \in Nat
    BY <1>1, <1>2, <1>6, <1>7, <2>3
  <2>5. Len(u) <= told'[x.id] /\ Len(u) \in Nat
    BY <2>3, <2>4, KeyedBounds, LenProperties
  <2>6. told'[x.id] > M
    BY <1>1, <2>3, <2>4, <2>5
  <2> QED
    BY <2>2, <2>3, <2>6 DEF Routed
<1>10. /\ forgotten' \subseteq Routed'
       /\ \A y \in forgotten' : told'[y.id] > M
  <2>1. \A y \in forgotten : y.id \in Alerts /\ y \in Routed /\ told[y.id] > M
    BY NoteFields DEF TrackerInv, M, Routed
  <2>2. \A y \in forgotten : told'[y.id] > M
    BY <1>1, <2>1
  <2> QED
    BY <1>5, <1>9, <2>1, <2>2
<1>11. ASSUME NEW y \in Routed' \ forgotten', y # x
       PROVE  RecordAgrees(y)'
  <2>1. y \in Notes /\ y \in Routed /\ y \notin forgotten /\ RecordAgrees(y)
    BY <1>5, <1>11 DEF TrackerInv, Routed
  <2>2. Tracked(tracker', y) /\ RecordOf(tracker', y) = RecordOf(tracker, y)
    BY <1>4, <1>5, <1>11, <2>1 DEF RecordAgrees
  <2>3. y # NoNote
    BY <2>1, NoNoteIsNone
  <2>4. \A v \in Workers : At(y, v)' <=> At(y, v)
    BY <1>11, <2>3 DEF At
  <2>5. \A v \in Workers : At(y, v) => worker'[v] = worker[v]
    BY <1>11, <2>3 DEF At
  <2>6. y \in settled' <=> y \in settled
    BY <1>11
  <2>7. y \in Calling <=> \E w \in Workers : At(y, w)
    BY <2>1, CallingIs DEF TrackerInv
  <2>8. y \in Calling' <=> \E w \in Workers : At(y, w)'
    <3>1. \A w \in Workers : At(y, w)' => worker'[w] # Idle
      BY <2>3 DEF At, Idle
    <3> QED
      BY <3>1 DEF Calling, At, Job
  <2>9. y \in Queued' \cup dropped' <=> y \in Queued \cup dropped
    <3>1. y \in Queued \cup dropped <=> y \notin Calling /\ y \notin settled
      BY <2>1, WaitingIs DEF TrackerInv
    <3>2. y \in Queued' \cup dropped' <=> y \notin Calling' /\ y \notin settled'
      BY <1>11 DEF FateInv, Accounted
    <3> QED
      BY <2>4, <2>6, <2>7, <2>8, <3>1, <3>2
  <2> QED
    BY <2>1, <2>2, <2>4, <2>5, <2>6, <2>9 DEF RecordAgrees, Tracked, RecordOf, PlaceOf
<1>12. x \notin forgotten' => RecordAgrees(x)'
  <2>1. Tracked(tracker, x)' /\ RecordOf(tracker, x)' = NewRecord(tracker, x, status)
    BY <1>4 DEF Tracked, RecordOf, PlaceOf
  <2> QED
    BY <1>4, <1>5, <2>1
<1> QED
  BY <1>8, <1>10, <1>11, <1>12 DEF TrackerInv, M

(* The record is right for each of the places a notification can be in. *)
LEMMA PendingAgrees ==
  ASSUME FateInv', NEW x \in Notes, Tracked(tracker, x)',
         RecordOf(tracker, x)'.status = "pending", RecordOf(tracker, x)'.attempts = 0,
         x \in Routed', x \notin Calling', x \notin settled'
  PROVE  RecordAgrees(x)'
<1>1. x \in Queued' \cup dropped'
  BY DEF FateInv, Accounted
<1>2. \A w \in Workers : ~At(x, w)'
  <2>1. x # NoNote
    BY NoNoteIsNone
  <2> QED
    BY <2>1 DEF At, Calling, Job, Idle
<1> QED
  BY <1>1, <1>2 DEF RecordAgrees

LEMMA CallAgrees ==
  ASSUME FateInv', NEW x \in Notes, Tracked(tracker, x)', NEW w \in Workers, At(x, w)',
         RecordOf(tracker, x)'.status \in {"sent", "retrying"},
         RecordOf(tracker, x)'.status = worker'[w].phase,
         RecordOf(tracker, x)'.attempts = worker'[w].attempt
  PROVE  RecordAgrees(x)'
<1>1. x # NoNote
  BY NoNoteIsNone
<1>2. \A v \in Workers : At(x, v)' => worker'[v] # Idle /\ Job(v)' = x
  BY <1>1 DEF At, Idle, Job
<1>3. x \in Calling'
  BY <1>2 DEF Calling, Job
<1>4. x \notin Queued' /\ x \notin dropped' /\ x \notin settled'
  BY <1>3 DEF FateInv, Accounted
<1>5. \A v \in Workers : At(x, v)' => v = w
  BY <1>2 DEF FateInv, Accounted
<1> QED
  BY <1>4, <1>5 DEF RecordAgrees

LEMMA SettledAgrees ==
  ASSUME FateInv', NEW x \in Notes, Tracked(tracker, x)', x \in settled',
         RecordOf(tracker, x)'.status \in {"delivered", "failed"}
  PROVE  RecordAgrees(x)'
<1>1. x # NoNote
  BY NoNoteIsNone
<1>2. x \notin Queued' /\ x \notin dropped' /\ x \notin Calling'
  BY DEF FateInv, Accounted
<1>3. \A v \in Workers : ~At(x, v)'
  BY <1>1, <1>2 DEF At, Idle, Job, Calling
<1> QED
  BY <1>2, <1>3 DEF RecordAgrees

(* What the record of a notification becomes. *)
LEMMA NewRecordIs ==
  ASSUME NEW x, NEW status
  PROVE  /\ NewRecord(tracker, x, status).status = status
         /\ status = "pending" => NewRecord(tracker, x, status).attempts = 0
         /\ Tracked(tracker, x) /\ status # "pending" /\ RecordOf(tracker, x).attempts \in Nat =>
              NewRecord(tracker, x, status).attempts
                = RecordOf(tracker, x).attempts + IF status = "sent" THEN 1 ELSE 0
  BY DEF NewRecord, Before

(* The steps that record something. *)
LEMMA RouteRecords ==
  ASSUME TrackerInv, NEW a \in Alerts, Route(a)
  PROVE  TrackerInv'
<1>0. PICK x : x = Next1(a)
  OBVIOUS
<1>1. FateInv' /\ x \in Notes /\ x \notin Routed /\ Routed' = Routed \cup {x}
  BY <1>0, RouteKeeps, RouteAdds DEF TrackerInv, FateInv
<1>2. Track(x, "pending") /\ UNCHANGED <<worker, settled>>
  BY <1>0 DEF Route, Next1
<1>3. \A b \in Alerts : told[b] <= told'[b]
  <2>1. told \in [Alerts -> Nat] /\ told' = [told EXCEPT ![a] = @ + 1]
    BY DEF TrackerInv, FateInv, CallbackTypes, Route
  <2> QED
    BY <2>1
<1>4. x \notin Calling' /\ x \notin settled'
  <2>1. Calling' = Calling
    BY <1>2, CallingStays
  <2> QED
    BY <1>1, <1>2, <2>1, FateIs DEF TrackerInv, FateInv
<1>5. ASSUME Tracked(tracker, x)', RecordOf(tracker, x)' = NewRecord(tracker, x, "pending")
      PROVE  RecordAgrees(x)'
  <2>1. RecordOf(tracker, x)'.status = "pending" /\ RecordOf(tracker, x)'.attempts = 0
    BY <1>5, NewRecordIs
  <2> QED
    BY <1>1, <1>4, <1>5, <2>1, PendingAgrees
<1>6. "pending" \in TrackStatuses
  BY DEF TrackStatuses
<1> QED
  BY <1>1, <1>2, <1>3, <1>5, <1>6, TrackKeeps

(* The record of a notification that is queued or called. *)
LEMMA OldRecord ==
  ASSUME TrackerInv, NEW x \in Routed \ forgotten
  PROVE  /\ x \in Notes /\ Tracked(tracker, x) /\ RecordOf(tracker, x).attempts \in Nat
         /\ x \in Queued => RecordOf(tracker, x).attempts = 0
         /\ \A w \in Workers : At(x, w) => RecordOf(tracker, x).attempts = worker[w].attempt
<1>1. RecordAgrees(x) /\ x \in Notes /\ x.id \in Alerts
  BY NoteFields DEF TrackerInv, Routed
<1>2. RecordOf(tracker, x) \in Records
  <2>1. RecordOf(tracker, x) \in In(tracker[x.id])
    BY <1>1, RecordIn DEF RecordAgrees
  <2>2. tracker[x.id] \in Seq(Records)
    BY <1>1 DEF TrackerInv, TrackerTypes
  <2> QED
    BY <2>1, <2>2 DEF In
<1> QED
  BY <1>1, <1>2 DEF RecordAgrees, Records

LEMMA GetRecords ==
  ASSUME TrackerInv, NEW w \in Workers, Get(w)
  PROVE  TrackerInv'
<1>0. PICK x : x = Head(queue)
  OBVIOUS
<1> DEFINE d == [note |-> x, attempt |-> 1, phase |-> "sent"]
<1>1. FateInv' /\ queue \in Seq(Notes) /\ queue # <<>> /\ worker \in [Workers -> Deliveries]
  BY GetKeeps DEF TrackerInv, FateInv, CallbackTypes, Get
<1>2. x \in Notes /\ x \in Queued
  BY <1>0, <1>1 DEF Queued
<1>3. /\ Track(x, "sent") /\ UNCHANGED <<told, dropped, settled>>
      /\ worker' = [worker EXCEPT ![w] = d] /\ worker[w] = Idle
  BY <1>0 DEF Get, Attempt
<1>4. Routed' = Routed /\ x \in Routed
  BY <1>2, <1>3, RoutedStays, FateIs DEF TrackerInv, FateInv
<1>5. \A a \in Alerts : told[a] <= told'[a]
  BY <1>3 DEF TrackerInv, FateInv, CallbackTypes
<1>6. worker'[w] = d /\ \A v \in Workers \ {w} : worker'[v] = worker[v]
  BY <1>1, <1>3
<1>7. \A v \in Workers : \/ worker'[v] = worker[v]
                         \/ worker[v].note \in {x, NoNote} /\ worker'[v].note \in {x, NoNote}
  BY <1>3, <1>6 DEF Idle
<1>8. ASSUME Tracked(tracker, x)', x \notin forgotten,
             RecordOf(tracker, x)' = NewRecord(tracker, x, "sent")
      PROVE  RecordAgrees(x)'
  <2>1. Tracked(tracker, x) /\ RecordOf(tracker, x).attempts = 0
    BY <1>2, <1>4, <1>8, OldRecord
  <2>2. RecordOf(tracker, x)'.status = "sent" /\ RecordOf(tracker, x)'.attempts = 1
    BY <1>8, <2>1, NewRecordIs
  <2>3. At(x, w)'
    BY <1>6 DEF At
  <2> QED
    BY <1>1, <1>2, <1>6, <1>8, <2>2, <2>3, CallAgrees
<1>9. "sent" \in TrackStatuses
  BY DEF TrackStatuses
<1> QED
  BY <1>1, <1>2, <1>3, <1>4, <1>5, <1>7, <1>8, <1>9, TrackKeeps

LEMMA GetTooLargeRecords ==
  ASSUME TrackerInv, NEW w \in Workers, GetTooLarge(w)
  PROVE  TrackerInv'
<1>0. PICK x : x = Head(queue)
  OBVIOUS
<1>1. FateInv' /\ queue \in Seq(Notes) /\ queue # <<>>
  BY GetTooLargeKeeps DEF TrackerInv, FateInv, CallbackTypes, GetTooLarge
<1>2. x \in Notes /\ x \in Queued
  BY <1>0, <1>1 DEF Queued
<1>3. /\ Track(x, "failed") /\ UNCHANGED <<told, dropped, worker>>
      /\ settled' = settled \cup {x}
  BY <1>0 DEF GetTooLarge
<1>4. Routed' = Routed /\ x \in Routed
  BY <1>2, <1>3, RoutedStays, FateIs DEF TrackerInv, FateInv
<1>5. \A a \in Alerts : told[a] <= told'[a]
  BY <1>3 DEF TrackerInv, FateInv, CallbackTypes
<1>6. ASSUME Tracked(tracker, x)', RecordOf(tracker, x)' = NewRecord(tracker, x, "failed")
      PROVE  RecordAgrees(x)'
  <2>1. RecordOf(tracker, x)'.status = "failed" /\ x \in settled'
    BY <1>3, <1>6, NewRecordIs
  <2> QED
    BY <1>1, <1>2, <1>6, <2>1, SettledAgrees
<1>7. "failed" \in TrackStatuses
  BY DEF TrackStatuses
<1> QED
  BY <1>1, <1>2, <1>3, <1>4, <1>5, <1>6, <1>7, TrackKeeps

(* A worker that calls has a notification of its own. *)
LEMMA JobIs ==
  ASSUME FateInv, NEW w \in Workers, worker[w] # Idle
  PROVE  Job(w) \in Notes /\ Job(w) \in Routed /\ At(Job(w), w)
<1>1. Job(w) \in Calling
  BY DEF Calling
<1>2. Job(w) \in Routed
  BY <1>1, FateIs DEF FateInv
<1> QED
  BY <1>2 DEF At, Job, Routed

LEMMA SettleRecords ==
  ASSUME TrackerInv, NEW w \in Workers, NEW status \in {"delivered", "failed"},
         worker[w].phase = "sent", Settle(w, status)
  PROVE  TrackerInv'
<1>0. PICK x : x = Job(w)
  OBVIOUS
<1>1. FateInv' /\ worker \in [Workers -> Deliveries] /\ worker[w] # Idle
  BY SettleKeeps DEF TrackerInv, FateInv, CallbackTypes, Idle
<1>2. x \in Notes /\ x \in Routed /\ worker[w].note = x
  BY <1>0, <1>1, JobIs DEF TrackerInv, Job
<1>3. /\ Track(x, status) /\ UNCHANGED <<told, queue, dropped>>
      /\ settled' = settled \cup {x} /\ worker' = [worker EXCEPT ![w] = Idle]
  BY <1>0 DEF Settle
<1>4. Routed' = Routed
  BY <1>3, RoutedStays
<1>5. \A a \in Alerts : told[a] <= told'[a]
  BY <1>3 DEF TrackerInv, FateInv, CallbackTypes
<1>6. worker'[w].note = NoNote /\ \A v \in Workers \ {w} : worker'[v] = worker[v]
  BY <1>1, <1>3 DEF Idle
<1>7. \A v \in Workers : \/ worker'[v] = worker[v]
                         \/ worker[v].note \in {x, NoNote} /\ worker'[v].note \in {x, NoNote}
  BY <1>2, <1>6
<1>8. ASSUME Tracked(tracker, x)', RecordOf(tracker, x)' = NewRecord(tracker, x, status)
      PROVE  RecordAgrees(x)'
  <2>1. RecordOf(tracker, x)'.status \in {"delivered", "failed"} /\ x \in settled'
    BY <1>3, <1>8, NewRecordIs
  <2> QED
    BY <1>1, <1>2, <1>8, <2>1, SettledAgrees
<1>9. status \in TrackStatuses
  BY DEF TrackStatuses
<1> QED
  BY <1>1, <1>2, <1>3, <1>4, <1>5, <1>7, <1>8, <1>9, TrackKeeps

(* A worker that waits for its retry, or makes it. *)
LEMMA GoOnRecords ==
  ASSUME TrackerInv, FateInv', NEW w \in Workers, worker[w] # Idle,
         NEW d \in Deliveries, d.note = Job(w), d.phase \in {"sent", "retrying"},
         d.attempt = worker[w].attempt + (IF d.phase = "sent" THEN 1 ELSE 0),
         worker' = [worker EXCEPT ![w] = d], Track(Job(w), d.phase),
         UNCHANGED <<told, queue, dropped, settled>>
  PROVE  TrackerInv'
<1>0. PICK x : x = Job(w)
  OBVIOUS
<1>1. worker \in [Workers -> Deliveries]
  BY DEF TrackerInv, FateInv, CallbackTypes
<1>2. x \in Notes /\ x \in Routed /\ worker[w].note = x /\ At(x, w)
  BY <1>0, <1>1, JobIs DEF TrackerInv, Job
<1>3. Track(x, d.phase) /\ d.note = x
  BY <1>0
<1>4. Routed' = Routed
  BY RoutedStays
<1>5. \A a \in Alerts : told[a] <= told'[a]
  BY DEF TrackerInv, FateInv, CallbackTypes
<1>6. worker'[w] = d /\ \A v \in Workers \ {w} : worker'[v] = worker[v]
  BY <1>1
<1>7. \A v \in Workers : \/ worker'[v] = worker[v]
                         \/ worker[v].note \in {x, NoNote} /\ worker'[v].note \in {x, NoNote}
  BY <1>2, <1>3, <1>6
<1>8. ASSUME Tracked(tracker, x)', x \notin forgotten,
             RecordOf(tracker, x)' = NewRecord(tracker, x, d.phase)
      PROVE  RecordAgrees(x)'
  <2>1. /\ Tracked(tracker, x) /\ RecordOf(tracker, x).attempts = worker[w].attempt
        /\ RecordOf(tracker, x).attempts \in Nat
    BY <1>2, <1>8, OldRecord
  <2>2. RecordOf(tracker, x)'.status = d.phase
    BY <1>8, NewRecordIs
  <2>3. RecordOf(tracker, x)'.attempts = d.attempt
    <3>1. d.phase # "pending"
      OBVIOUS
    <3>2. RecordOf(tracker, x)'.attempts
            = RecordOf(tracker, x).attempts + (IF d.phase = "sent" THEN 1 ELSE 0)
      BY <1>8, <2>1, <3>1, NewRecordIs
    <3> QED
      BY <2>1, <3>2
  <2>4. At(x, w)'
    BY <1>3, <1>6 DEF At
  <2> QED
    BY <1>2, <1>6, <1>8, <2>2, <2>3, <2>4, CallAgrees
<1>9. d.phase \in TrackStatuses
  BY DEF TrackStatuses
<1> QED
  BY <1>2, <1>3, <1>4, <1>5, <1>7, <1>8, <1>9, TrackKeeps

LEMMA RetryLaterRecords ==
  ASSUME TrackerInv, NEW w \in Workers, RetryLater(w)
  PROVE  TrackerInv'
<1> DEFINE d == [worker[w] EXCEPT !.phase = "retrying"]
<1>1. worker[w] \in Deliveries /\ FateInv'
  BY RetryLaterKeeps DEF TrackerInv, FateInv, CallbackTypes
<1>2. /\ d \in Deliveries /\ d.phase = "retrying" /\ d.note = Job(w)
      /\ d.attempt = worker[w].attempt + 0
  BY <1>1 DEF Deliveries, Job
<1>3. worker[w] # Idle
  BY DEF RetryLater, Idle
<1>4. /\ worker' = [worker EXCEPT ![w] = d] /\ UNCHANGED <<told, queue, dropped, settled>>
      /\ Track(Job(w), "retrying")
  BY <1>1 DEF RetryLater
<1> HIDE DEF d
<1> QED
  BY <1>1, <1>2, <1>3, <1>4, GoOnRecords

LEMMA RetryRecords ==
  ASSUME TrackerInv, NEW w \in Workers, Retry(w)
  PROVE  TrackerInv'
<1> DEFINE d == [note |-> Job(w), attempt |-> worker[w].attempt + 1, phase |-> "sent"]
<1>1. worker[w] \in Deliveries /\ FateInv'
  BY RetryKeeps DEF TrackerInv, FateInv, CallbackTypes
<1>2. /\ d \in Deliveries /\ d.phase = "sent" /\ d.note = Job(w)
      /\ d.attempt = worker[w].attempt + 1
  BY <1>1 DEF Deliveries, Job
<1>3. worker[w] # Idle
  BY DEF Retry, Idle
<1>4. /\ worker' = [worker EXCEPT ![w] = d] /\ UNCHANGED <<told, queue, dropped, settled>>
      /\ Track(Job(w), "sent")
  BY DEF Retry, Attempt
<1> HIDE DEF d
<1> QED
  BY <1>1, <1>2, <1>3, <1>4, GoOnRecords

(* The steps that record nothing. *)
LEMMA RecordsStay ==
  ASSUME TrackerInv, UNCHANGED <<told, callbackVars>>
  PROVE  TrackerInv'
<1>1. UNCHANGED <<told, queue, worker, tracker, dropped, settled, forgotten>>
  BY DEF callbackVars
<1>2. FateInv'
  BY FateStays DEF TrackerInv
<1>3. Routed' = Routed /\ Queued' = Queued
  BY <1>1, RoutedStays, QueuedStays
<1>4. TrackerTypes'
  BY <1>1 DEF TrackerInv, TrackerTypes, Keyed, Keys
<1>5. \A x : RecordAgrees(x)' <=> RecordAgrees(x)
  BY <1>1, <1>3 DEF RecordAgrees, Tracked, RecordOf, PlaceOf, At
<1> QED
  BY <1>1, <1>2, <1>3, <1>4, <1>5 DEF TrackerInv

LEMMA TrackerStart == Init => TrackerInv
<1> SUFFICES ASSUME Init PROVE TrackerInv
  OBVIOUS
<1>1. tracker = [a \in Alerts |-> <<>>] /\ forgotten = {} /\ FateInv
  BY FateStart DEF Init
<1>2. Routed = {}
  <2>1. told = [a \in Alerts |-> 0]
    BY DEF Init
  <2> QED
    BY <2>1, NoteFields DEF Routed
<1>3. TrackerTypes
  BY <1>1 DEF TrackerTypes, Keyed, Keys
<1> QED
  BY <1>1, <1>2, <1>3 DEF TrackerInv

LEMMA TrackerStep == TrackerInv /\ [Next]_vars => TrackerInv'
<1> SUFFICES ASSUME TrackerInv, [Next]_vars PROVE TrackerInv'
  OBVIOUS
<1>1. ASSUME NEW a \in Alerts, Route(a) PROVE TrackerInv'
  BY <1>1, RouteRecords
<1>2. ASSUME NEW w \in Workers, Work(w) PROVE TrackerInv'
  <2>1. CASE Get(w)
    BY <2>1, GetRecords
  <2>2. CASE GetTooLarge(w)
    BY <2>2, GetTooLargeRecords
  <2>3. CASE Delivered(w)
    BY <2>3, SettleRecords DEF Delivered
  <2>4. CASE PermanentFailure(w)
    BY <2>4, SettleRecords DEF PermanentFailure
  <2>5. CASE RetriesExhausted(w)
    BY <2>5, SettleRecords DEF RetriesExhausted
  <2>6. CASE RetryLater(w)
    BY <2>6, RetryLaterRecords
  <2>7. CASE Retry(w)
    BY <2>7, RetryRecords
  <2> QED
    BY <1>2, <2>1, <2>2, <2>3, <2>4, <2>5, <2>6, <2>7 DEF Work
<1>3. CASE Publish \/ PublishAgain \/ GiveUp
  BY <1>3, RecordsStay DEF Publish, PublishAgain, GiveUp
<1>4. CASE UNCHANGED vars
  BY <1>4, RecordsStay DEF vars
<1> QED
  BY <1>1, <1>2, <1>3, <1>4 DEF Next

(* What the tracker says of a notification is where it is and how often it was
   tried, whatever the other notifications of its alert do meanwhile; and a
   record is only ever forgotten for an alert that told more than the tracker
   keeps: with any number of workers, of alerts and of records kept. *)
THEOREM RecordsAgree == Spec => []TrackerAgrees
<1>1. Init => TrackerInv
  BY TrackerStart
<1>2. TrackerInv /\ [Next]_vars => TrackerInv'
  BY TrackerStep
<1>3. TrackerInv => TrackerAgrees
  <2> SUFFICES ASSUME TrackerInv PROVE TrackerAgrees
    OBVIOUS
  <2>1. ToSet(queue) = Queued
    BY DEF ToSet, Queued
  <2>2. ASSUME NEW x \in Routed \ forgotten PROVE RecordAgrees(x)
    BY DEF TrackerInv
  <2> QED
    BY <2>1, <2>2 DEF TrackerAgrees, RecordAgrees, TrackerInv
<1> QED
  BY <1>1, <1>2, <1>3, PTL DEF Spec

-----------------------------------------------------------------------------
(* What is published of an alert, and what the backend makes of it. *)

Fin == {"delivered", "failed"}
Item(x, d) == [id |-> x.id, status |-> Life[x.id][x.n].status,
               count |-> Life[x.id][x.n].count, delivery |-> d]
PubItems == {Item(x, d) : x \in Notes, d \in {"pending", "retrying", "delivered", "failed"}}

(* An alert fires, and is resolved at most once and last: the engine takes a
   new id for the next outage. *)
OneOutage == \A a \in Alerts : \A n \in DOMAIN Life[a] :
  /\ Life[a][n].status \in {"firing", "resolved"}
  /\ n < Len(Life[a]) => Life[a][n].status = "firing"

Newest(a) == [id |-> a, n |-> told[a]]
ToldStatus(a) == Life[a][told[a]].status
ToldOf(a, status) == \E n \in 1 .. told[a] : status = Life[a][n].status
Relevant(e, a) == e.id = a /\ e.status = ToldStatus(a)

(* The outcome of the status told last is in the store, or on its way at i. *)
StoreShows(a) ==
  /\ Known(store, a) /\ store.alerts[a].status = ToldStatus(a)
  /\ store.alerts[a].delivery \in Fin
Shows(i, a) == IF i = 0 THEN StoreShows(a)
               ELSE i \in DOMAIN pub /\ Relevant(pub[i], a) /\ pub[i].delivery \in Fin
Follows(i, a) == \A j \in DOMAIN pub : j > i /\ Relevant(pub[j], a) => pub[j].delivery \in Fin
Arrives(a) == \E i \in 0 .. Len(pub) : Shows(i, a) /\ Follows(i, a)

PubTypes ==
  /\ pub \in Seq(PubItems) /\ InstanceOk(store, Alerts)
  /\ \A a \in Alerts : told[a] <= Len(Life[a])
  /\ \A i \in DOMAIN pub : ToldOf(pub[i].id, pub[i].status)
  /\ \A a \in DOMAIN store.alerts : ToldOf(a, store.alerts[a].status)

Sent(a) == told[a] > 0 => Known(store, a) \/ \E i \in DOMAIN pub : pub[i].id = a
Preceded(a) == \A i \in DOMAIN pub : pub[i].id = a /\ pub[i].delivery \in Fin =>
  Known(store, a) \/ \E j \in DOMAIN pub : j < i /\ pub[j].id = a
Caught(a) == told[a] > 0 /\ Newest(a) \in settled => Arrives(a)

PubInv ==
  /\ PubTypes
  /\ \A a \in Alerts \ lost : Sent(a) /\ Preceded(a) /\ Caught(a)

BackInv == TrackerInv /\ PubInv

LEMMA ItemIs ==
  ASSUME NEW e \in PubItems
  PROVE  e.id \in Alerts /\ e.delivery # NoDelivery
<1>1. PICK x \in Notes, d \in {"pending", "retrying", "delivered", "failed"} : e = Item(x, d)
  BY DEF PubItems
<1> QED
  BY <1>1, NoteFields DEF NoDelivery, Item

LEMMA TypesOfPub ==
  ASSUME BackInv
  PROVE  told \in [Alerts -> Nat] /\ pub \in Seq(PubItems) /\ PubTypes
         /\ \A a \in Alerts : told[a] \in 0 .. Len(Life[a]) /\ Len(Life[a]) \in Nat
<1>1. told \in [Alerts -> Nat] /\ pub \in Seq(PubItems) /\ PubTypes
  BY DEF BackInv, PubInv, PubTypes, TrackerInv, FateInv, CallbackTypes
<1> QED
  BY <1>1, DeliveryAssumption DEF PubTypes

(* An alert whose newest status is firing was never told resolved. *)
LEMMA FiringSoFar ==
  ASSUME OneOutage, BackInv, NEW a \in Alerts, told[a] > 0,
         NEW status, ToldOf(a, status), status # ToldStatus(a)
  PROVE  ToldStatus(a) = "resolved" /\ status = "firing"
<1>1. told[a] \in 1 .. Len(Life[a]) /\ Len(Life[a]) \in Nat
  BY TypesOfPub
<1>2. PICK n \in 1 .. told[a] : status = Life[a][n].status
  BY DEF ToldOf
<1>3. n < told[a] /\ n < Len(Life[a]) /\ n \in 1 .. Len(Life[a])
  BY <1>1, <1>2 DEF ToldStatus
<1>4. DOMAIN Life[a] = 1 .. Len(Life[a])
  BY DeliveryAssumption
<1>5. status = "firing" /\ ToldStatus(a) \in {"firing", "resolved"}
  BY <1>1, <1>2, <1>3, <1>4 DEF OneOutage, ToldStatus
<1> QED
  BY <1>5

LEMMA StatusToldOf ==
  ASSUME OneOutage, BackInv, NEW a \in Alerts, NEW status, ToldOf(a, status)
  PROVE  status \in Statuses
<1>1. PICK n \in 1 .. told[a] : status = Life[a][n].status
  BY DEF ToldOf
<1>2. n \in 1 .. Len(Life[a])
  BY <1>1, TypesOfPub
<1>3. n \in DOMAIN Life[a]
  BY <1>2, DeliveryAssumption
<1> QED
  BY <1>1, <1>3 DEF OneOutage, Statuses, ActiveStatuses

(* What the update at the head of the publisher's queue does to the store. *)
LEMMA HeadMerges ==
  ASSUME RoomForAll(Alerts), OneOutage, BackInv, pub # <<>>,
         store' = Merge(store, Head(pub)), UNCHANGED told
  PROVE  /\ InstanceOk(store', Alerts)
         /\ \A a \in DOMAIN store'.alerts : ToldOf(a, store'.alerts[a].status)
         /\ \A a : Known(store', a) <=> Known(store, a) \/ pub[1].id = a
         /\ \A a \in Alerts : told[a] > 0 /\ StoreShows(a) /\ Follows(0, a) => StoreShows(a)'
         /\ \A a \in Alerts : told[a] > 0 /\ Known(store, a) /\ Shows(1, a) => StoreShows(a)'
<1> DEFINE e == pub[1]
<1>1. pub \in Seq(PubItems) /\ Head(pub) = e /\ e \in PubItems /\ 1 \in DOMAIN pub
  BY TypesOfPub
<1>2. e.id \in Alerts /\ e.delivery # NoDelivery /\ ToldOf(e.id, e.status)
  BY <1>1, ItemIs, TypesOfPub DEF PubTypes
<1>3. e.status \in Statuses
  BY <1>2, StatusToldOf
<1>4. InstanceOk(store, Alerts)
  BY DEF BackInv, PubInv, PubTypes
<1>5. store' = Merge(store, e)
  BY <1>1
<1> HIDE DEF e
<1>6. InstanceOk(store', Alerts)
  BY <1>2, <1>3, <1>4, <1>5, MergeOk
<1>7. /\ \A a : a # e.id => (Known(store', a) <=> Known(store, a))
      /\ \A a : a # e.id /\ Known(store, a) => store'.alerts[a] = store.alerts[a]
      /\ Known(store', e.id)
      /\ Stale(store, e) => store' = store
      /\ ~Stale(store, e) =>
           /\ store'.alerts[e.id].status = e.status
           /\ Known(store, e.id) => store'.alerts[e.id].delivery = e.delivery
  BY <1>2, <1>3, <1>4, <1>5, MergeExact
<1>8. \A a \in DOMAIN store.alerts : ToldOf(a, store.alerts[a].status)
  BY DEF BackInv, PubInv, PubTypes
<1>9. ASSUME NEW a \in DOMAIN store'.alerts PROVE ToldOf(a, store'.alerts[a].status)
  <2>1. CASE a # e.id \/ Stale(store, e)
    <3>1. a \in DOMAIN store.alerts /\ store'.alerts[a] = store.alerts[a]
      BY <1>7, <1>9, <2>1 DEF Known, Stale, IsResolved
    <3> QED
      BY <1>8, <3>1
  <2>2. CASE a = e.id /\ ~Stale(store, e)
    BY <1>2, <1>7, <2>2
  <2> QED
    BY <2>1, <2>2
<1>10. ASSUME NEW a \in Alerts, told[a] > 0, Known(store, a), ToldStatus(a) = e.status, e.id = a
       PROVE  ~Stale(store, e)
  <2> SUFFICES ASSUME Stale(store, e) PROVE FALSE
    OBVIOUS
  <2>1. store.alerts[a].status = "resolved" /\ e.status # "resolved" /\ ToldOf(a, "resolved")
    BY <1>8, <1>10 DEF Stale, IsResolved, Known
  <2> QED
    BY <1>10, <2>1, FiringSoFar
<1>11. \A a \in Alerts : ToldStatus(a)' = ToldStatus(a)
  BY DEF ToldStatus
<1>12. ASSUME NEW a \in Alerts, told[a] > 0, StoreShows(a), Follows(0, a) PROVE StoreShows(a)'
  <2>1. Known(store, a) /\ store.alerts[a].status = ToldStatus(a)
        /\ store.alerts[a].delivery \in Fin
    BY <1>12 DEF StoreShows
  <2>2. CASE e.id # a
    <3>1. Known(store', a) /\ store'.alerts[a] = store.alerts[a]
      BY <1>7, <2>1, <2>2
    <3> QED
      BY <1>11, <2>1, <3>1 DEF StoreShows, Known
  <2>3. CASE e.id = a /\ e.status = ToldStatus(a)
    <3>1. e.delivery \in Fin
      BY <1>1, <1>12, <2>3 DEF Follows, Relevant, e
    <3>2. Known(store', a) /\ store'.alerts[a].status = e.status
          /\ store'.alerts[a].delivery = e.delivery
      BY <1>7, <1>10, <1>12, <2>1, <2>3
    <3> QED
      BY <1>11, <2>3, <3>1, <3>2 DEF StoreShows, Known
  <2>4. CASE e.id = a /\ e.status # ToldStatus(a)
    <3>1. ToldStatus(a) = "resolved" /\ e.status = "firing"
      BY <1>2, <1>12, <2>4, FiringSoFar
    <3>2. store' = store
      BY <1>7, <2>1, <2>4, <3>1 DEF Stale, IsResolved
    <3> QED
      BY <1>11, <2>1, <3>2 DEF StoreShows, Known
  <2> QED
    BY <2>2, <2>3, <2>4
<1>13. ASSUME NEW a \in Alerts, told[a] > 0, Known(store, a), Shows(1, a) PROVE StoreShows(a)'
  <2>1. e.id = a /\ e.status = ToldStatus(a) /\ e.delivery \in Fin
    BY <1>13 DEF Shows, Relevant, e
  <2>2. Known(store', a) /\ store'.alerts[a].status = e.status
        /\ store'.alerts[a].delivery = e.delivery
    BY <1>7, <1>10, <1>13, <2>1
  <2> QED
    BY <1>11, <2>1, <2>2 DEF StoreShows, Known
<1> QED
  BY <1>6, <1>7, <1>9, <1>12, <1>13 DEF e

LEMMA ToldStays ==
  ASSUME UNCHANGED told
  PROVE  /\ \A a, status : ToldOf(a, status)' <=> ToldOf(a, status)
         /\ \A e, a : Relevant(e, a)' <=> Relevant(e, a)
         /\ \A a : Newest(a)' = Newest(a)
  BY DEF ToldOf, Relevant, ToldStatus, Newest

(* The head of the publisher's queue leaves it. *)
LEMMA TailShifts ==
  ASSUME BackInv, pub # <<>>, pub' = Tail(pub), UNCHANGED told
  PROVE  /\ pub' \in Seq(PubItems)
         /\ \A i \in DOMAIN pub' : i \in Nat /\ i + 1 \in DOMAIN pub /\ pub'[i] = pub[i + 1]
         /\ \A i \in DOMAIN pub : i \in Nat /\ (i = 1 \/ (i - 1 \in DOMAIN pub' /\ pub'[i - 1] = pub[i]))
         /\ \A a : Follows(0, a) \/ Follows(1, a) => Follows(0, a)'
         /\ \A a : \A i \in DOMAIN pub : i # 1 /\ Shows(i, a) /\ Follows(i, a) =>
              i - 1 \in 0 .. Len(pub') /\ Shows(i - 1, a)' /\ Follows(i - 1, a)'
<1>1. pub \in Seq(PubItems) /\ Len(pub) \in Nat \ {0}
  BY TypesOfPub
<1>2. /\ pub' \in Seq(PubItems) /\ Len(pub') = Len(pub) - 1
      /\ DOMAIN pub = 1 .. Len(pub) /\ DOMAIN pub' = 1 .. Len(pub')
      /\ \A i \in DOMAIN pub' : pub'[i] = pub[i + 1]
  BY <1>1
<1>3. \A i \in DOMAIN pub' : i \in Nat /\ i + 1 \in DOMAIN pub /\ i + 1 > 0 /\ i + 1 > 1
  BY <1>1, <1>2
<1>4. \A i \in DOMAIN pub : i \in Nat \ {0} /\ (i = 1 \/ (i - 1 \in DOMAIN pub' /\ pub'[i - 1] = pub[i]))
  BY <1>1, <1>2
<1>5. \A e, a : Relevant(e, a)' <=> Relevant(e, a)
  BY ToldStays
<1>6. ASSUME NEW a, Follows(0, a) \/ Follows(1, a) PROVE Follows(0, a)'
  BY <1>2, <1>3, <1>5, <1>6 DEF Follows, Relevant, ToldStatus
<1>7. ASSUME NEW a, NEW i \in DOMAIN pub, i # 1, Shows(i, a), Follows(i, a)
      PROVE  i - 1 \in 0 .. Len(pub') /\ Shows(i - 1, a)' /\ Follows(i - 1, a)'
  <2>1. /\ i \in Nat \ {0, 1} /\ i - 1 \in DOMAIN pub' /\ pub'[i - 1] = pub[i]
        /\ i - 1 \in 0 .. Len(pub')
    BY <1>1, <1>2, <1>4, <1>7
  <2>2. i - 1 # 0 /\ i # 0
    BY <2>1
  <2>3. Relevant(pub[i], a) /\ pub[i].delivery \in Fin
    BY <1>7, <2>2 DEF Shows
  <2>4. Shows(i - 1, a)'
    BY <2>1, <2>2, <2>3 DEF Shows, Relevant, ToldStatus
  <2>5. Follows(i - 1, a)'
    <3>1. ASSUME NEW j \in DOMAIN pub', j > i - 1, pub'[j].id = a, pub'[j].status = ToldStatus(a)'
          PROVE  pub'[j].delivery \in Fin
      <4>1. j + 1 \in DOMAIN pub /\ j + 1 > i /\ pub'[j] = pub[j + 1] /\ j \in Nat
        BY <1>2, <1>3, <2>1, <3>1
      <4> QED
        BY <1>7, <3>1, <4>1 DEF Follows, Relevant, ToldStatus
    <3> QED
      BY <3>1 DEF Follows, Relevant, ToldStatus
  <2> QED
    BY <2>1, <2>4, <2>5
<1> QED
  BY <1>2, <1>3, <1>4, <1>6, <1>7

LEMMA PublishBacks ==
  ASSUME RoomForAll(Alerts), OneOutage, BackInv, Publish
  PROVE  PubInv'
<1>1. /\ pub # <<>> /\ pub' = Tail(pub) /\ store' = Merge(store, Head(pub))
      /\ UNCHANGED <<told, settled, lost>>
  BY DEF Publish, callbackVars
<1>2. /\ InstanceOk(store', Alerts)
      /\ \A a \in DOMAIN store'.alerts : ToldOf(a, store'.alerts[a].status)
      /\ \A a : Known(store', a) <=> Known(store, a) \/ pub[1].id = a
      /\ \A a \in Alerts : told[a] > 0 /\ StoreShows(a) /\ Follows(0, a) => StoreShows(a)'
      /\ \A a \in Alerts : told[a] > 0 /\ Known(store, a) /\ Shows(1, a) => StoreShows(a)'
  BY <1>1, HeadMerges
<1>3. /\ pub' \in Seq(PubItems)
      /\ \A i \in DOMAIN pub' : i \in Nat /\ i + 1 \in DOMAIN pub /\ pub'[i] = pub[i + 1]
      /\ \A i \in DOMAIN pub : i \in Nat /\ (i = 1 \/ (i - 1 \in DOMAIN pub' /\ pub'[i - 1] = pub[i]))
      /\ \A a : Follows(0, a) \/ Follows(1, a) => Follows(0, a)'
      /\ \A a : \A i \in DOMAIN pub : i # 1 /\ Shows(i, a) /\ Follows(i, a) =>
           i - 1 \in 0 .. Len(pub') /\ Shows(i - 1, a)' /\ Follows(i - 1, a)'
  BY <1>1, TailShifts
<1>4. /\ \A a, status : ToldOf(a, status)' <=> ToldOf(a, status)
      /\ \A a : Newest(a)' = Newest(a)
  BY <1>1, ToldStays
<1>5. PubTypes'
  <2>1. \A i \in DOMAIN pub' : ToldOf(pub'[i].id, pub'[i].status)
    BY <1>3 DEF BackInv, PubInv, PubTypes
  <2>2. \A a \in Alerts : told'[a] <= Len(Life[a])
    BY <1>1 DEF BackInv, PubInv, PubTypes
  <2> QED
    BY <1>1, <1>2, <1>3, <2>1, <2>2 DEF PubTypes, ToldOf, InstanceOk, Once, In, ResolvedIds
<1>6. ASSUME NEW a \in Alerts \ lost PROVE Sent(a)' /\ Preceded(a)' /\ Caught(a)'
  <2>0. Sent(a) /\ Preceded(a) /\ Caught(a)
    BY DEF BackInv, PubInv
  <2>1. Sent(a)'
    BY <1>1, <1>2, <1>3, <2>0 DEF Sent
  <2>2. Preceded(a)'
    <3> SUFFICES ASSUME NEW i \in DOMAIN pub', pub'[i].id = a, pub'[i].delivery \in Fin, ~Known(store', a)
                 PROVE  \E j \in DOMAIN pub' : j < i /\ pub'[j].id = a
      BY DEF Preceded
    <3>1. i \in Nat /\ i + 1 \in DOMAIN pub /\ pub'[i] = pub[i + 1]
      BY <1>3
    <3>2. PICK j \in DOMAIN pub : j < i + 1 /\ pub[j].id = a
      BY <1>2, <2>0, <3>1 DEF Preceded
    <3>3. j # 1 /\ j \in Nat /\ j - 1 \in DOMAIN pub' /\ pub'[j - 1] = pub[j]
      BY <1>2, <1>3, <3>2
    <3>4. j - 1 < i
      BY <3>1, <3>2, <3>3
    <3> QED
      BY <3>2, <3>3, <3>4
  <2>3. Caught(a)'
    <3> SUFFICES ASSUME told[a] > 0, Newest(a) \in settled PROVE Arrives(a)'
      BY <1>1, <1>4 DEF Caught
    <3>1. PICK i \in 0 .. Len(pub) : Shows(i, a) /\ Follows(i, a)
      BY <2>0 DEF Caught, Arrives
    <3>2. 0 \in 0 .. Len(pub')
      BY <1>3
    <3>3. CASE i = 0
      <4>1. StoreShows(a)' /\ Follows(0, a)'
        BY <1>2, <1>3, <3>1, <3>3 DEF Shows
      <4> QED
        BY <3>2, <4>1 DEF Arrives, Shows
    <3>4. CASE i = 1
      <4>1. 1 \in DOMAIN pub /\ pub[1].id = a /\ pub[1].delivery \in Fin
        BY <3>1, <3>4 DEF Shows, Relevant
      <4>2. \A j \in DOMAIN pub : ~(j < 1)
        <5>1. pub \in Seq(PubItems)
          BY TypesOfPub
        <5> QED
          BY <5>1
      <4>3. Known(store, a)
        BY <2>0, <4>1, <4>2 DEF Preceded
      <4>4. StoreShows(a)' /\ Follows(0, a)'
        BY <1>2, <1>3, <3>1, <3>4, <4>3
      <4> QED
        BY <3>2, <4>4 DEF Arrives, Shows
    <3>5. CASE i # 0 /\ i # 1
      <4>1. i \in DOMAIN pub
        BY <3>1, <3>5 DEF Shows
      <4>2. i - 1 \in 0 .. Len(pub') /\ Shows(i - 1, a)' /\ Follows(i - 1, a)'
        BY <1>3, <3>1, <3>5, <4>1
      <4> QED
        BY <4>2 DEF Arrives
    <3> QED
      BY <3>3, <3>4, <3>5
  <2> QED
    BY <2>1, <2>2, <2>3
<1> QED
  BY <1>1, <1>5, <1>6 DEF PubInv

LEMMA PublishAgainBacks ==
  ASSUME RoomForAll(Alerts), OneOutage, BackInv, PublishAgain
  PROVE  PubInv'
<1>1. /\ pub # <<>> /\ store' = Merge(store, Head(pub))
      /\ UNCHANGED <<told, settled, lost, pub>>
  BY DEF PublishAgain, callbackVars
<1>2. /\ InstanceOk(store', Alerts)
      /\ \A a \in DOMAIN store'.alerts : ToldOf(a, store'.alerts[a].status)
      /\ \A a : Known(store', a) <=> Known(store, a) \/ pub[1].id = a
      /\ \A a \in Alerts : told[a] > 0 /\ StoreShows(a) /\ Follows(0, a) => StoreShows(a)'
  BY <1>1, HeadMerges
<1>3. /\ \A a, status : ToldOf(a, status)' <=> ToldOf(a, status)
      /\ \A a : Newest(a)' = Newest(a)
  BY <1>1, ToldStays
<1>4. PubTypes'
  <2>1. PubTypes
    BY DEF BackInv, PubInv
  <2>2. (InstanceOk(store, Alerts))'
    BY <1>2 DEF InstanceOk, Once, In, ResolvedIds
  <2>3. /\ pub' \in Seq(PubItems) /\ \A a \in Alerts : told'[a] <= Len(Life[a])
        /\ \A i \in DOMAIN pub' : ToldOf(pub'[i].id, pub'[i].status)
    BY <1>1, <2>1 DEF PubTypes
  <2> QED
    BY <1>1, <1>2, <2>2, <2>3 DEF PubTypes, ToldOf
<1>5. ASSUME NEW a \in Alerts \ lost PROVE Sent(a)' /\ Preceded(a)' /\ Caught(a)'
  <2>0. Sent(a) /\ Preceded(a) /\ Caught(a)
    BY DEF BackInv, PubInv
  <2>1. Sent(a)' /\ Preceded(a)'
    BY <1>1, <1>2, <2>0 DEF Sent, Preceded
  <2>2. Caught(a)'
    <3> SUFFICES ASSUME told[a] > 0, Newest(a) \in settled PROVE Arrives(a)'
      BY <1>1, <1>3 DEF Caught
    <3>1. PICK i \in 0 .. Len(pub) : Shows(i, a) /\ Follows(i, a)
      BY <2>0 DEF Caught, Arrives
    <3>2. Follows(i, a)' /\ i \in 0 .. Len(pub')
      BY <1>1, <3>1 DEF Follows, Relevant, ToldStatus
    <3>3. CASE i = 0
      <4>1. StoreShows(a)'
        BY <1>2, <3>1, <3>3 DEF Shows
      <4> QED
        BY <3>2, <3>3, <4>1 DEF Arrives, Shows
    <3>4. CASE i # 0
      <4>1. Shows(i, a)'
        BY <1>1, <3>1, <3>4 DEF Shows, Relevant, ToldStatus
      <4> QED
        BY <3>2, <4>1 DEF Arrives
    <3> QED
      BY <3>3, <3>4
  <2> QED
    BY <2>1, <2>2
<1> QED
  BY <1>1, <1>4, <1>5 DEF PubInv

LEMMA GiveUpBacks ==
  ASSUME BackInv, GiveUp
  PROVE  PubInv'
<1>1. /\ pub # <<>> /\ pub' = Tail(pub) /\ lost' = lost \cup {pub[1].id}
      /\ UNCHANGED <<told, settled, store>>
  BY DEF GiveUp, callbackVars
<1>2. /\ pub' \in Seq(PubItems)
      /\ \A i \in DOMAIN pub' : i \in Nat /\ i + 1 \in DOMAIN pub /\ pub'[i] = pub[i + 1]
      /\ \A i \in DOMAIN pub : i \in Nat /\ (i = 1 \/ (i - 1 \in DOMAIN pub' /\ pub'[i - 1] = pub[i]))
      /\ \A a : Follows(0, a) \/ Follows(1, a) => Follows(0, a)'
      /\ \A a : \A i \in DOMAIN pub : i # 1 /\ Shows(i, a) /\ Follows(i, a) =>
           i - 1 \in 0 .. Len(pub') /\ Shows(i - 1, a)' /\ Follows(i - 1, a)'
  BY <1>1, TailShifts
<1>3. \A a : Newest(a)' = Newest(a)
  BY <1>1, ToldStays
<1>4. PubTypes'
  <2>1. PubTypes
    BY DEF BackInv, PubInv
  <2>2. (InstanceOk(store, Alerts))'
    BY <1>1, <2>1 DEF PubTypes, InstanceOk, Once, In, ResolvedIds
  <2>3. ASSUME NEW i \in DOMAIN pub' PROVE ToldOf(pub'[i].id, pub'[i].status)
    BY <1>2, <2>1 DEF PubTypes
  <2>4. /\ \A a \in Alerts : told'[a] <= Len(Life[a])
        /\ \A a \in DOMAIN store'.alerts : ToldOf(a, store'.alerts[a].status)
    BY <1>1, <2>1 DEF PubTypes
  <2> QED
    BY <1>1, <1>2, <2>2, <2>3, <2>4 DEF PubTypes, ToldOf
<1>5. ASSUME NEW a \in Alerts \ lost' PROVE Sent(a)' /\ Preceded(a)' /\ Caught(a)'
  <2>0. Sent(a) /\ Preceded(a) /\ Caught(a) /\ pub[1].id # a
    BY <1>1 DEF BackInv, PubInv
  <2>1. Sent(a)'
    BY <1>1, <1>2, <2>0 DEF Sent
  <2>2. Preceded(a)'
    <3> SUFFICES ASSUME NEW i \in DOMAIN pub', pub'[i].id = a, pub'[i].delivery \in Fin, ~Known(store', a)
                 PROVE  \E j \in DOMAIN pub' : j < i /\ pub'[j].id = a
      BY DEF Preceded
    <3>1. i \in Nat /\ i + 1 \in DOMAIN pub /\ pub'[i] = pub[i + 1]
      BY <1>2
    <3>2. PICK j \in DOMAIN pub : j < i + 1 /\ pub[j].id = a
      BY <1>1, <2>0, <3>1 DEF Preceded
    <3>3. j \in Nat /\ j - 1 \in DOMAIN pub' /\ pub'[j - 1] = pub[j]
      BY <1>2, <2>0, <3>2
    <3>4. j - 1 < i
      BY <3>1, <3>2, <3>3
    <3> QED
      BY <3>2, <3>3, <3>4
  <2>3. Caught(a)'
    <3> SUFFICES ASSUME told[a] > 0, Newest(a) \in settled PROVE Arrives(a)'
      BY <1>1, <1>3 DEF Caught
    <3>1. PICK i \in 0 .. Len(pub) : Shows(i, a) /\ Follows(i, a)
      BY <2>0 DEF Caught, Arrives
    <3>2. 0 \in 0 .. Len(pub')
      BY <1>2
    <3>3. CASE i = 0
      <4>1. StoreShows(a)' /\ Follows(0, a)'
        BY <1>1, <1>2, <3>1, <3>3 DEF Shows, StoreShows, ToldStatus, Known
      <4> QED
        BY <3>2, <4>1 DEF Arrives, Shows
    <3>4. CASE i # 0
      <4>1. i \in DOMAIN pub /\ i # 1
        BY <2>0, <3>1, <3>4 DEF Shows, Relevant
      <4>2. i - 1 \in 0 .. Len(pub') /\ Shows(i - 1, a)' /\ Follows(i - 1, a)'
        BY <1>2, <3>1, <4>1
      <4> QED
        BY <4>2 DEF Arrives
    <3> QED
      BY <3>3, <3>4
  <2> QED
    BY <2>1, <2>2, <2>3
<1> QED
  BY <1>4, <1>5 DEF PubInv

(* The item that a notification gives to the publisher. *)
LEMMA EnrichedIs ==
  ASSUME TrackerInv, NEW x \in Notes, NEW status \in TrackStatuses, Track(x, status)
  PROVE  /\ Enriched(tracker', x) \in PubItems
         /\ Enriched(tracker', x).id = x.id
         /\ Enriched(tracker', x).status = Life[x.id][x.n].status
         /\ Enriched(tracker', x).delivery = ApiStatus(status)
<1>1. x.id \in Alerts
  BY NoteFields
<1>2. tracker \in [Alerts -> Seq(Records)] /\ Keyed(tracker[x.id])
  BY <1>1 DEF TrackerInv, TrackerTypes
<1>3. tracker' = Record(tracker, x, status)
  BY DEF Track
<1>4. Recorded(Record(tracker, x, status), tracker, x, status)
  BY <1>2, AfterRecord
<1>5. Tracked(tracker', x) /\ RecordOf(tracker', x).status = status
  BY <1>3, <1>4, NewRecordIs DEF Recorded
<1>6. ApiStatus(status) \in {"pending", "retrying", "delivered", "failed"}
  BY DEF ApiStatus, TrackStatuses
<1>7. Enriched(tracker', x) = Item(x, ApiStatus(status))
  BY <1>5 DEF Enriched, Item
<1>8. Enriched(tracker', x) \in PubItems
  BY <1>6, <1>7 DEF PubItems
<1> QED
  BY <1>7, <1>8 DEF Item

LEMMA ItemJoins ==
  ASSUME BackInv, NEW x \in Notes, NEW e \in PubItems, e.id = x.id,
         e.status = Life[x.id][x.n].status,
         pub' = Append(pub, e), UNCHANGED <<lost, store>>,
         told' \in [Alerts -> Nat],
         \A a \in Alerts : told[a] <= told'[a] /\ told'[a] <= Len(Life[a]),
         \A a \in Alerts \ {x.id} : told'[a] = told[a],
         x.n <= told'[x.id],
         e.delivery \in Fin => told[x.id] > 0,
         \A a \in Alerts : Newest(a)' \in settled' =>
           /\ told'[a] = told[a] /\ (Newest(a) \in settled \/ Newest(a) = x)
           /\ a = x.id => e.delivery \in Fin
  PROVE  PubInv'
<1>0. PICK k : k = Len(pub) + 1
  OBVIOUS
<1>1. told \in [Alerts -> Nat] /\ pub \in Seq(PubItems) /\ PubTypes
  BY TypesOfPub
<1>2. /\ pub' \in Seq(PubItems) /\ Len(pub) \in Nat /\ Len(pub') = k /\ pub'[k] = e
      /\ DOMAIN pub = 1 .. Len(pub) /\ k \in DOMAIN pub' /\ k \in 0 .. Len(pub')
      /\ \A i \in DOMAIN pub : i \in DOMAIN pub' /\ pub'[i] = pub[i] /\ i \in Nat \ {0} /\ i < k
      /\ \A i \in DOMAIN pub' : i = k \/ (i \in DOMAIN pub /\ i < k)
      /\ \A i \in 0 .. Len(pub) : i \in 0 .. Len(pub')
      /\ \A i \in DOMAIN pub' : ~(i > k)
      /\ k # 0
  BY <1>0, <1>1
<1>3. x.id \in Alerts /\ x.n \in 1 .. told'[x.id]
  <2>1. x.id \in Alerts /\ x.n \in 1 .. Len(Life[x.id]) /\ Len(Life[x.id]) \in Nat
    BY NoteFields, DeliveryAssumption
  <2>2. told'[x.id] \in Nat
    BY <2>1
  <2> QED
    BY <2>1, <2>2
<1>4. \A a \in Alerts : \A status : ToldOf(a, status) => ToldOf(a, status)'
  <2>1. \A a \in Alerts : 1 .. told[a] \subseteq 1 .. told'[a]
    BY <1>1
  <2> QED
    BY <2>1 DEF ToldOf
<1>5. PubTypes'
  <2>1. ASSUME NEW i \in DOMAIN pub'
        PROVE  \E n \in 1 .. told'[pub'[i].id] : pub'[i].status = Life[pub'[i].id][n].status
    <3>1. CASE i = k
      <4>1. \E n \in 1 .. told'[x.id] : e.status = Life[x.id][n].status
        BY <1>3
      <4> QED
        BY <1>2, <3>1, <4>1
    <3>2. CASE i \in DOMAIN pub
      <4>1. pub'[i] = pub[i] /\ pub[i] \in PubItems /\ ToldOf(pub[i].id, pub[i].status)
        BY <1>1, <1>2, <3>2 DEF PubTypes
      <4>2. pub[i].id \in Alerts
        BY <4>1, ItemIs
      <4>3. \E n \in 1 .. told'[pub[i].id] : pub[i].status = Life[pub[i].id][n].status
        BY <1>4, <4>1, <4>2 DEF ToldOf
      <4> QED
        BY <4>1, <4>3
    <3> QED
      BY <1>2, <3>1, <3>2
  <2>2. ASSUME NEW a \in DOMAIN store'.alerts
        PROVE  \E n \in 1 .. told'[a] : store'.alerts[a].status = Life[a][n].status
    <3>1. a \in Alerts /\ a \in DOMAIN store.alerts /\ ToldOf(a, store.alerts[a].status)
      BY <1>1 DEF PubTypes, InstanceOk
    <3>2. \E n \in 1 .. told'[a] : store.alerts[a].status = Life[a][n].status
      BY <1>4, <3>1 DEF ToldOf
    <3> QED
      BY <3>2
  <2>3. (InstanceOk(store, Alerts))'
    BY <1>1 DEF PubTypes, InstanceOk, Once, In, ResolvedIds
  <2> QED
    BY <1>2, <2>1, <2>2, <2>3 DEF PubTypes, ToldOf
<1>6. ASSUME NEW a \in Alerts \ lost PROVE Sent(a)' /\ Preceded(a)' /\ Caught(a)'
  <2>0. Sent(a) /\ Preceded(a) /\ Caught(a)
    BY DEF BackInv, PubInv
  <2>1. Sent(a)'
    <3>1. CASE a = x.id
      BY <1>2, <3>1 DEF Sent
    <3>2. CASE a # x.id
      BY <1>2, <2>0, <3>2 DEF Sent
    <3> QED
      BY <3>1, <3>2
  <2>2. Preceded(a)'
    <3> SUFFICES ASSUME NEW i \in DOMAIN pub', pub'[i].id = a, pub'[i].delivery \in Fin, ~Known(store, a)
                 PROVE  \E j \in DOMAIN pub' : j < i /\ pub'[j].id = a
      BY DEF Preceded
    <3>1. CASE i = k
      <4>1. told[a] > 0
        BY <1>2, <3>1
      <4>2. PICK j \in DOMAIN pub : pub[j].id = a
        BY <2>0, <4>1 DEF Sent
      <4> QED
        BY <1>2, <3>1, <4>2
    <3>2. CASE i \in DOMAIN pub
      <4>1. PICK j \in DOMAIN pub : j < i /\ pub[j].id = a
        BY <1>2, <2>0, <3>2 DEF Preceded
      <4> QED
        BY <1>2, <4>1
    <3> QED
      BY <1>2, <3>1, <3>2
  <2>3. Caught(a)'
    <3> SUFFICES ASSUME told'[a] > 0, Newest(a)' \in settled' PROVE Arrives(a)'
      BY DEF Caught
    <3>1. told'[a] = told[a] /\ (Newest(a) \in settled \/ Newest(a) = x)
          /\ (a = x.id => e.delivery \in Fin)
      OBVIOUS
    <3>2. ToldStatus(a)' = ToldStatus(a)
      BY <3>1 DEF ToldStatus
    <3>3. CASE Relevant(e, a)
      <4>1. e.delivery \in Fin
        BY <3>1, <3>3 DEF Relevant
      <4>2. k # 0
        BY <1>2
      <4>3. Shows(k, a)'
        BY <1>2, <3>2, <3>3, <4>1, <4>2 DEF Shows, Relevant
      <4>4. Follows(k, a)'
        BY <1>2 DEF Follows
      <4> QED
        BY <1>2, <4>3, <4>4 DEF Arrives
    <3>4. CASE ~Relevant(e, a)
      <4>1. Newest(a) # x
        <5>1. Newest(a) = x => a = x.id /\ e.status = ToldStatus(a)
          BY DEF Newest, ToldStatus
        <5> QED
          BY <3>4, <5>1 DEF Relevant
      <4>2. PICK i \in 0 .. Len(pub) : Shows(i, a) /\ Follows(i, a)
        BY <2>0, <3>1, <4>1 DEF Caught, Arrives
      <4>3. Shows(i, a)'
        <5>1. CASE i = 0
          BY <3>2, <4>2, <5>1 DEF Shows, StoreShows, Known
        <5>2. CASE i # 0
          BY <1>2, <3>2, <4>2, <5>2 DEF Shows, Relevant
        <5> QED
          BY <5>1, <5>2
      <4>4. Follows(i, a)'
        <5> SUFFICES ASSUME NEW j \in DOMAIN pub', j > i, pub'[j].id = a,
                            pub'[j].status = ToldStatus(a)
                     PROVE  pub'[j].delivery \in Fin
          BY <3>2 DEF Follows, Relevant
        <5>1. j # k
          BY <1>2, <3>4 DEF Relevant
        <5>2. j \in DOMAIN pub /\ pub'[j] = pub[j]
          BY <1>2, <5>1
        <5> QED
          BY <4>2, <5>2 DEF Follows, Relevant
      <4> QED
        BY <1>2, <4>2, <4>3, <4>4 DEF Arrives
    <3> QED
      BY <3>3, <3>4
  <2> QED
    BY <2>1, <2>2, <2>3
<1> QED
  BY <1>5, <1>6 DEF PubInv

LEMMA RouteBacks ==
  ASSUME BackInv, NEW a \in Alerts, Route(a)
  PROVE  PubInv'
<1>0. PICK x : x = Next1(a)
  OBVIOUS
<1>1. x \in Notes /\ x \notin Routed /\ x.id = a /\ x.n = told[a] + 1
  BY <1>0, RouteAdds DEF BackInv, TrackerInv, FateInv, Next1
<1>2. PICK e : e = Enriched(tracker', x)
  OBVIOUS
<1>3. /\ Track(x, "pending") /\ pub' = Append(pub, e) /\ UNCHANGED <<settled, lost, store>>
      /\ told' = [told EXCEPT ![a] = @ + 1] /\ told[a] < Len(Life[a])
  BY <1>0, <1>2 DEF Route, Next1
<1>4. e \in PubItems /\ e.id = x.id /\ e.status = Life[x.id][x.n].status /\ e.delivery = "pending"
  <2>1. "pending" \in TrackStatuses /\ ApiStatus("pending") = "pending"
    BY DEF TrackStatuses, ApiStatus
  <2> QED
    BY <1>1, <1>2, <1>3, <2>1, EnrichedIs DEF BackInv
<1>5. /\ told \in [Alerts -> Nat]
      /\ \A b \in Alerts : told[b] \in 0 .. Len(Life[b]) /\ Len(Life[b]) \in Nat
  BY TypesOfPub
<1>6. /\ told' \in [Alerts -> Nat] /\ told'[a] = told[a] + 1
      /\ \A b \in Alerts \ {a} : told'[b] = told[b]
  BY <1>3, <1>5
<1>7. \A b \in Alerts : told[b] <= told'[b] /\ told'[b] <= Len(Life[b])
  BY <1>3, <1>5, <1>6
<1>8. x.n <= told'[x.id]
  BY <1>1, <1>5, <1>6
<1>9. e.delivery \notin Fin
  BY <1>4 DEF Fin
<1>10. ASSUME NEW b \in Alerts, Newest(b)' \in settled'
       PROVE  told'[b] = told[b] /\ Newest(b) \in settled /\ b # x.id
  <2>1. x \notin settled
    BY <1>1, FateIs DEF BackInv, TrackerInv, FateInv
  <2>2. Newest(a)' = x
    BY <1>0, <1>6 DEF Newest, Next1
  <2>3. b # a
    BY <1>3, <1>10, <2>1, <2>2
  <2> QED
    BY <1>1, <1>3, <1>6, <1>10, <2>3 DEF Newest
<1> QED
  BY <1>1, <1>3, <1>4, <1>6, <1>7, <1>8, <1>9, <1>10, ItemJoins

(* An outcome is recorded and published. *)
LEMMA OutcomeBacks ==
  ASSUME BackInv, NEW x \in Routed, NEW status \in Fin, Track(x, status),
         settled' = settled \cup {x}, pub' = Append(pub, Enriched(tracker', x)),
         UNCHANGED <<told, lost, store>>
  PROVE  PubInv'
<1>1. x \in Notes /\ x.id \in Alerts /\ x.n <= told[x.id] /\ x.n \in 1 .. Len(Life[x.id])
      /\ Len(Life[x.id]) \in Nat
  BY NoteFields, DeliveryAssumption DEF Routed
<1>2. PICK e : e = Enriched(tracker', x)
  OBVIOUS
<1>3. e \in PubItems /\ e.id = x.id /\ e.status = Life[x.id][x.n].status /\ e.delivery \in Fin
  <2>1. status \in TrackStatuses /\ ApiStatus(status) = status
    BY DEF TrackStatuses, ApiStatus, Fin
  <2> QED
    BY <1>1, <1>2, <2>1, EnrichedIs DEF BackInv
<1>4. pub' = Append(pub, e)
  BY <1>2
<1>5. /\ told \in [Alerts -> Nat]
      /\ \A b \in Alerts : told[b] \in 0 .. Len(Life[b]) /\ Len(Life[b]) \in Nat
  BY TypesOfPub
<1>6. \A b \in Alerts : told[b] <= told'[b] /\ told'[b] <= Len(Life[b]) /\ told'[b] = told[b]
  BY <1>5
<1>7. told[x.id] > 0 /\ x.n <= told'[x.id] /\ told' \in [Alerts -> Nat]
  BY <1>1, <1>5
<1>8. \A b \in Alerts : Newest(b)' \in settled' => Newest(b) \in settled \/ Newest(b) = x
  BY DEF Newest
<1> QED
  BY <1>1, <1>3, <1>4, <1>6, <1>7, <1>8, ItemJoins

(* Nothing is published, and nothing is settled. *)
LEMMA BackStays ==
  ASSUME BackInv, UNCHANGED <<told, settled, publishVars>>
  PROVE  PubInv'
<1>1. UNCHANGED <<told, settled, pub, lost, store>>
  BY DEF publishVars
<1>2. PubTypes'
  BY <1>1 DEF BackInv, PubInv, PubTypes, ToldOf, InstanceOk, Once, In, ResolvedIds
<1>3. ASSUME NEW a \in Alerts \ lost PROVE Sent(a)' /\ Preceded(a)' /\ Caught(a)'
  <2>1. Sent(a) /\ Preceded(a) /\ Caught(a)
    BY DEF BackInv, PubInv
  <2>2. Sent(a)' /\ Preceded(a)'
    BY <1>1, <2>1 DEF Sent, Preceded, Known
  <2>3. Arrives(a)' = Arrives(a)
    BY <1>1 DEF Arrives, Shows, StoreShows, Follows, Relevant, ToldStatus, Known
  <2>4. Caught(a)'
    BY <1>1, <2>1, <2>3 DEF Caught, Newest
  <2> QED
    BY <2>2, <2>4
<1> QED
  BY <1>1, <1>2, <1>3 DEF PubInv

LEMMA BackStep ==
  RoomForAll(Alerts) /\ OneOutage /\ BackInv /\ [Next]_vars => BackInv'
<1> SUFFICES ASSUME RoomForAll(Alerts), OneOutage, BackInv, [Next]_vars PROVE BackInv'
  OBVIOUS
<1>0. TrackerInv'
  BY TrackerStep DEF BackInv
<1> SUFFICES PubInv'
  BY <1>0 DEF BackInv
<1>1. ASSUME NEW a \in Alerts, Route(a) PROVE PubInv'
  BY <1>1, RouteBacks
<1>2. ASSUME NEW w \in Workers, NEW status \in Fin, worker[w].phase = "sent", Settle(w, status)
      PROVE  PubInv'
  <2>1. Job(w) \in Routed
    BY <1>2, JobIs DEF BackInv, TrackerInv, Idle
  <2>2. /\ Track(Job(w), status) /\ settled' = settled \cup {Job(w)}
        /\ pub' = Append(pub, Enriched(tracker', Job(w))) /\ UNCHANGED <<told, lost, store>>
    BY <1>2 DEF Settle
  <2> QED
    BY <2>1, <2>2, OutcomeBacks
<1>3. ASSUME NEW w \in Workers, GetTooLarge(w) PROVE PubInv'
  <2>1. Head(queue) \in Routed
    <3>1. queue \in Seq(Notes) /\ queue # <<>>
      BY <1>3 DEF GetTooLarge, BackInv, TrackerInv, FateInv, CallbackTypes
    <3>2. Head(queue) \in Queued
      BY <3>1 DEF Queued
    <3> QED
      BY <3>2, FateIs DEF BackInv, TrackerInv, FateInv
  <2>2. /\ Track(Head(queue), "failed") /\ settled' = settled \cup {Head(queue)}
        /\ pub' = Append(pub, Enriched(tracker', Head(queue))) /\ UNCHANGED <<told, lost, store>>
    BY <1>3 DEF GetTooLarge
  <2>3. "failed" \in Fin
    BY DEF Fin
  <2> QED
    BY <2>1, <2>2, <2>3, OutcomeBacks
<1>4. ASSUME NEW w \in Workers, Work(w) PROVE PubInv'
  <2>0. "delivered" \in Fin /\ "failed" \in Fin
    BY DEF Fin
  <2>1. CASE Get(w)
    BY <2>1, BackStays DEF Get, Attempt
  <2>2. CASE GetTooLarge(w)
    BY <1>3, <2>2
  <2>3. CASE Delivered(w)
    BY <1>2, <2>0, <2>3 DEF Delivered
  <2>4. CASE PermanentFailure(w)
    BY <1>2, <2>0, <2>4 DEF PermanentFailure
  <2>5. CASE RetriesExhausted(w)
    BY <1>2, <2>0, <2>5 DEF RetriesExhausted
  <2>6. CASE RetryLater(w)
    BY <2>6, BackStays DEF RetryLater
  <2>7. CASE Retry(w)
    BY <2>7, BackStays DEF Retry, Attempt
  <2> QED
    BY <1>4, <2>1, <2>2, <2>3, <2>4, <2>5, <2>6, <2>7 DEF Work
<1>5. CASE Publish
  BY <1>5, PublishBacks
<1>6. CASE PublishAgain
  BY <1>6, PublishAgainBacks
<1>7. CASE GiveUp
  BY <1>7, GiveUpBacks
<1>8. CASE UNCHANGED vars
  BY <1>8, BackStays DEF vars, callbackVars
<1> QED
  BY <1>1, <1>4, <1>5, <1>6, <1>7, <1>8 DEF Next

LEMMA BackStart == Init => BackInv
<1> SUFFICES ASSUME Init PROVE BackInv
  OBVIOUS
<1>1. told = [a \in Alerts |-> 0] /\ pub = <<>> /\ store = NoAlerts /\ TrackerInv
  BY TrackerStart DEF Init
<1>2. pub \in Seq(PubItems) /\ DOMAIN pub = {}
  BY <1>1
<1>3. InstanceOk(store, Alerts) /\ DOMAIN store.alerts = {}
  <2>1. DOMAIN NoAlerts.alerts = {}
    BY DEF NoAlerts
  <2> QED
    BY <1>1, <2>1, NoAlertsOk
<1>4. PubTypes
  BY <1>1, <1>2, <1>3, DeliveryAssumption DEF PubTypes
<1>5. \A a \in Alerts : Sent(a) /\ Preceded(a) /\ Caught(a)
  BY <1>1, <1>2 DEF Sent, Preceded, Caught
<1> QED
  BY <1>1, <1>4, <1>5 DEF BackInv, PubInv

(* Once every callback has its outcome and all of it is published, the backend
   shows each alert in the status told last and with an outcome, although the
   outcomes are published as notifications again, out of order and some of
   them twice: if no item of the alert was given up.  An alert is resolved at
   most once and last, and the store has room for all the alerts there are. *)
THEOREM OutcomesReachBackend ==
  ASSUME RoomForAll(Alerts), OneOutage
  PROVE  Spec => []BackendCatchesUp
<1>1. Init => BackInv
  BY BackStart
<1>2. BackInv /\ [Next]_vars => BackInv'
  BY BackStep
<1>3. BackInv => BackendCatchesUp
  <2> SUFFICES ASSUME BackInv, Quiet, NEW a \in Alerts \ lost, told[a] > 0
               PROVE  /\ store.alerts[a].status = Life[a][told[a]].status
                      /\ store.alerts[a].delivery \in {"delivered", "failed"}
    BY DEF BackendCatchesUp
  <2>1. told[a] \in 1 .. Len(Life[a]) /\ pub = <<>>
    BY TypesOfPub DEF Quiet
  <2>2. Newest(a) \in Notes /\ Newest(a).n = told[a] /\ Newest(a).id = a
    BY <2>1, NoteFrom DEF Newest
  <2>3. Newest(a) \in Routed
    BY <2>1, <2>2 DEF Routed
  <2>4. Arrives(a)
    BY <2>3 DEF Quiet, BackInv, PubInv, Caught
  <2>5. 0 .. Len(pub) = {0}
    BY <2>1
  <2>6. StoreShows(a)
    BY <2>4, <2>5 DEF Arrives, Shows
  <2> QED
    BY <2>6 DEF StoreShows, ToldStatus, Fin
<1> QED
  BY <1>1, <1>2, <1>3, PTL DEF Spec
=============================================================================
