------------------------ MODULE HeartbeatAlertsProofs ------------------------
(***************************************************************************)
(* A theorem about HeartbeatAlerts and the store's merge, for all sets of  *)
(* agents and instances, every threshold and every limit of the store.     *)
(***************************************************************************)
EXTENDS HeartbeatAlerts, AlertStoreProofs

(* Every instance has its alerts. *)
StoreKept == store = [i \in Instances |-> store[i]]

-----------------------------------------------------------------------------
-----------------------------------------------------------------------------
(* The steps: one merge at most, at one instance. *)

ResolvedStays ==
  \A i \in Instances : \A a \in Agents : IsResolved(store[i], a) => ~IsActive(store'[i], a)

LEMMA StoreFrame ==
  ASSUME StoreKept, UNCHANGED store
  PROVE  StoreKept' /\ ResolvedStays
  BY DEF StoreKept, ResolvedStays, IsResolved, IsActive, Active, ActiveStatuses

LEMMA MergeStays ==
  ASSUME StoreKept, NEW x, NEW a, NEW status, MergeFor(x, a, status)
  PROVE  StoreKept' /\ ResolvedStays
<1>1. store' = [store EXCEPT ![place[x]] = Merge(@, Update(a, status))]
  BY DEF MergeFor
<1>2. StoreKept'
  BY <1>1 DEF StoreKept
<1>3. \A i \in Instances : store'[i] = store[i] \/ store'[i] = Merge(store[i], Update(a, status))
  BY <1>1 DEF StoreKept
<1>4. \A i \in Instances : \A b \in Agents :
        IsResolved(store[i], b) => ~IsActive(store[i], b)
  BY DEF IsResolved, IsActive, Active, ActiveStatuses
<1> QED
  BY <1>2, <1>3, <1>4, MergeKeepsResolved DEF ResolvedStays

LEMMA StepStays ==
  ASSUME StoreKept, [Next]_vars
  PROVE  StoreKept' /\ ResolvedStays
<1>1. CASE SweepMerge
  BY <1>1, MergeStays DEF SweepMerge
<1>2. ASSUME NEW c \in Callers, Call(c) PROVE StoreKept' /\ ResolvedStays
  <2>1. CASE CallMerge(c)
    BY <2>1, MergeStays DEF CallMerge
  <2>2. CASE CallCheck(c) \/ CallLookup(c) \/ CallDiscard(c)
    BY <2>2, StoreFrame DEF CallCheck, CallLookup, CallDiscard
  <2> QED
    BY <1>2, <2>1, <2>2 DEF Call
<1>3. CASE SweepBegin \/ SweepAdd \/ SweepTurn \/ SweepDiscard \/ SweepEnd
  BY <1>3, StoreFrame DEF SweepBegin, SweepAdd, SweepTurn, SweepDiscard, SweepEnd
<1>4. CASE \E a \in Agents : SweepLookup(a)
  BY <1>4, StoreFrame DEF SweepLookup
<1>5. CASE \/ \E a \in Agents, i \in Instances : Receive(a, i)
           \/ Consume \/ Tick
  BY <1>5, StoreFrame DEF Receive, Consume, Tick
<1>6. CASE UNCHANGED vars
  BY <1>6, StoreFrame DEF vars
<1> QED
  BY <1>1, <1>2, <1>3, <1>4, <1>5, <1>6 DEF Next, Sweep

(* FR-QRY-019: what AlertStore.merge has resolved it does not bring back,
   whichever of the sweep, the request handlers and the consumer comes late. *)
THEOREM ResolvedIsFinal == Spec => NoReopen
<1>1. Init => StoreKept
  BY DEF Init, StoreKept
<1>2. StoreKept /\ [Next]_vars => StoreKept'
  BY StepStays
<1>3. StoreKept /\ [Next]_vars =>
        [\A i \in Instances : \A a \in Agents :
           IsResolved(store[i], a) => ~IsActive(store'[i], a)]_vars
  BY StepStays DEF ResolvedStays
<1> QED
  BY <1>1, <1>2, <1>3, PTL DEF Spec, NoReopen

-----------------------------------------------------------------------------
(* The store's own bookkeeping.  An actor merges for an agent it has been
   given: that is what the types of the three actors say. *)

Busy == {"fire", "add", "resolve", "discard"}

ActorTypes ==
  /\ queue \in Seq(Agents) /\ stale \subseteq Agents /\ todo \subseteq Agents
  /\ firing \subseteq Agents
  /\ arg = [c \in Callers |-> arg[c]]
  /\ pc \in [Callers -> {"idle", "check", "lookup", "merge", "discard"}]
  /\ \A c \in Callers : pc[c] # "idle" => arg[c] \in Agents
  /\ sweep \in {"sleep", "stale", "recovered"} \cup Busy
  /\ sweep \in Busy => cur \in Agents

AllOk == \A i \in Instances : InstanceOk(store[i], Agents)
StoreInv == ActorTypes /\ StoreKept /\ AllOk

LEMMA UpdateOk ==
  ASSUME NEW a, NEW status \in {"firing", "resolved"}
  PROVE  Update(a, status).id = a /\ Update(a, status).status = status /\ status \in Statuses
  BY DEF Update, Statuses, ActiveStatuses

LEMMA MergeForOk ==
  ASSUME StoreKept, AllOk, NEW x, NEW a \in Agents, NEW status \in {"firing", "resolved"},
         MergeFor(x, a, status)
  PROVE  StoreKept' /\ AllOk'
<1>1. StoreKept'
  BY MergeStays
<1>2. \A i \in Instances : store'[i] = store[i] \/ store'[i] = Merge(store[i], Update(a, status))
  BY DEF MergeFor, StoreKept
<1>3. \A i \in Instances : InstanceOk(Merge(store[i], Update(a, status)), Agents)
  BY UpdateOk, MergeOk DEF AllOk
<1>4. AllOk'
  BY <1>2, <1>3 DEF AllOk
<1> QED
  BY <1>1, <1>4

LEMMA StoreInvStep ==
  ASSUME StoreInv, [Next]_vars
  PROVE  StoreInv'
<1> USE DEF StoreInv
<1>0. ASSUME UNCHANGED store PROVE (StoreKept /\ AllOk)'
  BY <1>0 DEF StoreKept, AllOk
<1>1. CASE SweepMerge
  <2>1. sweep' \in {"add", "discard"} /\ cur' = cur /\ cur \in Agents
    BY <1>1 DEF SweepMerge, SweepAt, ActorTypes, Busy
  <2>2. ActorTypes'
    BY <1>1, <2>1 DEF SweepMerge, registryVars, callVars, ActorTypes, Busy
  <2> QED
    BY <1>1, <2>1, <2>2, MergeForOk DEF SweepMerge
<1>2. ASSUME NEW c \in Callers, CallMerge(c) PROVE StoreInv'
  <2>1. arg[c] \in Agents
    BY <1>2 DEF CallMerge, CallAt, ActorTypes
  <2>2. ActorTypes'
    BY <1>2 DEF CallMerge, CallAt, registryVars, sweepVars, ActorTypes, Busy
  <2> QED
    BY <1>2, <2>1, <2>2, MergeForOk DEF CallMerge
<1>3. ASSUME NEW c \in Callers, CallCheck(c) \/ CallLookup(c) \/ CallDiscard(c) PROVE StoreInv'
  <2>1. ActorTypes'
    BY <1>3 DEF CallCheck, CallLookup, CallDiscard, CallAt, registryVars, sweepVars,
                ActorTypes, Busy
  <2> QED
    BY <1>0, <1>3, <2>1 DEF CallCheck, CallLookup, CallDiscard
<1>4. CASE SweepBegin \/ SweepAdd \/ SweepTurn \/ SweepDiscard \/ SweepEnd
  <2>1. ActorTypes'
    BY <1>4 DEF SweepBegin, SweepAdd, SweepTurn, SweepDiscard, SweepEnd, SweepAt,
                StaleAgents, Recovered, registryVars, callVars, ActorTypes, Busy
  <2> QED
    BY <1>0, <1>4, <2>1 DEF SweepBegin, SweepAdd, SweepTurn, SweepDiscard, SweepEnd
<1>5. ASSUME NEW a \in Agents, SweepLookup(a) PROVE StoreInv'
  <2>1. ActorTypes'
    BY <1>5 DEF SweepLookup, SweepAt, registryVars, callVars, ActorTypes, Busy
  <2> QED
    BY <1>0, <1>5, <2>1 DEF SweepLookup
<1>6. ASSUME NEW a \in Agents, NEW i \in Instances, Receive(a, i) PROVE StoreInv'
  <2>1. ActorTypes'
    <3>1. "handler" \in Callers
      BY DEF Callers
    <3>2. queue' \in Seq(Agents)
      BY <1>6 DEF Receive, ActorTypes
    <3>3. arg' = [c \in Callers |-> arg'[c]] /\ arg' = [arg EXCEPT !["handler"] = a]
      BY <1>6, <3>1 DEF Receive, ActorTypes
    <3>4. \A c \in Callers : pc'[c] # "idle" => arg'[c] \in Agents
      BY <1>6, <3>1, <3>3 DEF Receive, ActorTypes
    <3> QED
      BY <1>6, <3>2, <3>3, <3>4 DEF Receive, sweepVars, ActorTypes, Busy
  <2> QED
    BY <1>0, <1>6, <2>1 DEF Receive
<1>7. CASE Consume
  <2>1. queue[1] \in Agents /\ queue' \in Seq(Agents)
    BY <1>7 DEF Consume, ActorTypes
  <2>2. ActorTypes'
    BY <1>7, <2>1 DEF Consume, sweepVars, ActorTypes, Busy, Callers
  <2> QED
    BY <1>0, <1>7, <2>2 DEF Consume
<1>8. CASE Tick
  <2>1. ActorTypes'
    BY <1>8 DEF Tick, sweepVars, callVars, ActorTypes, Busy
  <2> QED
    BY <1>0, <1>8, <2>1 DEF Tick
<1>9. CASE UNCHANGED vars
  <2>1. ActorTypes'
    BY <1>9 DEF vars, registryVars, sweepVars, callVars, ActorTypes, Busy
  <2> QED
    BY <1>0, <1>9, <2>1 DEF vars
<1> QED
  BY <1>1, <1>2, <1>3, <1>4, <1>5, <1>6, <1>7, <1>8, <1>9 DEF Next, Sweep, Call

LEMMA StoreInvInit ==
  ASSUME Init
  PROVE  StoreInv
<1>1. StoreKept /\ AllOk
  BY NoAlertsOk DEF Init, StoreKept, AllOk
<1>2. ActorTypes
  BY DEF Init, ActorTypes, Busy
<1> QED
  BY <1>1, <1>2 DEF StoreInv

(* FR-QRY-016: the resolved ids kept in order and the resolved records are the
   same, one entry each and no more than the limit, whoever merges. *)
THEOREM StoreAgrees == Spec => []StoreConsistent
<1>1. StoreInv /\ [Next]_vars => StoreInv'
  BY StoreInvStep
<1>2. StoreInv => StoreConsistent
  BY DEF StoreInv, AllOk, InstanceOk, In, Once, ResolvedIds, StoreConsistent
<1> QED
  BY <1>1, <1>2, StoreInvInit, PTL DEF Spec

-----------------------------------------------------------------------------
(* What is shown is remembered as firing.  It holds of agents that report from
   one instance each, with a store that has room for all of them; without the
   first an alert is resolved at an instance that does not show it, without the
   second an evicted alert comes back between a resolution and the discard. *)

Heard(a) == age[a] # Unknown
ReportsFrom(Own) == \A a \in Agents : Heard(a) => home[a] = Own[a]

(* An actor works on an agent that was heard, at the instance that agent reports
   from, and discards only what it has resolved there. *)
ActorsAt(Own) ==
  /\ age \in [Agents -> 0 .. Unknown] /\ place = [x \in Actors |-> place[x]]
  /\ \A a \in stale \cup todo \cup firing : Heard(a)
  /\ \A n \in DOMAIN queue : Heard(queue[n])
  /\ sweep \in Busy => Heard(cur)
  /\ \A c \in Callers : pc[c] # "idle" => Heard(arg[c])
  /\ sweep \in {"fire", "resolve"} => place["sweep"] = Own[cur]
  /\ \A c \in Callers : pc[c] = "merge" => place[c] = Own[arg[c]]

StoredAt(Own) == \A i \in Instances : \A a \in DOMAIN store[i].alerts : i = Own[a]

ResolvedAt(Own, a) == Own[a] \in Instances => IsResolved(store[Own[a]], a)
DiscardsResolved(Own) ==
  /\ sweep = "discard" => ResolvedAt(Own, cur)
  /\ \A c \in Callers : pc[c] = "discard" => ResolvedAt(Own, arg[c])

ShownInv(Own) ==
  StoreInv /\ ActorsAt(Own) /\ StoredAt(Own) /\ DiscardsResolved(Own) /\ ShownIsFiring

LEMMA ResolvedIsNotShown ==
  ASSUME NEW Own, StoredAt(Own), NEW a, ResolvedAt(Own, a)
  PROVE  ~Shown(a)
<1> SUFFICES ASSUME NEW i \in Instances, IsActive(store[i], a) PROVE FALSE
  BY DEF Shown
<1>1. a \in DOMAIN store[i].alerts
  BY DEF IsActive, Known
<1>2. i = Own[a]
  BY <1>1 DEF StoredAt
<1>3. IsResolved(store[i], a)
  BY <1>2 DEF ResolvedAt
<1> QED
  BY <1>3 DEF IsResolved, IsActive, Active, ActiveStatuses

(* A merge at the agent's own instance. *)
LEMMA MergeForShows ==
  ASSUME NEW Own, RoomForAll(Agents), StoreInv, StoredAt(Own),
         NEW x, NEW a \in Agents, NEW status \in {"firing", "resolved"},
         place[x] = Own[a], MergeFor(x, a, status)
  PROVE  /\ StoredAt(Own)'
         /\ \A b \in Agents : ResolvedAt(Own, b) => ResolvedAt(Own, b)'
         /\ \A b \in Agents : b # a => (Shown(b)' <=> Shown(b))
         /\ status = "resolved" => ResolvedAt(Own, a)'
<1> DEFINE e == Update(a, status)
<1>1. e.id = a /\ e.status = status /\ e.status \in Statuses
  BY UpdateOk
<1>2. store' = [store EXCEPT ![Own[a]] = Merge(@, e)]
  BY DEF MergeFor
<1> HIDE DEF e
<1>3. \A i \in Instances : store'[i] = IF i = Own[a] THEN Merge(store[i], e) ELSE store[i]
  BY <1>2 DEF StoreInv, StoreKept
<1>4. ASSUME NEW i \in Instances
      PROVE  /\ DOMAIN Merge(store[i], e).alerts \subseteq DOMAIN store[i].alerts \cup {a}
             /\ \A b : IsResolved(store[i], b) => IsResolved(Merge(store[i], e), b)
             /\ \A b : b # a => (IsActive(Merge(store[i], e), b) <=> IsActive(store[i], b))
             /\ status = "resolved" => IsResolved(Merge(store[i], e), a)
  <2>1. InstanceOk(store[i], Agents)
    BY DEF StoreInv, AllOk
  <2> QED
    BY <1>1, <2>1, MergeKeepsAll
<1>5. StoredAt(Own)'
  BY <1>3, <1>4 DEF StoredAt
<1>6. \A b \in Agents : ResolvedAt(Own, b) => ResolvedAt(Own, b)'
  BY <1>3, <1>4 DEF ResolvedAt
<1>7. \A i \in Instances : \A b \in Agents :
        b # a => (IsActive(store'[i], b) <=> IsActive(store[i], b))
  BY <1>3, <1>4
<1>8. \A b \in Agents : b # a => (Shown(b)' <=> Shown(b))
  BY <1>7 DEF Shown
<1>9. status = "resolved" => ResolvedAt(Own, a)'
  BY <1>3, <1>4 DEF ResolvedAt
<1> QED
  BY <1>5, <1>6, <1>8, <1>9

(* The steps that leave the store alone, and firing or its change. *)
LEMMA StoreUnchanged ==
  ASSUME NEW Own, UNCHANGED store
  PROVE  /\ StoredAt(Own) => StoredAt(Own)'
         /\ \A a : ResolvedAt(Own, a)' <=> ResolvedAt(Own, a)
         /\ \A a : Shown(a)' <=> Shown(a)
  BY DEF StoredAt, ResolvedAt, Shown

LEMMA Ages == Missing \in Nat /\ Unknown \in Nat /\ Missing < Unknown /\ 0 < Unknown
  BY HeartbeatAssumption DEF Missing, Unknown

LEMMA ActorsStep ==
  ASSUME NEW Own, StoreInv, ActorsAt(Own), ReportsFrom(Own), ReportsFrom(Own)', [Next]_vars
  PROVE  ActorsAt(Own)'
<1> USE DEF ActorsAt
<1>0. "sweep" \in Actors /\ Callers \subseteq Actors /\ "sweep" \notin Callers
  BY DEF Actors, Callers
<1>1. CASE SweepMerge
  BY <1>1 DEF SweepMerge, SweepAt, registryVars, callVars, Busy, Heard
<1>2. ASSUME NEW c \in Callers, CallMerge(c) PROVE ActorsAt(Own)'
  BY <1>2 DEF CallMerge, CallAt, registryVars, sweepVars, Busy, Heard, StoreInv, ActorTypes
<1>3. ASSUME NEW c \in Callers, CallCheck(c) PROVE ActorsAt(Own)'
  BY <1>3 DEF CallCheck, CallAt, registryVars, sweepVars, Busy, Heard, StoreInv, ActorTypes
<1>12. ASSUME NEW c \in Callers, CallDiscard(c) PROVE ActorsAt(Own)'
  BY <1>12 DEF CallDiscard, CallAt, registryVars, sweepVars, Busy, Heard, StoreInv, ActorTypes
<1>4. ASSUME NEW c \in Callers, CallLookup(c) PROVE ActorsAt(Own)'
  <2>1. arg[c] \in Agents /\ Heard(arg[c])
    BY <1>4 DEF CallLookup, CallAt, StoreInv, ActorTypes
  <2>2. place' = [place EXCEPT ![c] = Own[arg[c]]]
    BY <1>4, <2>1 DEF CallLookup, Lookup, ReportsFrom
  <2> QED
    BY <1>0, <1>4, <2>2 DEF CallLookup, CallAt, registryVars, sweepVars, Busy, Heard,
                            StoreInv, ActorTypes
<1>5. CASE SweepBegin
  <2>1. \A a \in StaleAgents : Heard(a)
    BY Ages DEF StaleAgents, IsStale, Heard
  <2> QED
    BY <1>5, <2>1 DEF SweepBegin, SweepAt, registryVars, callVars, Busy, Heard
<1>6. CASE SweepAdd \/ SweepTurn \/ SweepDiscard \/ SweepEnd
  BY <1>6 DEF SweepAdd, SweepTurn, SweepDiscard, SweepEnd, SweepAt, Recovered, registryVars,
              callVars, Busy, Heard
<1>7. ASSUME NEW a \in Agents, SweepLookup(a) PROVE ActorsAt(Own)'
  <2>1. Heard(a)
    BY <1>7 DEF SweepLookup
  <2>2. place' = [place EXCEPT !["sweep"] = Own[a]]
    BY <1>7, <2>1 DEF SweepLookup, Lookup, ReportsFrom
  <2> QED
    BY <1>0, <1>7, <2>1, <2>2 DEF SweepLookup, SweepAt, registryVars, callVars, Busy, Heard
<1>8. ASSUME NEW a \in Agents, NEW i \in Instances, Receive(a, i) PROVE ActorsAt(Own)'
  <2>1. age' = [age EXCEPT ![a] = 0] /\ age' \in [Agents -> 0 .. Unknown]
    BY <1>8, Ages DEF Receive
  <2>2. \A b \in Agents : Heard(b) \/ b = a => Heard(b)'
    BY <2>1, Ages DEF Heard
  <2>3. \A n \in DOMAIN queue' : queue'[n] \in Agents /\ age'[queue'[n]] # Unknown
    <3>1. queue' = Append(queue, a) /\ queue \in Seq(Agents)
      BY <1>8 DEF Receive, StoreInv, ActorTypes
    <3>2. \A n \in DOMAIN queue' : queue'[n] = a \/ (n \in DOMAIN queue /\ queue'[n] = queue[n])
      BY <3>1
    <3>3. \A n \in DOMAIN queue : queue[n] \in Agents /\ Heard(queue[n])
      BY <3>1
    <3> QED
      BY <2>2, <3>2, <3>3 DEF Heard
  <2>4. \A c \in Callers : pc'[c] # "idle" => age'[arg'[c]] # Unknown
    <3>1. \A c \in Callers : \/ c = "handler" /\ arg'[c] = a
                             \/ pc'[c] = pc[c] /\ arg'[c] = arg[c]
      BY <1>8 DEF Receive, StoreInv, ActorTypes
    <3>2. \A c \in Callers : pc[c] # "idle" => arg[c] \in Agents /\ Heard(arg[c])
      BY DEF StoreInv, ActorTypes
    <3> QED
      BY <2>2, <3>1, <3>2 DEF Heard
  <2>5. \A c \in Callers : pc'[c] = "merge" => pc[c] = "merge" /\ arg'[c] = arg[c]
    BY <1>8 DEF Receive, StoreInv, ActorTypes
  <2>6. stale \cup todo \cup firing \subseteq Agents /\ (sweep \in Busy => cur \in Agents)
    BY DEF StoreInv, ActorTypes
  <2>7. UNCHANGED <<firing, stale, todo, sweep, cur, place>>
    BY <1>8 DEF Receive, sweepVars
  <2>8. /\ \A b \in stale' \cup todo' \cup firing' : Heard(b)'
        /\ sweep' \in Busy => Heard(cur)'
    BY <2>2, <2>6, <2>7
  <2>9. \A c \in Callers : pc'[c] = "merge" => place'[c] = Own[arg'[c]]
    BY <2>5, <2>7
  <2> QED
    BY <2>1, <2>3, <2>4, <2>7, <2>8, <2>9 DEF Heard
<1>9. CASE Consume
  <2>1. queue \in Seq(Agents) /\ queue # <<>> /\ queue' = Tail(queue)
    BY <1>9 DEF Consume, StoreInv, ActorTypes
  <2>2. Heard(queue[1]) /\ \A n \in DOMAIN queue' : Heard(queue'[n])
    BY <2>1
  <2>3. \A c \in Callers : \/ c = "consumer" /\ arg'[c] = queue[1] /\ pc'[c] = "check"
                           \/ pc'[c] = pc[c] /\ arg'[c] = arg[c]
    BY <1>9 DEF Consume, StoreInv, ActorTypes
  <2>4. \A b : Heard(b)' <=> Heard(b)
    BY <1>9 DEF Consume, Heard
  <2> QED
    BY <1>9, <2>2, <2>3, <2>4 DEF Consume, sweepVars, Busy
<1>10. CASE Tick
  <2>1. PICK a \in Agents : age[a] < Missing /\ age' = [age EXCEPT ![a] = @ + 1]
    BY <1>10 DEF Tick
  <2>2. age' \in [Agents -> 0 .. Unknown] /\ \A b \in Agents : Heard(b) => Heard(b)'
    BY <2>1, Ages DEF Heard
  <2>3. \A c \in Callers : pc[c] # "idle" => arg[c] \in Agents
    BY DEF StoreInv, ActorTypes
  <2>4. \A n \in DOMAIN queue : queue[n] \in Agents
    BY DEF StoreInv, ActorTypes
  <2>5. stale \cup todo \cup firing \subseteq Agents /\ (sweep \in Busy => cur \in Agents)
    BY DEF StoreInv, ActorTypes
  <2> QED
    BY <1>10, <2>2, <2>3, <2>4, <2>5 DEF Tick, sweepVars, callVars, Busy
<1>11. CASE UNCHANGED vars
  BY <1>11 DEF vars, registryVars, sweepVars, callVars, Heard
<1> QED
  BY <1>1, <1>2, <1>3, <1>4, <1>5, <1>6, <1>7, <1>8, <1>9, <1>10, <1>11, <1>12
     DEF Next, Sweep, Call

(* Steps that leave the store alone keep what is stored and shown where it is. *)
LEMMA ShownFrame ==
  ASSUME NEW Own, StoredAt(Own), UNCHANGED store,
         DiscardsResolved(Own), ShownIsFiring,
         sweep' = "discard" => sweep = "discard" /\ cur' = cur,
         \A c \in Callers : pc'[c] = "discard" => pc[c] = "discard" /\ arg'[c] = arg[c],
         firing \subseteq firing',
         sweep = "add" => (sweep' = "add" /\ cur' = cur) \/ firing' = firing \cup {cur}
  PROVE  StoredAt(Own)' /\ DiscardsResolved(Own)' /\ ShownIsFiring'
<1>1. StoredAt(Own)'
  BY DEF StoredAt
<1>2. DiscardsResolved(Own)'
  BY DEF DiscardsResolved, ResolvedAt
<1>3. \A a \in Agents : Shown(a)' <=> Shown(a)
  BY DEF Shown
<1> QED
  BY <1>1, <1>2, <1>3 DEF ShownIsFiring

LEMMA ShownStep ==
  ASSUME NEW Own, RoomForAll(Agents), ShownInv(Own),
         ReportsFrom(Own), ReportsFrom(Own)', [Next]_vars
  PROVE  ShownInv(Own)'
<1>1. StoreInv' /\ ActorsAt(Own)'
  BY StoreInvStep, ActorsStep DEF ShownInv
<1>2. StoreInv /\ ActorTypes /\ StoredAt(Own) /\ ActorsAt(Own) /\ DiscardsResolved(Own)
      /\ ShownIsFiring
  BY DEF ShownInv, StoreInv
<1> SUFFICES StoredAt(Own)' /\ DiscardsResolved(Own)' /\ ShownIsFiring'
  BY <1>1 DEF ShownInv
<1> HIDE DEF ShownInv
<1> DEFINE Goal == StoredAt(Own)' /\ DiscardsResolved(Own)' /\ ShownIsFiring'
<1>3. CASE SweepMerge
  <2>1. /\ cur \in Agents /\ place["sweep"] = Own[cur] /\ sweep # "add" /\ sweep # "discard"
        /\ UNCHANGED <<cur, firing, pc, arg>>
    BY <1>2, <1>3 DEF SweepMerge, SweepAt, ActorsAt, ActorTypes, Busy, callVars
  <2>2. PICK status \in {"firing", "resolved"} :
          /\ MergeFor("sweep", cur, status)
          /\ sweep' = IF status = "firing" THEN "add" ELSE "discard"
    BY <1>3 DEF SweepMerge, SweepAt
  <2>3. /\ StoredAt(Own)'
        /\ \A b \in Agents : ResolvedAt(Own, b) => ResolvedAt(Own, b)'
        /\ \A b \in Agents : b # cur => (Shown(b)' <=> Shown(b))
        /\ status = "resolved" => ResolvedAt(Own, cur)'
    BY <1>2, <2>1, <2>2, MergeForShows
  <2>4. \A c \in Callers : pc[c] = "discard" => arg[c] \in Agents
    BY <1>2 DEF ActorTypes
  <2>5. DiscardsResolved(Own)'
    BY <1>2, <2>1, <2>2, <2>3, <2>4 DEF DiscardsResolved, ResolvedAt
  <2>6. status = "resolved" => ~Shown(cur)'
    BY <2>1, <2>3, ResolvedIsNotShown DEF StoredAt, ResolvedAt, Shown, IsResolved, IsActive,
       Active, ActiveStatuses, Known
  <2>7. ShownIsFiring'
    BY <1>2, <2>1, <2>2, <2>3, <2>6 DEF ShownIsFiring
  <2> QED
    BY <2>3, <2>5, <2>7
<1>4. ASSUME NEW c \in Callers, CallMerge(c) PROVE Goal
  <2>1. /\ arg[c] \in Agents /\ place[c] = Own[arg[c]]
        /\ UNCHANGED <<cur, sweep, firing, arg>> /\ pc' = [pc EXCEPT ![c] = "discard"]
    BY <1>2, <1>4 DEF CallMerge, CallAt, ActorsAt, ActorTypes, sweepVars
  <2>2. MergeFor(c, arg[c], "resolved")
    BY <1>4 DEF CallMerge
  <2>3. /\ StoredAt(Own)'
        /\ \A b \in Agents : ResolvedAt(Own, b) => ResolvedAt(Own, b)'
        /\ \A b \in Agents : b # arg[c] => (Shown(b)' <=> Shown(b))
        /\ ResolvedAt(Own, arg[c])'
    BY <1>2, <2>1, <2>2, MergeForShows
  <2>4. /\ \A d \in Callers : pc[d] = "discard" => arg[d] \in Agents
        /\ sweep = "discard" => cur \in Agents
        /\ \A d \in Callers : pc'[d] = "discard" => d = c \/ pc[d] = "discard"
    BY <1>2, <2>1 DEF ActorTypes, Busy
  <2>5. DiscardsResolved(Own)'
    BY <1>2, <2>1, <2>3, <2>4 DEF DiscardsResolved, ResolvedAt
  <2>6. ~Shown(arg[c])'
    BY <2>1, <2>3 DEF StoredAt, ResolvedAt, Shown, IsResolved, IsActive,
       Active, ActiveStatuses, Known
  <2>7. ShownIsFiring'
    BY <1>2, <2>1, <2>3, <2>6 DEF ShownIsFiring
  <2> QED
    BY <2>3, <2>5, <2>7
<1>5. ASSUME NEW c \in Callers, CallDiscard(c) PROVE Goal
  <2>1. /\ UNCHANGED <<cur, sweep, store, arg>> /\ firing' = firing \ {arg[c]}
        /\ pc' = [pc EXCEPT ![c] = "idle"] /\ pc[c] = "discard"
    BY <1>5 DEF CallDiscard, CallAt, sweepVars
  <2>2. ~Shown(arg[c])
    BY <1>2, <2>1, ResolvedIsNotShown DEF DiscardsResolved
  <2>3. \A d \in Callers : pc'[d] = "discard" => pc[d] = "discard"
    BY <1>2, <2>1 DEF ActorTypes
  <2>4. \A a \in Agents : Shown(a)' <=> Shown(a)
    BY <2>1 DEF Shown
  <2>5. ShownIsFiring'
    BY <1>2, <2>1, <2>2, <2>4 DEF ShownIsFiring
  <2> QED
    BY <1>2, <2>1, <2>3, <2>5 DEF StoredAt, DiscardsResolved, ResolvedAt
<1>6. CASE SweepDiscard
  <2>1. /\ UNCHANGED <<cur, store, arg, pc>> /\ firing' = firing \ {cur}
        /\ sweep = "discard" /\ sweep' = "recovered"
    BY <1>6 DEF SweepDiscard, SweepAt, callVars
  <2>2. ~Shown(cur)
    BY <1>2, <2>1, ResolvedIsNotShown DEF DiscardsResolved
  <2>3. \A a \in Agents : Shown(a)' <=> Shown(a)
    BY <2>1 DEF Shown
  <2>4. ShownIsFiring'
    BY <1>2, <2>1, <2>2, <2>3 DEF ShownIsFiring
  <2> QED
    BY <1>2, <2>1, <2>4 DEF StoredAt, DiscardsResolved, ResolvedAt
<1>7. ASSUME NEW c \in Callers, CallCheck(c) \/ CallLookup(c) PROVE Goal
  <2>1. /\ UNCHANGED <<cur, sweep, store, firing, arg>>
        /\ \A d \in Callers : pc'[d] = "discard" => pc[d] = "discard"
    BY <1>2, <1>7 DEF CallCheck, CallLookup, CallAt, sweepVars, ActorTypes
  <2> QED
    BY <1>2, <2>1, ShownFrame
<1>8. CASE SweepBegin \/ SweepAdd \/ SweepTurn \/ SweepEnd \/ \E a \in Agents : SweepLookup(a)
  <2>1. /\ UNCHANGED <<store, pc, arg>> /\ firing \subseteq firing' /\ sweep' # "discard"
        /\ sweep = "add" => firing' = firing \cup {cur}
    BY <1>8 DEF SweepBegin, SweepAdd, SweepTurn, SweepEnd, SweepLookup, SweepAt, callVars
  <2> QED
    BY <1>2, <2>1, ShownFrame
<1>9. CASE \/ \E a \in Agents, i \in Instances : Receive(a, i)
           \/ Consume \/ Tick \/ UNCHANGED vars
  <2>1. /\ UNCHANGED <<cur, sweep, store, firing>>
        /\ \A d \in Callers : pc'[d] = "discard" => pc[d] = "discard" /\ arg'[d] = arg[d]
    BY <1>2, <1>9 DEF Receive, Consume, Tick, vars, sweepVars, callVars, ActorTypes
  <2> QED
    BY <1>2, <2>1, ShownFrame
<1> QED
  BY <1>3, <1>4, <1>5, <1>6, <1>7, <1>8, <1>9 DEF Next, Sweep, Call

(* evaluate_once against on_heartbeat: an alert shown as active is remembered as
   firing, so somebody is left to resolve it - as long as the agents report
   from one instance each and the store has room for the alerts of all. *)
THEOREM ShownAreFiring ==
  ASSUME NEW Own, RoomForAll(Agents)
  PROVE  Spec /\ []ReportsFrom(Own) => []ShownIsFiring
<1>1. Init => ShownInv(Own)
  <2> SUFFICES ASSUME Init PROVE ShownInv(Own)
    OBVIOUS
  <2>1. \A i \in Instances : DOMAIN store[i].alerts = {}
    BY DEF Init, NoAlerts
  <2>2. StoredAt(Own) /\ ShownIsFiring
    BY <2>1 DEF StoredAt, ShownIsFiring, Shown, IsActive, Known
  <2>3. ActorsAt(Own)
    BY Ages DEF Init, ActorsAt, Busy
  <2>4. DiscardsResolved(Own)
    BY DEF Init, DiscardsResolved
  <2> QED
    BY <2>2, <2>3, <2>4, StoreInvInit DEF ShownInv
<1>2. ShownInv(Own) /\ ReportsFrom(Own) /\ ReportsFrom(Own)' /\ [Next]_vars => ShownInv(Own)'
  BY ShownStep
<1>3. ShownInv(Own) => ShownIsFiring
  BY DEF ShownInv
<1> QED
  BY <1>1, <1>2, <1>3, PTL DEF Spec
=============================================================================
