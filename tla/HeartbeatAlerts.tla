--------------------------- MODULE HeartbeatAlerts ---------------------------
(***************************************************************************)
(* The one alert the backend raises itself: AgentHeartbeatMissing.         *)
(*                                                                         *)
(* Three actors share the agent registry, the monitor's set of firing      *)
(* agents and the alert store: the periodic sweep (a thread of its own),   *)
(* the request handlers (the event loop) and the consumer of the ingestion *)
(* queue (another thread), both of which call on_heartbeat.  Only single   *)
(* calls on the registry, on the store and on the set are atomic.          *)
(*                                                                         *)
(* Time is the age of the last heartbeat, in units that stop counting once *)
(* it is past the threshold.                                               *)
(***************************************************************************)
EXTENDS AlertStore, FiniteSets

CONSTANTS
  Agents, Instances,
  Threshold,     \* missing_heartbeat_threshold_seconds
  QueueCap,      \* bound: heartbeats waiting for the consumer
  MaxOutages     \* bound: times an agent passes the threshold

ASSUME HeartbeatAssumption ==
  Threshold \in Nat \ {0} /\ QueueCap \in Nat /\ MaxOutages \in Nat

Callers == {"handler", "consumer"}
Actors == Callers \cup {"sweep"}

VARIABLES
  age,      \* registry: [Agents -> age of the last heartbeat, or Unknown]
  home,     \* registry: the first instance id in the last heartbeat
  queue,    \* heartbeats accepted and not consumed yet
  outages,  \* times each agent has passed the threshold
  store,    \* [Instances -> alerts of the instance]
  firing,   \* HeartbeatMonitor._firing
  sweep,    \* where evaluate_once stands
  stale,    \* stale_ids, read when the sweep began
  todo,     \* agents the present loop of the sweep has still to visit
  cur,      \* the agent it is visiting
  pc,       \* [Callers -> where on_heartbeat stands]
  arg,      \* [Callers -> its agent]
  place     \* [Actors -> the instance it read from the registry for its update]

registryVars == <<age, home, queue, outages>>
sweepVars == <<sweep, stale, todo, cur>>
callVars == <<pc, arg>>
vars == <<registryVars, store, firing, sweepVars, callVars, place>>

(* Ages are 0 .. Missing; an agent never heard of has none. *)
Missing == Threshold + 1
Unknown == Threshold + 2
IsStale(a) == age[a] = Missing

FirstInstance == CHOOSE i \in Instances : TRUE

Init ==
  /\ age = [a \in Agents |-> Unknown]
  /\ home = [a \in Agents |-> FirstInstance]
  /\ queue = <<>> /\ outages = [a \in Agents |-> 0]
  /\ store = [i \in Instances |-> NoAlerts] /\ firing = {}
  /\ sweep = "sleep" /\ stale = {} /\ todo = {}
  /\ cur = CHOOSE a \in Agents : TRUE
  /\ pc = [c \in Callers |-> "idle"] /\ arg = [c \in Callers |-> cur]
  /\ place = [x \in Actors |-> FirstInstance]

-----------------------------------------------------------------------------
(* The agents and time. *)

(* A handler accepts a heartbeat, alone or in a batch: it is queued, recorded,
   and the monitor is told.  A document older than the stored one leaves the
   instances as they are: that is the choice i = home[a]. *)
Receive(a, i) ==
  /\ pc["handler"] = "idle" /\ Len(queue) < QueueCap
  /\ queue' = Append(queue, a)
  /\ age' = [age EXCEPT ![a] = 0]
  /\ home' = [home EXCEPT ![a] = i]
  /\ pc' = [pc EXCEPT !["handler"] = "check"]
  /\ arg' = [arg EXCEPT !["handler"] = a]
  /\ UNCHANGED <<outages, store, firing, sweepVars, place>>

(* The consumer takes an item on the event loop, so not within a handler; the
   call that follows runs in a thread. *)
Consume ==
  /\ pc["handler"] = "idle" /\ pc["consumer"] = "idle" /\ queue # <<>>
  /\ queue' = Tail(queue)
  /\ pc' = [pc EXCEPT !["consumer"] = "check"]
  /\ arg' = [arg EXCEPT !["consumer"] = queue[1]]
  /\ UNCHANGED <<age, home, outages, store, firing, sweepVars, place>>

Tick ==
  /\ \E a \in Agents :
       /\ age[a] < Missing
       /\ age[a] = Threshold => outages[a] < MaxOutages
       /\ age' = [age EXCEPT ![a] = @ + 1]
       /\ outages' = [outages EXCEPT ![a] = IF age[a] = Threshold THEN @ + 1 ELSE @]
  /\ UNCHANGED <<home, queue, store, firing, sweepVars, callVars, place>>

-----------------------------------------------------------------------------
(* The alert: one id per agent, whatever the outage.  An actor reads the
   agent's record, then merges at the instance it found there. *)

Lookup(x, a) == place' = [place EXCEPT ![x] = home[a]]
Update(a, status) ==
  [id |-> a, status |-> status, count |-> 1, delivery |-> NoDelivery]
MergeFor(x, a, status) ==
  store' = [store EXCEPT ![place[x]] = Merge(@, Update(a, status))]

-----------------------------------------------------------------------------
(* evaluate_once: two loops, over the agents found stale and over those that
   were firing and are not stale, each a lookup, a merge and a change of
   firing. *)

SweepAt(step, then) == sweep = step /\ sweep' = then

NewlyStale == {a \in Agents : IsStale(a)} \ firing  \* mutant: those firing are left out
StaleAgents == {a \in Agents : IsStale(a)}
SweepBegin ==
  /\ SweepAt("sleep", "stale")
  /\ stale' = StaleAgents /\ todo' = stale'
  /\ UNCHANGED <<cur, registryVars, store, firing, callVars, place>>

(* Every agent found stale is reported, those already firing too. *)
SweepLookup(a) ==
  /\ a \in todo
  /\ SweepAt("stale", "fire") \/ SweepAt("recovered", "resolve")
  /\ Lookup("sweep", a) /\ cur' = a /\ todo' = todo \ {a}
  /\ UNCHANGED <<stale, registryVars, store, firing, callVars>>

SweepMerge ==
  /\ \/ SweepAt("fire", "add") /\ MergeFor("sweep", cur, "firing")
     \/ SweepAt("resolve", "discard") /\ MergeFor("sweep", cur, "resolved")
  /\ UNCHANGED <<stale, todo, cur, registryVars, firing, callVars, place>>

SweepForget ==  \* mutant: the agent is not remembered as firing
  /\ SweepAt("add", "stale")
  /\ UNCHANGED <<stale, todo, cur, registryVars, store, firing, callVars, place>>
SweepAdd ==
  /\ SweepAt("add", "stale")
  /\ firing' = firing \cup {cur}
  /\ UNCHANGED <<stale, todo, cur, registryVars, store, callVars, place>>

NoneRecovered == {}  \* mutant: recovery is left to on_heartbeat
Recovered == firing \ stale
SweepTurn ==
  /\ SweepAt("stale", "recovered") /\ todo = {}
  /\ todo' = Recovered
  /\ UNCHANGED <<stale, cur, registryVars, store, firing, callVars, place>>

SweepDiscard ==
  /\ SweepAt("discard", "recovered")
  /\ firing' = firing \ {cur}
  /\ UNCHANGED <<stale, todo, cur, registryVars, store, callVars, place>>

SweepEnd ==
  /\ SweepAt("recovered", "sleep") /\ todo = {}
  /\ UNCHANGED <<stale, todo, cur, registryVars, store, firing, callVars, place>>

Sweep ==
  \/ SweepBegin \/ SweepMerge \/ SweepAdd \/ SweepTurn \/ SweepDiscard \/ SweepEnd
  \/ \E a \in Agents : SweepLookup(a)

-----------------------------------------------------------------------------
(* on_heartbeat, called by a handler and by the consumer. *)

CallAt(c, step, then) == pc[c] = step /\ pc' = [pc EXCEPT ![c] = then]

CallCheck(c) ==
  /\ CallAt(c, "check", IF arg[c] \in firing THEN "lookup" ELSE "idle")
  /\ UNCHANGED <<arg, registryVars, store, firing, sweepVars, place>>

CallLookup(c) ==
  /\ CallAt(c, "lookup", IF IsStale(arg[c]) THEN "idle" ELSE "merge")
  /\ Lookup(c, arg[c])
  /\ UNCHANGED <<arg, registryVars, store, firing, sweepVars>>

CallMerge(c) ==
  /\ CallAt(c, "merge", "discard")
  /\ MergeFor(c, arg[c], "resolved")
  /\ UNCHANGED <<arg, registryVars, firing, sweepVars, place>>

CallDiscard(c) ==
  /\ CallAt(c, "discard", "idle")
  /\ firing' = firing \ {arg[c]}
  /\ UNCHANGED <<arg, registryVars, store, sweepVars, place>>

Call(c) == CallCheck(c) \/ CallLookup(c) \/ CallMerge(c) \/ CallDiscard(c)

Next ==
  \/ \E a \in Agents, i \in Instances : Receive(a, i)
  \/ Consume \/ Tick \/ Sweep
  \/ \E c \in Callers : Call(c)

(* The sweep, the handlers and the consumer keep running; heartbeats and time
   are up to the environment. *)
Fairness == WF_vars(Sweep) /\ WF_vars(Consume) /\ \A c \in Callers : WF_vars(Call(c))

Spec == Init /\ [][Next]_vars
FairSpec == Spec /\ Fairness

-----------------------------------------------------------------------------
(* Properties. *)

Shown(a) == \E i \in Instances : IsActive(store[i], a)

(* An alert that is shown as active is remembered as firing, or about to be:
   somebody is left to resolve it (evaluate_once against on_heartbeat). *)
ShownIsFiring == \A a \in Agents : Shown(a) => a \in firing \/ (sweep = "add" /\ cur = a)

(* The resolved ids kept in order are exactly those whose record says so, at
   most RecentLimit of them, none twice (FR-QRY-016). *)
StoreConsistent ==
  \A i \in Instances :
    /\ {store[i].recent[n] : n \in DOMAIN store[i].recent}
         = {a \in DOMAIN store[i].alerts : store[i].alerts[a].status = "resolved"}
    /\ \A m, n \in DOMAIN store[i].recent :
         store[i].recent[m] = store[i].recent[n] => m = n
    /\ Len(store[i].recent) <= RecentLimit

(* What is resolved stays resolved as long as it is remembered (FR-QRY-019). *)
NoReopen ==
  [][\A i \in Instances : \A a \in Agents :
       IsResolved(store[i], a) => ~IsActive(store'[i], a)]_vars

(* The alert of an agent that keeps being heard is resolved. *)
HeardIsResolved ==
  \A a \in Agents : <>[](age[a] # Unknown /\ ~IsStale(a)) => <>[]~Shown(a)

(* An agent that stays silent past the threshold is shown as missing
   (FR-RUL-030). *)
SilentIsShown == \A a \in Agents : <>[]IsStale(a) => <>[]Shown(a)
=============================================================================
