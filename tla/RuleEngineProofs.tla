--------------------------- MODULE RuleEngineProofs ---------------------------
(***************************************************************************)
(* Theorems about RuleEngine, for every rule file, telemetry, silence and  *)
(* cap: the alerts that fire or resolve never exceed the cap, the receiver *)
(* knows of the alerts the engine holds, and is told of each in order, and *)
(* the samples of a baseline come from windows apart from each other and   *)
(* from any window found anomalous.                                        *)
(***************************************************************************)
EXTENDS RuleEngine, TLAPS, FiniteSetTheorems, WellFoundedInduction

(* What has to be known of the states besides their number: each rule has one,
   and it has a status. *)
StatesKept ==
  /\ states = [r \in RuleNames |-> states[r]]
  /\ \A r \in RuleNames : "status" \in DOMAIN states[r]
CapInv == StatesKept /\ ActiveWithinCap

UsesPlace(st) == st.status \in {"firing", "resolving"}

-----------------------------------------------------------------------------
(* A step that brings no alert into a place keeps the cap. *)

LEMMA ActiveFinite == IsFiniteSet(Active) /\ Cardinality(Active) \in Nat
  <1>1. IsFiniteSet(RuleNames) /\ Active \subseteq RuleNames
    BY RuleEngineAssumption DEF Active
  <1> QED
    BY <1>1, FS_Subset, FS_CardinalityType

LEMMA NoneAdded ==
  ASSUME CapInv, StatesKept', Active' \subseteq Active
  PROVE  CapInv'
  <1>1. Cardinality(Active') <= Cardinality(Active) /\ Cardinality(Active') \in Nat
    BY ActiveFinite, FS_Subset, FS_CardinalityType
  <1>2. Cardinality(Active) \in Nat /\ MaxActiveAlerts \in Nat
    BY ActiveFinite, RuleEngineAssumption
  <1> QED
    BY <1>1, <1>2 DEF CapInv, ActiveWithinCap, ActiveAlertCount

LEMMA OneAdded ==
  ASSUME CapInv, StatesKept', ~AtCap, NEW n, Active' \subseteq Active \cup {n}
  PROVE  CapInv'
  <1>1. IsFiniteSet(Active \cup {n}) /\ Cardinality(Active \cup {n}) <= Cardinality(Active) + 1
    BY ActiveFinite, FS_AddElement
  <1>2. Cardinality(Active') <= Cardinality(Active \cup {n})
        /\ Cardinality(Active') \in Nat /\ Cardinality(Active \cup {n}) \in Nat
    BY <1>1, FS_Subset, FS_CardinalityType
  <1>3. Cardinality(Active) \in Nat /\ MaxActiveAlerts \in Nat
    BY ActiveFinite, RuleEngineAssumption
  <1>4. Cardinality(Active) < MaxActiveAlerts
    BY <1>3 DEF AtCap, ActiveAlertCount
  <1> QED
    BY <1>1, <1>2, <1>3, <1>4 DEF CapInv, ActiveWithinCap, ActiveAlertCount

LEMMA StatesUnchanged ==
  ASSUME CapInv, UNCHANGED states
  PROVE  CapInv'
  <1>1. StatesKept' /\ Active' = Active
    BY DEF CapInv, StatesKept, Active
  <1> QED
    BY <1>1, NoneAdded

-----------------------------------------------------------------------------
(* The state of one rule is replaced. *)

LEMMA InactiveState == "status" \in DOMAIN Inactive /\ Inactive.status = "inactive"
  BY DEF Inactive

LEMMA BecomesKept ==
  ASSUME CapInv, NEW r, NEW st, Become(r, st), r.name \in RuleNames => "status" \in DOMAIN st
  PROVE  StatesKept'
  BY DEF CapInv, StatesKept, Become

LEMMA BecomesAgain ==
  ASSUME CapInv, NEW r, NEW st, Become(r, st),
         r.name \in RuleNames => /\ "status" \in DOMAIN st
                                 /\ UsesPlace(st) => UsesPlace(State(r))
  PROVE  CapInv'
  <1>1. StatesKept'
    BY BecomesKept
  <1>2. Active' \subseteq Active
    BY DEF CapInv, StatesKept, Become, Active, UsesPlace, State
  <1> QED
    BY <1>1, <1>2, NoneAdded

LEMMA BecomesNew ==
  ASSUME CapInv, NEW r, NEW st, Become(r, st), ~AtCap,
         r.name \in RuleNames => "status" \in DOMAIN st
  PROVE  CapInv'
  <1>1. StatesKept'
    BY BecomesKept
  <1>2. Active' \subseteq Active \cup {r.name}
    BY DEF CapInv, StatesKept, Become, Active
  <1> QED
    BY <1>1, <1>2, OneAdded

LEMMA BecomesInactive ==
  ASSUME CapInv, NEW r, Become(r, Inactive)
  PROVE  CapInv'
  BY BecomesAgain, InactiveState DEF UsesPlace

(* Only the severity of a rule's state changes. *)
LEMMA SeenKeeps ==
  ASSUME CapInv, NEW r, r.name \in RuleNames
  PROVE  /\ "status" \in DOMAIN State(r)
         /\ "status" \in DOMAIN Seen(r)
         /\ Seen(r).status = State(r).status
  BY DEF CapInv, StatesKept, State, Seen

LEMMA NotifiedKeeps ==
  ASSUME NEW st, "status" \in DOMAIN st
  PROVE  "status" \in DOMAIN Notified(st) /\ Notified(st).status = st.status
  BY DEF Notified

-----------------------------------------------------------------------------
(* The transitions of an alert. *)

LEMMA AppearsKeeps ==
  ASSUME CapInv, NEW r, Appears(r)
  PROVE  CapInv'
  <1> DEFINE st == [Inactive EXCEPT !.status = "pending", !.id = FreshId, !.severity = Severity(r)]
  <1>1. "status" \in DOMAIN st /\ ~UsesPlace(st)
    BY DEF Inactive, UsesPlace
  <1>2. Become(r, st)
    BY DEF Appears
  <1> QED
    BY <1>1, <1>2, BecomesAgain

LEMMA SeenAgain ==
  ASSUME CapInv, NEW r, Become(r, Seen(r))
  PROVE  CapInv'
  BY SeenKeeps, BecomesAgain DEF UsesPlace

LEMMA FiresKeeps ==
  ASSUME CapInv, NEW r, Fires(r)
  PROVE  CapInv'
  <1> DEFINE firing == [Seen(r) EXCEPT !.status = "firing", !.since = 0]
  <1>1. r.name \in RuleNames => "status" \in DOMAIN firing
    BY SeenKeeps
  <1>2. r.name \in RuleNames => "status" \in DOMAIN Notified(firing)
    BY <1>1, NotifiedKeeps
  <1>3. Become(r, Notified(firing)) /\ ~AtCap
    BY DEF Fires
  <1> QED
    BY <1>2, <1>3, BecomesNew

LEMMA StaysInPlace ==
  ASSUME CapInv, NEW r, NEW st, Become(r, st), Was(r, "firing") \/ Was(r, "resolving"),
         r.name \in RuleNames => "status" \in DOMAIN st
  PROVE  CapInv'
  <1>1. UsesPlace(State(r))
    BY DEF Was, UsesPlace, State
  <1> QED
    BY <1>1, BecomesAgain

LEMMA ClearsKeeps ==
  ASSUME CapInv, NEW r, Clears(r)
  PROVE  CapInv'
  <1>1. r.name \in RuleNames =>
          "status" \in DOMAIN [State(r) EXCEPT !.status = "resolving", !.since = 0]
    BY SeenKeeps
  <1> QED
    BY <1>1, StaysInPlace DEF Clears

LEMMA EscalatesKeeps ==
  ASSUME CapInv, NEW r, Escalates(r)
  PROVE  CapInv'
  <1>1. r.name \in RuleNames => "status" \in DOMAIN Notified(Seen(r))
    BY SeenKeeps, NotifiedKeeps
  <1> QED
    BY <1>1, StaysInPlace DEF Escalates

LEMMA RenotifiesKeeps ==
  ASSUME CapInv, NEW r, Renotifies(r)
  PROVE  CapInv'
  <1>1. r.name \in RuleNames => "status" \in DOMAIN Notified(State(r))
    BY SeenKeeps, NotifiedKeeps
  <1> QED
    BY <1>1, StaysInPlace DEF Renotifies

LEMMA FiresAgainKeeps ==
  ASSUME CapInv, NEW r, FiresAgain(r)
  PROVE  CapInv'
  <1>1. r.name \in RuleNames =>
          "status" \in DOMAIN [Seen(r) EXCEPT !.status = "firing", !.since = 0]
    BY SeenKeeps
  <1> QED
    BY <1>1, StaysInPlace DEF FiresAgain

LEMMA TransitionKeeps ==
  ASSUME CapInv, NEW r, Transition(r)
  PROVE  CapInv'
  <1>1. CASE Appears(r)
    BY <1>1, AppearsKeeps
  <1>2. CASE Quiet(r) \/ StaysFiring(r) \/ StaysResolving(r)
    BY <1>2, StatesUnchanged DEF Quiet, StaysFiring, StaysResolving
  <1>3. CASE Vanishes(r) \/ Resolves(r)
    BY <1>3, BecomesInactive DEF Vanishes, Resolves
  <1>4. CASE Waits(r) \/ StormBreaks(r) \/ HeldBack(r)
    BY <1>4, SeenAgain DEF Waits, StormBreaks, HeldBack
  <1>5. CASE Fires(r)
    BY <1>5, FiresKeeps
  <1>6. CASE Clears(r)
    BY <1>6, ClearsKeeps
  <1>7. CASE Escalates(r)
    BY <1>7, EscalatesKeeps
  <1>8. CASE Renotifies(r)
    BY <1>8, RenotifiesKeeps
  <1>9. CASE FiresAgain(r)
    BY <1>9, FiresAgainKeeps
  <1> QED
    BY <1>1, <1>2, <1>3, <1>4, <1>5, <1>6, <1>7, <1>8, <1>9 DEF Transition

-----------------------------------------------------------------------------
(* The steps of a tick. *)

(* The sleep ages every state and changes no status. *)
LEMMA ElapseKeeps ==
  ASSUME CapInv, NEW bs, NEW sp, Elapse(states, bs, sp)
  PROVE  CapInv'
  <1>1. states' = [r \in RuleNames |-> AgedState(states[r])]
    BY DEF Elapse
  <1>2. \A r \in RuleNames : /\ "status" \in DOMAIN AgedState(states[r])
                             /\ AgedState(states[r]).status = states[r].status
    BY DEF CapInv, StatesKept, AgedState
  <1>3. StatesKept'
    BY <1>1, <1>2 DEF StatesKept
  <1>4. Active' \subseteq Active
    BY <1>1, <1>2 DEF Active
  <1> QED
    BY <1>3, <1>4, NoneAdded

(* A reload makes states inactive and leaves the others alone. *)
LEMMA ApplyRulesKeeps ==
  ASSUME CapInv, NEW rs, ApplyRules(rs)
  PROVE  CapInv'
  <1>1. states' = [r \in RuleNames |-> IF r \in Dropped(rs) THEN Inactive ELSE states[r]]
    BY DEF ApplyRules
  <1>2. StatesKept'
    BY <1>1, InactiveState DEF CapInv, StatesKept
  <1>3. Active' \subseteq Active
    BY <1>1, InactiveState DEF Active
  <1> QED
    BY <1>2, <1>3, NoneAdded

LEMMA TickBeginKeeps ==
  ASSUME CapInv, NEW t, TickBegin(t)
  PROVE  CapInv'
  <1>1. CASE ApplyRules(RulesOf[disk])
    BY <1>1, ApplyRulesKeeps
  <1>2. CASE LastKnownGood
    BY <1>2, StatesUnchanged DEF LastKnownGood
  <1> QED
    BY <1>1, <1>2 DEF TickBegin

LEMMA TickKeeps ==
  ASSUME CapInv, Tick
  PROVE  CapInv'
  <1>1. CASE \E t \in DOMAIN Telemetry : TickBegin(t)
    BY <1>1, TickBeginKeeps
  <1>2. CASE TickCannotRead \/ TickEnd \/ TickRaises
    BY <1>2, ElapseKeeps DEF TickCannotRead, TickEnd, TickRaises
  <1>3. CASE PassBegin \/ PassEnd
    BY <1>3, StatesUnchanged DEF PassBegin, PassEnd, engineVars
  <1>4. CASE EvaluateRule
    BY <1>4, TransitionKeeps DEF EvaluateRule
  <1> QED
    BY <1>1, <1>2, <1>3, <1>4 DEF Tick

LEMMA StepKeeps ==
  ASSUME CapInv, [Next]_vars
  PROVE  CapInv'
  <1>1. CASE Tick
    BY <1>1, TickKeeps
  <1>2. CASE \E f \in DOMAIN RuleFileSet : Edit(f)
    BY <1>2, StatesUnchanged DEF Edit, engineVars
  <1>3. CASE RequestReload \/ BuildReloader
    BY <1>3, StatesUnchanged DEF RequestReload, BuildReloader, engineVars
  <1>4. CASE \E r \in Maintained : SilenceBegins(r) \/ SilenceEnds(r)
    BY <1>4, StatesUnchanged DEF SilenceBegins, SilenceEnds, engineVars
  <1>5. CASE UNCHANGED vars
    BY <1>5, StatesUnchanged DEF vars, engineVars
  <1> QED
    BY <1>1, <1>2, <1>3, <1>4, <1>5 DEF Next

LEMMA NoneActiveAtFirst ==
  ASSUME Init
  PROVE  CapInv
  <1>1. states = [r \in RuleNames |-> Inactive]
    BY DEF Init
  <1>2. StatesKept
    BY <1>1, InactiveState DEF StatesKept
  <1>3. Active = {}
    BY <1>1, InactiveState DEF Active
  <1>4. Cardinality(Active) = 0
    BY <1>3, FS_EmptySet
  <1> QED
    BY <1>2, <1>4, RuleEngineAssumption DEF CapInv, ActiveWithinCap, ActiveAlertCount

(* FR-RUL-017: over reloads, flaps, silences and storms, never more alerts fire
   or resolve than max_active_alerts, whatever the rules and the telemetry. *)
THEOREM CapHolds == Spec => []ActiveWithinCap
  <1>1. Init => CapInv
    BY NoneActiveAtFirst
  <1>2. CapInv /\ [Next]_vars => CapInv'
    BY StepKeeps
  <1>3. CapInv => ActiveWithinCap
    BY DEF CapInv
  <1> QED
    BY <1>1, <1>2, <1>3, PTL DEF Spec

-----------------------------------------------------------------------------
(* Sets of naturals, and sets put in a sequence. *)

LEMMA LeastOf ==
  ASSUME NEW B, B \subseteq Nat, B # {}
  PROVE  \E m \in B : \A n \in B : m <= n
  <1> DEFINE T == {0 .. n : n \in B}
             R == StrictSubsetOrdering(Nat)
             F == FiniteSubsetsOf(Nat)
  <1>1. IsWellFoundedOn(R, F)
    BY FS_StrictSubsetOrderingWellFounded
  <1>2. T \subseteq F
    <2>1. \A n \in Nat : 0 .. n \in SUBSET Nat /\ IsFiniteSet(0 .. n)
      BY FS_Interval
    <2> QED
      BY <2>1 DEF FiniteSubsetsOf
  <1>3. T # {}
    OBVIOUS
  <1>4. \E x \in T : \A y \in T : ~(<<y, x>> \in R)
    <2> HIDE DEF T, R, F
    <2> QED
      BY <1>1, <1>2, <1>3, WFMin
  <1>5. PICK m \in B : \A n \in B : ~(<<0 .. n, 0 .. m>> \in R)
    BY <1>4
  <1>6. ASSUME NEW n \in B, ~(m <= n) PROVE FALSE
    <2>1. m \in Nat /\ n \in Nat /\ n < m
      BY <1>6
    <2>2. 0 .. n \subseteq 0 .. m /\ m \in 0 .. m /\ m \notin 0 .. n
      BY <2>1
    <2>3. 0 .. n \in SUBSET Nat /\ 0 .. m \in SUBSET Nat
      BY <2>1
    <2>4. <<0 .. n, 0 .. m>> \in R
      BY <2>2, <2>3 DEF StrictSubsetOrdering
    <2> QED
      BY <1>5, <2>4
  <1> QED
    BY <1>6

LEMMA SequenceOf ==
  ASSUME NEW S, IsFiniteSet(S)
  PROVE  /\ SetToSeq(S) \in Seq(S)
         /\ \A i, j \in DOMAIN SetToSeq(S) : SetToSeq(S)[i] = SetToSeq(S)[j] => i = j
         /\ \A x \in S : \E i \in DOMAIN SetToSeq(S) : SetToSeq(S)[i] = x
  <1> DEFINE n == Cardinality(S)
             D == 1 .. n
             q == SetToSeq(S)
  <1>1. n \in Nat /\ ExistsBijection(D, S)
    BY FS_CardinalityType
  <1>2. \E f \in [D -> S] : IsInjective(f)
    BY <1>1 DEF ExistsBijection, Bijection, Injection, IsInjective
  <1>3. q \in [D -> S] /\ IsInjective(q)
    BY <1>2 DEF SetToSeq
  <1>4. IsFiniteSet(D) /\ Cardinality(D) = n
    BY <1>1, FS_Interval
  <1> HIDE DEF D, q
  <1>5. ASSUME NEW x \in S, \A i \in D : q[i] # x PROVE FALSE
    <2> DEFINE T == S \ {x}
    <2>1. IsFiniteSet(T) /\ Cardinality(T) = n - 1
      BY FS_RemoveElement
    <2>2. q \in [D -> T]
      BY <1>3, <1>5
    <2> HIDE DEF T, n
    <2>3. \E i, j \in D : i # j /\ q[i] = q[j]
      BY <1>1, <1>4, <2>1, <2>2, FS_PigeonHole
    <2> QED
      BY <1>3, <2>3 DEF IsInjective
  <1>6. q \in Seq(S) /\ DOMAIN q = D
    BY <1>1, <1>3 DEF D
  <1> QED
    BY <1>3, <1>5, <1>6 DEF IsInjective, q

-----------------------------------------------------------------------------
(* What the router has been told of an alert once the tick under way ends. *)

Told(i) == IF LastOf(i) = {} THEN sent[i] ELSE batch[CHOOSE k \in LastOf(i) : TRUE].event

Statuses == {"inactive", "pending", "firing", "resolving"}
Fields == {"status", "id", "severity", "since", "notified", "count"}
Carried(r) == states[r].status # "inactive"
Telling(e) == e.status = "firing" /\ e.rule # "AlertStorm"

StateOk(st) ==
  /\ Fields \subseteq DOMAIN st /\ st.status \in Statuses /\ st.count \in Nat
  /\ st.status # "inactive" => st.id \in Ids

StateTypes ==
  /\ states = [r \in RuleNames |-> states[r]]
  /\ \A r \in RuleNames : StateOk(states[r])
OutTypes ==
  /\ sent = [i \in Ids |-> sent[i]] /\ \E S : batch \in Seq(S)
  /\ pc \in {"boot", "idle"} => batch = <<>>
  /\ loaded \in AcceptedFiles

(* An alert id is of one alert. *)
OwnIds == \A r, s \in RuleNames :
  Carried(r) /\ Carried(s) /\ states[r].id = states[s].id => r = s

(* What a receiver knows of the alert a rule carries; what it may learn next. *)
Knows(e, r) == e = NoEvent \/ (e.status = "firing" /\ e.rule = r /\ e.count \in 0 .. states[r].count)
KnownOf == \A r \in RuleNames :
  Carried(r) => Knows(sent[states[r].id], r) /\ Knows(Told(states[r].id), r)
Advances(e, f) ==
  \/ f = e \/ e = NoEvent
  \/ e.status = "firing" /\ f.rule = e.rule /\ (f.count > e.count \/ f.status = "resolved")

Agreed ==
  /\ \A i \in Ids \ hushed : Telling(Told(i)) =>
       \E r \in Active : states[r].id = i /\ Told(i).rule = r /\ Told(i).count = states[r].count
  /\ \A r \in Active : Telling(Told(states[r].id)) \/ states[r].id \in hushed

ToldOk == OwnIds /\ KnownOf /\ Agreed /\ \A i \in Ids : Advances(sent[i], Told(i))
ToldInv == StateTypes /\ OutTypes /\ ToldOk

(* An id not in use: nobody carries it, and nobody was told of it. *)
LEMMA FreshIs ==
  ASSUME FreshIds # {}
  PROVE  /\ FreshId \in Ids /\ FreshId \notin hushed
         /\ \A r \in RuleNames : states[r].id # FreshId
         /\ sent[FreshId] = NoEvent /\ Told(FreshId) = NoEvent
  <1>1. FreshIds \subseteq Nat
    BY RuleFileAssumption DEF FreshIds
  <1>2. FreshId \in FreshIds
    BY <1>1, LeastOf DEF FreshId
  <1>3. FreshId \in Ids /\ FreshId \notin UsedIds
    BY <1>2 DEF FreshIds
  <1> HIDE DEF FreshId
  <1>4. \A k \in DOMAIN batch : batch[k].id # FreshId
    BY <1>3 DEF UsedIds
  <1>5. LastOf(FreshId) = {}
    BY <1>4 DEF LastOf
  <1>6. sent[FreshId] = NoEvent
    BY <1>3 DEF UsedIds
  <1> QED
    BY <1>3, <1>5, <1>6 DEF UsedIds, Told

(* An event said last is what is told of its alert. *)
LEMMA SaidLast ==
  ASSUME NEW S, batch \in Seq(S), NEW j, NEW e,
         batch' = Append(batch, [id |-> j, event |-> e]), UNCHANGED sent
  PROVE  /\ \E T : batch' \in Seq(T)
         /\ Told(j)' = e /\ \A i : i # j => Told(i)' = Told(i)
  <1>0. PICK x : x = [id |-> j, event |-> e]
    OBVIOUS
  <1> DEFINE T == S \cup {x}
             n == Len(batch) + 1
  <1>1. batch \in Seq(T) /\ x \in T /\ batch' = Append(batch, x)
    <2>1. \A i \in DOMAIN batch : batch[i] \in T
      OBVIOUS
    <2> QED
      BY <1>0, <2>1
  <1> HIDE DEF T
  <1>2. /\ batch' \in Seq(T) /\ n \in Nat /\ DOMAIN batch = 1 .. n - 1 /\ DOMAIN batch' = 1 .. n
        /\ batch'[n] = x /\ \A k \in DOMAIN batch : batch'[k] = batch[k]
    BY <1>1
  <1>3. PICK m \in Nat : m = n /\ m \in DOMAIN batch' /\ \A k \in DOMAIN batch' : k <= m /\ k \in Nat
    BY <1>2
  <1>4. LastOf(j)' = {m}
    BY <1>0, <1>2, <1>3 DEF LastOf
  <1>5. Told(j)' = e
    BY <1>0, <1>2, <1>3, <1>4 DEF Told
  <1>6. ASSUME NEW i, i # j PROVE Told(i)' = Told(i)
    <2>1. LastOf(i)' = LastOf(i)
      <3>1. \A k \in DOMAIN batch' : k \in DOMAIN batch \/ (k = m /\ batch'[k].id # i)
        BY <1>0, <1>2, <1>3, <1>6
      <3>2. \A k \in DOMAIN batch : k \in DOMAIN batch' /\ batch'[k] = batch[k]
        BY <1>2
      <3> QED
        BY <3>1, <3>2 DEF LastOf
    <2>2. CASE LastOf(i) = {}
      BY <2>1, <2>2 DEF Told
    <2>3. CASE LastOf(i) # {}
      <3>1. (CHOOSE k \in LastOf(i) : TRUE) \in DOMAIN batch
        BY <2>3 DEF LastOf
      <3> QED
        BY <1>2, <2>1, <2>3, <3>1 DEF Told
    <2> QED
      BY <2>2, <2>3
  <1> QED
    BY <1>2, <1>5, <1>6

LEMMA ToldStays ==
  ASSUME UNCHANGED <<batch, sent>>
  PROVE  \A i : Told(i)' = Told(i)
  BY DEF Told, LastOf

-----------------------------------------------------------------------------
(* Steps that tell nothing. *)

(* Every alert keeps its id, its number of notifications and its place. *)
SameAlerts == \A r \in RuleNames :
  /\ states'[r].count = states[r].count
  /\ states'[r].status # "inactive" <=> states[r].status # "inactive"
  /\ states[r].status # "inactive" => states'[r].id = states[r].id
  /\ states'[r].status \in {"firing", "resolving"} <=> states[r].status \in {"firing", "resolving"}

LEMMA AlertsSame ==
  ASSUME SameAlerts
  PROVE  /\ Active' = Active
         /\ \A r \in RuleNames : Carried(r)' <=> Carried(r)
         /\ \A r \in RuleNames : Carried(r) => states'[r].id = states[r].id
         /\ \A r \in Active : Carried(r)
         /\ \A e : \A r \in RuleNames : Knows(e, r)' <=> Knows(e, r)
         /\ OwnIds => OwnIds'
  <1>1. /\ \A r \in RuleNames : Carried(r)' <=> Carried(r)
        /\ \A r \in RuleNames : Carried(r) => states'[r].id = states[r].id
    BY DEF SameAlerts, Carried
  <1>2. Active' = Active /\ \A r \in Active : Carried(r)
    BY DEF SameAlerts, Active, Carried
  <1>3. \A e : \A r \in RuleNames : Knows(e, r)' <=> Knows(e, r)
    BY DEF SameAlerts, Knows
  <1>4. OwnIds => OwnIds'
    BY <1>1 DEF OwnIds
  <1> QED
    BY <1>1, <1>2, <1>3, <1>4

LEMMA SilentStep ==
  ASSUME ToldOk, SameAlerts, UNCHANGED <<batch, sent, hushed>>
  PROVE  ToldOk'
  <1>1. \A i : Told(i)' = Told(i)
    BY ToldStays
  <1>2. /\ Active' = Active /\ \A r \in RuleNames : Carried(r)' <=> Carried(r)
        /\ \A r \in RuleNames : Carried(r) => states'[r].id = states[r].id
        /\ \A r \in Active : Carried(r) /\ r \in RuleNames
        /\ \A e : \A r \in RuleNames : Knows(e, r)' <=> Knows(e, r)
        /\ OwnIds'
    BY AlertsSame DEF ToldOk, Active
  <1>3. KnownOf'
    BY <1>1, <1>2 DEF ToldOk, KnownOf
  <1>4. Agreed'
    BY <1>1, <1>2 DEF ToldOk, Agreed, SameAlerts
  <1> QED
    BY <1>1, <1>2, <1>3, <1>4 DEF ToldOk

(* An alert appears, with an id of its own. *)
LEMMA AppearStep ==
  ASSUME ToldOk, NEW n \in RuleNames, NEW st, ~Carried(n), FreshIds # {}, StateTypes,
         states' = [states EXCEPT ![n] = st], st.status = "pending", st.id = FreshId,
         UNCHANGED <<batch, sent, hushed>>
  PROVE  ToldOk'
  <1>1. \A i : Told(i)' = Told(i)
    BY ToldStays
  <1>2. PICK f \in Ids : f = FreshId
    BY FreshIs
  <1>3. /\ \A r \in RuleNames : states[r].id # f
        /\ sent[f] = NoEvent /\ Told(f) = NoEvent
    BY <1>2, FreshIs
  <1>4. states'[n] = st /\ \A r \in RuleNames \ {n} : states'[r] = states[r]
    BY DEF StateTypes
  <1>5. OwnIds'
    BY <1>2, <1>3, <1>4 DEF ToldOk, OwnIds, Carried
  <1>6. KnownOf'
    BY <1>1, <1>2, <1>3, <1>4 DEF ToldOk, KnownOf, Carried, Knows
  <1>7. Active' = Active /\ n \notin Active
    BY <1>4 DEF Active, Carried
  <1>8. Agreed'
    BY <1>1, <1>4, <1>7 DEF ToldOk, Agreed, Active
  <1> QED
    BY <1>1, <1>5, <1>6, <1>8 DEF ToldOk

(* A pending alert is given up before anybody was told. *)
LEMMA VanishStep ==
  ASSUME ToldOk, NEW n \in RuleNames, n \notin Active, StateTypes,
         states' = [states EXCEPT ![n] = Inactive],
         UNCHANGED <<batch, sent, hushed>>
  PROVE  ToldOk'
  <1>1. \A i : Told(i)' = Told(i)
    BY ToldStays
  <1>2. states'[n].status = "inactive" /\ \A r \in RuleNames \ {n} : states'[r] = states[r]
    BY InactiveState DEF StateTypes
  <1>3. OwnIds' /\ KnownOf'
    BY <1>1, <1>2 DEF ToldOk, OwnIds, KnownOf, Carried, Knows
  <1>4. Active' = Active
    BY <1>2 DEF Active
  <1>5. Agreed'
    BY <1>1, <1>2, <1>4 DEF ToldOk, Agreed, Active
  <1> QED
    BY <1>1, <1>3, <1>5 DEF ToldOk

-----------------------------------------------------------------------------
(* Steps that tell something, or would but for a silence. *)

SaysOrHushes(i, e) ==
  \/ hushed' = hushed \cup {i} /\ UNCHANGED batch
  \/ batch' = Append(batch, [id |-> i, event |-> e]) /\ UNCHANGED hushed

(* What is told after such a step. *)
LEMMA AfterTelling ==
  ASSUME OutTypes, NEW i, NEW e, SaysOrHushes(i, e), UNCHANGED sent
  PROVE  /\ \A j : j # i => Told(j)' = Told(j) /\ (j \in hushed' <=> j \in hushed)
         /\ hushed \subseteq hushed' /\ \E T : batch' \in Seq(T)
         /\ Told(i)' = e \/ (i \in hushed' /\ Told(i)' = Told(i))
  <1>0. PICK S : batch \in Seq(S)
    BY DEF OutTypes
  <1>1. CASE hushed' = hushed \cup {i} /\ UNCHANGED batch
    BY <1>0, <1>1, ToldStays
  <1>2. CASE batch' = Append(batch, [id |-> i, event |-> e]) /\ UNCHANGED hushed
    BY <1>0, <1>2, SaidLast
  <1> QED
    BY <1>1, <1>2 DEF SaysOrHushes

(* An alert fires, for the first time or once more. *)
LEMMA FireStep ==
  ASSUME ToldOk, StateTypes, OutTypes, NEW n \in RuleNames, NEW st, Carried(n),
         states' = [states EXCEPT ![n] = st], st.status = "firing",
         st.id = states[n].id, st.count = states[n].count + 1,
         SaysOrHushes(st.id, Event(n, st, "firing", st.count)), UNCHANGED sent
  PROVE  ToldOk'
  <1>0. PICK i, e : i = states[n].id /\ e = Event(n, st, "firing", st.count)
    OBVIOUS
  <1>1. e.rule = n /\ e.status = "firing" /\ e.count = st.count
    BY <1>0 DEF Event
  <1>2. states[n].count \in Nat /\ st.count \in Nat /\ states[n].count < st.count
    BY DEF StateTypes, StateOk
  <1>3. states'[n] = st /\ \A r \in RuleNames \ {n} : states'[r] = states[r]
    BY DEF StateTypes
  <1>4. /\ \A j : j # i => Told(j)' = Told(j) /\ (j \in hushed' <=> j \in hushed)
        /\ hushed \subseteq hushed'
        /\ Told(i)' = e \/ (i \in hushed' /\ Told(i)' = Told(i))
    BY <1>0, AfterTelling
  <1>5. \A r \in RuleNames \ {n} : Carried(r) => states[r].id # i
    BY <1>0 DEF ToldOk, OwnIds
  <1>6. Knows(sent[i], n) /\ Knows(Told(i), n)
    BY <1>0 DEF ToldOk, KnownOf
  <1>7. OwnIds'
    BY <1>0, <1>3 DEF ToldOk, OwnIds, Carried
  <1>8. KnownOf'
    <2>1. 0 .. states[n].count \subseteq 0 .. st.count /\ st.count \in 0 .. st.count
      BY <1>2
    <2>2. \A d : Knows(d, n) => Knows(d, n)'
      BY <1>3, <2>1 DEF Knows
    <2>3. Knows(e, n)'
      BY <1>1, <1>3, <2>1 DEF Knows
    <2>4. Knows(sent[i], n)' /\ Knows(Told(i), n)'
      <3>1. PICK d : d = sent[i]
        OBVIOUS
      <3>2. PICK f : f = Told(i)
        OBVIOUS
      <3>3. PICK g : g = Told(i)'
        OBVIOUS
      <3>4. g = e \/ g = f
        BY <1>4, <3>2, <3>3
      <3>5. Knows(d, n)' /\ Knows(g, n)'
        BY <1>6, <2>2, <2>3, <3>1, <3>2, <3>4
      <3> QED
        BY <3>1, <3>3, <3>5 DEF Knows
    <2>5. ASSUME NEW r \in RuleNames \ {n}, Carried(r)'
          PROVE  Knows(sent[states[r].id], r)' /\ Knows(Told(states[r].id), r)'
      <3>1. PICK j : j = states[r].id /\ j = states'[r].id /\ j # i
        BY <1>3, <1>5, <2>5 DEF Carried
      <3>2. Knows(sent[j], r) /\ Knows(Told(j), r)
        BY <1>3, <2>5, <3>1 DEF ToldOk, KnownOf, Carried
      <3>3. Told(j)' = Told(j)
        BY <1>4, <3>1
      <3>4. Knows(sent[j], r)' /\ Knows(Told(j), r)'
        BY <1>3, <3>2, <3>3 DEF Knows
      <3>5. Told(states[r].id)' = Told(j)'
        BY <3>1 DEF Told, LastOf
      <3> QED
        BY <3>1, <3>4, <3>5 DEF Knows
    <2>6. i = states'[n].id
      BY <1>0, <1>3
    <2>7. Told(states[n].id)' = Told(i)'
      BY <2>6 DEF Told, LastOf
    <2> QED
      BY <2>4, <2>5, <2>6, <2>7 DEF KnownOf, Knows
  <1>9. n \in Active' /\ \A r \in RuleNames \ {n} : r \in Active' <=> r \in Active
    BY <1>3 DEF Active
  <1>10. n # "AlertStorm" /\ Telling(e)
    BY <1>1, RuleEngineAssumption DEF Telling
  <1>11. Agreed'
    <2>1. ASSUME NEW j \in Ids \ hushed', Telling(Told(j))'
          PROVE  \E r \in Active' : states'[r].id = j /\ Told(j)'.rule = r
                                    /\ Told(j)'.count = states'[r].count
      <3>1. CASE j = i
        BY <1>0, <1>1, <1>3, <1>4, <1>9, <2>1, <3>1
      <3>2. CASE j # i
        <4>1. Told(j)' = Told(j) /\ j \notin hushed /\ Telling(Told(j))
          BY <1>4, <2>1, <3>2 DEF Telling
        <4>2. PICK r \in Active : states[r].id = j /\ Told(j).rule = r /\ Told(j).count = states[r].count
          BY <2>1, <4>1 DEF ToldOk, Agreed
        <4>3. r # n /\ r \in RuleNames
          BY <1>0, <3>2, <4>2 DEF Active
        <4> QED
          BY <1>3, <1>9, <4>1, <4>2, <4>3
      <3> QED
        BY <3>1, <3>2
    <2>2. ASSUME NEW r \in Active'
          PROVE  Telling(Told(states[r].id))' \/ states'[r].id \in hushed'
      <3>1. CASE r = n
        <4>1. i = states'[r].id
          BY <1>0, <1>3, <3>1
        <4>2. Told(states[r].id)' = Told(i)'
          BY <4>1 DEF Told, LastOf
        <4> QED
          BY <1>4, <1>10, <4>1, <4>2 DEF Telling
      <3>2. CASE r # n
        <4>1. r \in Active /\ r \in RuleNames /\ states'[r] = states[r] /\ Carried(r)
          BY <1>3, <2>2, <3>2 DEF Active, Carried
        <4>2. PICK j : j = states[r].id /\ j = states'[r].id /\ j # i
          BY <1>5, <3>2, <4>1
        <4>3. Telling(Told(j)) \/ j \in hushed
          BY <4>1, <4>2 DEF ToldOk, Agreed
        <4>4. Told(states[r].id)' = Told(j)'
          BY <4>2 DEF Told, LastOf
        <4> QED
          BY <1>4, <4>2, <4>3, <4>4 DEF Telling
      <3> QED
        BY <3>1, <3>2
    <2> QED
      BY <2>1, <2>2 DEF Agreed
  <1>12. ASSUME NEW j \in Ids PROVE Advances(sent[j], Told(j))'
    <2>1. CASE j # i
      BY <1>4, <2>1 DEF ToldOk, Advances
    <2>2. CASE j = i
      <3>1. Advances(sent[i], Told(i))
        BY <1>12, <2>2 DEF ToldOk
      <3>2. sent[i] = NoEvent \/ (sent[i].status = "firing" /\ sent[i].rule = n
                                  /\ sent[i].count \in 0 .. states[n].count)
        BY <1>6 DEF Knows
      <3>3. sent[i] # NoEvent => e.count > sent[i].count
        BY <1>1, <1>2, <3>2
      <3> QED
        BY <1>1, <1>4, <2>2, <3>1, <3>2, <3>3 DEF Advances
    <2> QED
      BY <2>1, <2>2
  <1> QED
    BY <1>7, <1>8, <1>11, <1>12 DEF ToldOk

(* An alert is resolved. *)
LEMMA ResolveStep ==
  ASSUME ToldOk, StateTypes, OutTypes, NEW n \in RuleNames, Carried(n),
         states' = [states EXCEPT ![n] = Inactive],
         NEW count, SaysOrHushes(states[n].id, Event(n, states[n], "resolved", count)),
         UNCHANGED sent
  PROVE  ToldOk'
  <1>0. PICK i, e : i = states[n].id /\ e = Event(n, states[n], "resolved", count)
    OBVIOUS
  <1>1. e.rule = n /\ e.status = "resolved"
    BY <1>0 DEF Event
  <1>2. states'[n].status = "inactive" /\ \A r \in RuleNames \ {n} : states'[r] = states[r]
    BY InactiveState DEF StateTypes
  <1>3. /\ \A j : j # i => Told(j)' = Told(j) /\ (j \in hushed' <=> j \in hushed)
        /\ hushed \subseteq hushed'
        /\ Told(i)' = e \/ (i \in hushed' /\ Told(i)' = Told(i))
    BY <1>0, AfterTelling
  <1>4. \A r \in RuleNames \ {n} : Carried(r) => states[r].id # i
    BY <1>0 DEF ToldOk, OwnIds
  <1>5. OwnIds'
    BY <1>2 DEF ToldOk, OwnIds, Carried
  <1>6. \A r \in RuleNames : Carried(r)' => r # n /\ Carried(r) /\ states'[r] = states[r]
    BY <1>2 DEF Carried
  <1>7. ASSUME NEW r \in RuleNames, Carried(r)'
        PROVE  Told(states[r].id)' = Told(states[r].id)
    <2>1. PICK j : j = states[r].id /\ j = states'[r].id /\ j # i
      BY <1>4, <1>6, <1>7
    <2>2. Told(j)' = Told(states[r].id)'
      BY <2>1 DEF Told, LastOf
    <2>3. Told(j)' = Told(j)
      BY <1>3, <2>1
    <2> QED
      BY <2>1, <2>2, <2>3
  <1>8. KnownOf'
    BY <1>6, <1>7 DEF ToldOk, KnownOf, Knows
  <1>9. \A r : r \in Active' <=> r \in Active /\ r # n
    BY <1>2 DEF Active
  <1>10. Agreed'
    <2>1. ASSUME NEW j \in Ids \ hushed', Telling(Told(j))'
          PROVE  \E r \in Active' : states'[r].id = j /\ Told(j)'.rule = r
                                    /\ Told(j)'.count = states'[r].count
      <3>1. j # i
        BY <1>1, <1>3, <2>1 DEF Telling
      <3>2. Told(j)' = Told(j) /\ j \notin hushed /\ Telling(Told(j))
        BY <1>3, <2>1, <3>1 DEF Telling
      <3>3. PICK r \in Active : states[r].id = j /\ Told(j).rule = r /\ Told(j).count = states[r].count
        BY <2>1, <3>2 DEF ToldOk, Agreed
      <3>4. r # n /\ r \in RuleNames
        BY <1>0, <3>1, <3>3 DEF Active
      <3> QED
        BY <1>2, <1>9, <3>2, <3>3, <3>4
    <2>2. ASSUME NEW r \in Active'
          PROVE  Telling(Told(states[r].id))' \/ states'[r].id \in hushed'
      <3>1. r \in Active /\ r \in RuleNames /\ Carried(r)' /\ states'[r] = states[r]
        BY <1>2, <1>9, <2>2 DEF Active, Carried
      <3>2. Telling(Told(states[r].id)) \/ states[r].id \in hushed
        BY <3>1 DEF ToldOk, Agreed
      <3> QED
        BY <1>3, <1>7, <3>1, <3>2 DEF Telling
    <2> QED
      BY <2>1, <2>2 DEF Agreed
  <1>11. ASSUME NEW j \in Ids PROVE Advances(sent[j], Told(j))'
    <2>1. CASE j # i
      BY <1>3, <2>1 DEF ToldOk, Advances
    <2>2. CASE j = i
      <3>1. Advances(sent[i], Told(i))
        BY <1>11, <2>2 DEF ToldOk
      <3>2. sent[i] = NoEvent \/ (sent[i].status = "firing" /\ sent[i].rule = n)
        BY <1>0 DEF ToldOk, KnownOf, Knows
      <3> QED
        BY <1>1, <1>3, <2>2, <3>1, <3>2 DEF Advances
    <2> QED
      BY <2>1, <2>2
  <1> QED
    BY <1>5, <1>8, <1>10, <1>11 DEF ToldOk

(* The storm is told under an id of its own, which no rule carries. *)
LEMMA StormStep ==
  ASSUME ToldOk, OutTypes, SameAlerts, FreshIds # {}, NEW e, e.rule = "AlertStorm",
         batch' = Append(batch, [id |-> FreshId, event |-> e]), UNCHANGED <<sent, hushed>>
  PROVE  ToldOk'
  <1>0. PICK i \in Ids : i = FreshId /\ sent[i] = NoEvent /\ \A r \in RuleNames : states[r].id # i
    BY FreshIs
  <1>1. Told(i)' = e /\ \A j : j # i => Told(j)' = Told(j)
    BY <1>0, SaidLast DEF OutTypes
  <1>2. /\ Active' = Active /\ \A r \in RuleNames : Carried(r)' <=> Carried(r)
        /\ \A r \in RuleNames : Carried(r) => states'[r].id = states[r].id
        /\ \A r \in Active : Carried(r) /\ r \in RuleNames
        /\ \A d : \A r \in RuleNames : Knows(d, r)' <=> Knows(d, r)
        /\ OwnIds'
    BY AlertsSame DEF ToldOk, Active
  <1>3. ASSUME NEW r \in RuleNames, Carried(r)
        PROVE  Told(states[r].id)' = Told(states[r].id)
    <2>1. PICK j : j = states[r].id /\ j = states'[r].id /\ j # i
      BY <1>0, <1>2, <1>3
    <2>2. Told(j)' = Told(states[r].id)'
      BY <2>1 DEF Told, LastOf
    <2>3. Told(j)' = Told(j)
      BY <1>1, <2>1
    <2> QED
      BY <2>1, <2>2, <2>3
  <1>4. KnownOf'
    BY <1>2, <1>3 DEF ToldOk, KnownOf
  <1>5. Agreed'
    <2>1. ASSUME NEW j \in Ids \ hushed', Telling(Told(j))'
          PROVE  \E r \in Active' : states'[r].id = j /\ Told(j)'.rule = r
                                    /\ Told(j)'.count = states'[r].count
      <3>1. Told(j)' = Told(j) /\ Telling(Told(j))
        BY <1>1, <2>1 DEF Telling
      <3> QED
        BY <1>2, <2>1, <3>1 DEF ToldOk, Agreed, SameAlerts
    <2>2. ASSUME NEW r \in Active'
          PROVE  Telling(Told(states[r].id))' \/ states'[r].id \in hushed'
      BY <1>2, <1>3, <2>2 DEF ToldOk, Agreed, Telling
    <2> QED
      BY <2>1, <2>2 DEF Agreed
  <1>6. \A j \in Ids : Advances(sent[j], Told(j))'
    BY <1>0, <1>1 DEF ToldOk, Advances
  <1> QED
    BY <1>2, <1>4, <1>5, <1>6 DEF ToldOk

-----------------------------------------------------------------------------
(* Steps of the tick as a whole. *)

(* Nothing is said any more: what is told is what was sent. *)
LEMMA NothingSaid ==
  ASSUME batch = <<>>
  PROVE  \A i : LastOf(i) = {} /\ Told(i) = sent[i]
  BY DEF LastOf, Told

LEMMA NothingSaidNext ==
  ASSUME batch' = <<>>
  PROVE  \A i : Told(i)' = sent'[i]
  BY DEF LastOf, Told

(* What is told becomes what was sent. *)
LEMMA EndStep ==
  ASSUME ToldOk, StateTypes, SameAlerts, UNCHANGED hushed, batch' = <<>>,
         sent' = [i \in Ids |-> IF LastOf(i) = {} THEN sent[i]
                                ELSE batch[CHOOSE k \in LastOf(i) : TRUE].event]
  PROVE  ToldOk'
  <1>1. \A i \in Ids : Told(i)' = Told(i) /\ sent'[i] = Told(i)
    BY NothingSaidNext DEF Told
  <1>2. /\ Active' = Active /\ \A r \in RuleNames : Carried(r)' <=> Carried(r)
        /\ \A r \in RuleNames : Carried(r) => states'[r].id = states[r].id
        /\ \A r \in Active : Carried(r) /\ r \in RuleNames
        /\ \A e : \A r \in RuleNames : Knows(e, r)' <=> Knows(e, r)
        /\ OwnIds'
    BY AlertsSame DEF ToldOk, Active
  <1>3. ASSUME NEW r \in RuleNames, Carried(r)
        PROVE  /\ states[r].id \in Ids /\ Told(states[r].id)' = Told(states[r].id)
               /\ sent'[states'[r].id] = Told(states[r].id)
    <2>1. PICK j \in Ids : j = states[r].id /\ j = states'[r].id
      BY <1>2, <1>3 DEF StateTypes, StateOk, Carried
    <2>2. Told(j)' = Told(states[r].id)'
      BY <2>1 DEF Told, LastOf
    <2> QED
      BY <1>1, <2>1, <2>2
  <1>4. KnownOf'
    <2>1. ASSUME NEW r \in RuleNames, Carried(r)
          PROVE  Knows(sent[states[r].id], r)' /\ Knows(Told(states[r].id), r)'
      <3>1. PICK t : t = Told(states[r].id)
        OBVIOUS
      <3>2. Knows(t, r)
        BY <2>1, <3>1 DEF ToldOk, KnownOf
      <3>3. sent'[states'[r].id] = t /\ Told(states[r].id)' = t
        BY <1>3, <2>1, <3>1
      <3> QED
        BY <1>2, <3>2, <3>3 DEF Knows
    <2> QED
      BY <1>2, <2>1 DEF KnownOf
  <1>5. Agreed'
    <2>1. ASSUME NEW j \in Ids \ hushed', Telling(Told(j))'
          PROVE  \E r \in Active' : states'[r].id = j /\ Told(j)'.rule = r
                                    /\ Told(j)'.count = states'[r].count
      <3>1. Told(j)' = Told(j) /\ Telling(Told(j)) /\ j \notin hushed
        BY <1>1, <2>1 DEF Telling
      <3> QED
        BY <1>2, <2>1, <3>1 DEF ToldOk, Agreed, SameAlerts
    <2>2. ASSUME NEW r \in Active'
          PROVE  Telling(Told(states[r].id))' \/ states'[r].id \in hushed'
      <3>1. r \in Active /\ Carried(r) /\ r \in RuleNames
        BY <1>2, <2>2
      <3>2. Telling(Told(states[r].id)) \/ states[r].id \in hushed
        BY <3>1 DEF ToldOk, Agreed
      <3> QED
        BY <1>2, <1>3, <3>1, <3>2 DEF Telling
    <2> QED
      BY <2>1, <2>2 DEF Agreed
  <1>6. \A i \in Ids : Advances(sent[i], Told(i))'
    BY <1>1 DEF Advances
  <1> QED
    BY <1>2, <1>4, <1>5, <1>6 DEF ToldOk

(* An exception loses what was said, and says so of the alerts it was of. *)
LEMMA RaiseStep ==
  ASSUME ToldOk, StateTypes, SameAlerts, UNCHANGED sent, batch' = <<>>,
         hushed' = hushed \cup {batch[k].id : k \in DOMAIN batch}
  PROVE  ToldOk'
  <1>1. \A i : Told(i)' = sent[i]
    BY NothingSaidNext
  <1>2. \A i : i \notin hushed' => Told(i) = sent[i] /\ i \notin hushed
    BY DEF Told, LastOf
  <1>3. /\ Active' = Active /\ \A r \in RuleNames : Carried(r)' <=> Carried(r)
        /\ \A r \in RuleNames : Carried(r) => states'[r].id = states[r].id
        /\ \A r \in Active : Carried(r) /\ r \in RuleNames
        /\ \A e : \A r \in RuleNames : Knows(e, r)' <=> Knows(e, r)
        /\ OwnIds'
    BY AlertsSame DEF ToldOk, Active
  <1>4. ASSUME NEW r \in RuleNames, Carried(r)
        PROVE  Told(states[r].id)' = sent[states[r].id] /\ states'[r].id = states[r].id
    <2>1. PICK j : j = states[r].id /\ j = states'[r].id
      BY <1>3, <1>4
    <2>2. Told(j)' = Told(states[r].id)'
      BY <2>1 DEF Told, LastOf
    <2> QED
      BY <1>1, <2>1, <2>2
  <1>5. KnownOf'
    BY <1>3, <1>4 DEF ToldOk, KnownOf
  <1>6. Agreed'
    <2>1. ASSUME NEW j \in Ids \ hushed', Telling(Told(j))'
          PROVE  \E r \in Active' : states'[r].id = j /\ Told(j)'.rule = r
                                    /\ Told(j)'.count = states'[r].count
      <3>1. Told(j)' = Told(j) /\ Telling(Told(j)) /\ j \notin hushed
        BY <1>1, <1>2, <2>1 DEF Telling
      <3> QED
        BY <1>3, <2>1, <3>1 DEF ToldOk, Agreed, SameAlerts
    <2>2. ASSUME NEW r \in Active'
          PROVE  Telling(Told(states[r].id))' \/ states'[r].id \in hushed'
      <3>1. r \in Active /\ Carried(r) /\ r \in RuleNames
        BY <1>3, <2>2
      <3>2. Telling(Told(states[r].id)) \/ states[r].id \in hushed
        BY <3>1 DEF ToldOk, Agreed
      <3> QED
        BY <1>2, <1>4, <3>1, <3>2 DEF Telling
    <2> QED
      BY <2>1, <2>2 DEF Agreed
  <1>7. \A i \in Ids : Advances(sent[i], Told(i))'
    BY <1>1 DEF Advances
  <1> QED
    BY <1>3, <1>5, <1>6, <1>7 DEF ToldOk

(* A reload resolves the alerts of the rules that are gone. *)
LEMMA ReloadStep ==
  ASSUME ToldOk, StateTypes, OutTypes, batch = <<>>, NEW rs,
         batch' = ResolvedByReload(rs), UNCHANGED <<sent, hushed>>,
         states' = [r \in RuleNames |-> IF r \in Dropped(rs) THEN Inactive ELSE states[r]]
  PROVE  ToldOk' /\ \E S : batch' \in Seq(S)
  <1> DEFINE Gone(r) == [id |-> states[r].id,
                         event |-> Event(r, states[r], "resolved", states[r].count + 1)]
  <1>0. PICK S : S = {Gone(r) : r \in Closing(rs)}
    OBVIOUS
  <1>1. IsFiniteSet(S)
    <2>1. IsFiniteSet(Closing(rs))
      BY ActiveFinite, FS_Subset DEF Closing
    <2> DEFINE C == Closing(rs)
               f == [r \in C |-> Gone(r)]
    <2>2. f \in Surjection(C, S)
      BY <1>0 DEF Surjection
    <2> HIDE DEF C, f
    <2> QED
      BY <2>1, <2>2, FS_Surjection DEF C
  <1>2. batch' = SetToSeq(S)
    BY <1>0 DEF ResolvedByReload
  <1>3. /\ batch' \in Seq(S)
        /\ \A k, l \in DOMAIN batch' : batch'[k] = batch'[l] => k = l
        /\ \A x \in S : \E k \in DOMAIN batch' : batch'[k] = x
    BY <1>1, <1>2, SequenceOf
  <1>4. \A r \in Closing(rs) : r \in RuleNames /\ Carried(r) /\ r \in Dropped(rs)
    BY DEF Closing, Dropped, Active, Carried
  <1>5. \A k \in DOMAIN batch' : \E r \in Closing(rs) :
          batch'[k].id = states[r].id /\ batch'[k].event.rule = r /\ batch'[k].event.status = "resolved"
    <2>1. ASSUME NEW k \in DOMAIN batch' PROVE batch'[k] \in S
      BY <1>3
    <2>2. \A x \in S : \E r \in Closing(rs) :
            x.id = states[r].id /\ x.event.rule = r /\ x.event.status = "resolved"
      BY <1>0 DEF Event
    <2> QED
      BY <2>1, <2>2
  <1>6. ASSUME NEW i, \A r \in Closing(rs) : states[r].id # i
        PROVE  Told(i)' = sent[i]
    <2>1. LastOf(i)' = {}
      BY <1>5, <1>6 DEF LastOf
    <2> QED
      BY <2>1 DEF Told
  <1>7. ASSUME NEW r \in Closing(rs), NEW i, i = states[r].id
        PROVE  Told(i)'.rule = r /\ Told(i)'.status = "resolved"
    <2>1. Gone(r) \in S
      BY <1>0
    <2>2. PICK k \in DOMAIN batch' : batch'[k] = Gone(r)
      BY <1>3, <2>1
    <2>3. ASSUME NEW l \in DOMAIN batch', batch'[l].id = i PROVE l = k
      <3>1. batch'[l] \in S
        BY <1>3
      <3>2. PICK s \in Closing(rs) : batch'[l] = Gone(s)
        BY <1>0, <3>1
      <3>3. states[s].id = states[r].id
        BY <1>7, <2>3, <3>2
      <3>4. s = r
        BY <1>4, <3>3 DEF ToldOk, OwnIds
      <3> QED
        BY <1>3, <2>2, <3>2, <3>4
    <2>4. batch'[k].id = i /\ k <= k
      <3>1. k \in Nat
        BY <1>3
      <3> QED
        BY <1>7, <2>2, <3>1
    <2>5. LastOf(i)' = {k}
      BY <2>3, <2>4 DEF LastOf
    <2>6. Told(i)' = batch'[k].event
      BY <2>5 DEF Told
    <2> QED
      BY <2>2, <2>6 DEF Event
  <1>8. \A i : Told(i) = sent[i]
    BY NothingSaid
  <1>9. /\ \A r \in RuleNames : Carried(r)' => Carried(r) /\ r \notin Closing(rs) /\ states'[r] = states[r]
        /\ \A r : r \in Active' <=> r \in Active /\ r \notin Closing(rs)
    <2>1. \A r \in Dropped(rs) : states'[r] = Inactive /\ r \in RuleNames
      BY DEF Dropped
    <2>2. \A r \in RuleNames \ Dropped(rs) : states'[r] = states[r]
      OBVIOUS
    <2> QED
      BY <2>1, <2>2, InactiveState DEF Carried, Active, Closing
  <1>10. \A r \in RuleNames : Carried(r)' => \A s \in Closing(rs) : states[s].id # states[r].id
    BY <1>4, <1>9 DEF ToldOk, OwnIds
  <1>11. ASSUME NEW r \in RuleNames, Carried(r)'
         PROVE  Told(states[r].id)' = Told(states[r].id) /\ states'[r] = states[r]
    <2>1. PICK j : j = states[r].id /\ j = states'[r].id
      BY <1>9, <1>11
    <2>2. Told(j)' = Told(states[r].id)'
      BY <2>1 DEF Told, LastOf
    <2>3. Told(j)' = Told(j)
      BY <1>6, <1>8, <1>10, <1>11, <2>1
    <2> QED
      BY <1>9, <1>11, <2>1, <2>2, <2>3
  <1>12. OwnIds'
    BY <1>9 DEF ToldOk, OwnIds
  <1>13. KnownOf'
    BY <1>9, <1>11 DEF ToldOk, KnownOf, Knows
  <1>14. Agreed'
    <2>1. ASSUME NEW j \in Ids \ hushed', Telling(Told(j))'
          PROVE  \E r \in Active' : states'[r].id = j /\ Told(j)'.rule = r
                                    /\ Told(j)'.count = states'[r].count
      <3>1. \A r \in Closing(rs) : states[r].id # j
        BY <1>7, <2>1 DEF Telling
      <3>2. Told(j)' = Told(j) /\ Telling(Told(j))
        BY <1>6, <1>8, <2>1, <3>1 DEF Telling
      <3>3. PICK r \in Active : states[r].id = j /\ Told(j).rule = r /\ Told(j).count = states[r].count
        BY <2>1, <3>2 DEF ToldOk, Agreed
      <3>4. r \in Active' /\ r \in RuleNames
        BY <1>9, <3>1, <3>3 DEF Active
      <3>5. Carried(r)'
        BY <3>4 DEF Active, Carried
      <3> QED
        BY <1>9, <3>2, <3>3, <3>4, <3>5
    <2>2. ASSUME NEW r \in Active'
          PROVE  Telling(Told(states[r].id))' \/ states'[r].id \in hushed'
      <3>1. r \in Active /\ r \in RuleNames /\ Carried(r)'
        BY <1>9, <2>2 DEF Active, Carried
      <3>2. Telling(Told(states[r].id)) \/ states[r].id \in hushed
        BY <3>1 DEF ToldOk, Agreed
      <3> QED
        BY <1>11, <3>1, <3>2 DEF Telling
    <2> QED
      BY <2>1, <2>2 DEF Agreed
  <1>15. ASSUME NEW i \in Ids PROVE Advances(sent[i], Told(i))'
    <2>1. CASE \A r \in Closing(rs) : states[r].id # i
      BY <1>6, <2>1 DEF Advances
    <2>2. CASE \E r \in Closing(rs) : states[r].id = i
      <3>1. PICK r \in Closing(rs) : i = states[r].id
        BY <2>2
      <3>2. sent[i] = NoEvent \/ (sent[i].status = "firing" /\ sent[i].rule = r)
        BY <1>4, <3>1 DEF ToldOk, KnownOf, Knows
      <3>3. Told(i)'.rule = r /\ Told(i)'.status = "resolved"
        BY <1>7, <3>1
      <3> QED
        BY <3>2, <3>3 DEF Advances
    <2> QED
      BY <2>1, <2>2
  <1> QED
    BY <1>3, <1>12, <1>13, <1>14, <1>15 DEF ToldOk

-----------------------------------------------------------------------------
(* The states of a transition. *)

LEMMA RuleNamed ==
  ASSUME OutTypes, Due # {}
  PROVE  Rule.name \in RuleNames
  <1>1. DOMAIN rules \subseteq Nat /\ Names(rules) \subseteq RuleNames
    BY RuleFileAssumption DEF OutTypes, rules
  <1>2. Due \subseteq DOMAIN rules
    BY DEF Due
  <1>3. PICK i \in Due : \A j \in Due : i <= j
    BY <1>1, <1>2, LeastOf
  <1>4. PICK k \in DOMAIN rules : Rule = rules[k]
    BY <1>2, <1>3 DEF Rule
  <1> QED
    BY <1>1, <1>4 DEF Names

LEMMA BecomeTypes ==
  ASSUME StateTypes, NEW n \in RuleNames, NEW st, StateOk(st), states' = [states EXCEPT ![n] = st]
  PROVE  StateTypes'
  <1>1. states'[n] = st /\ \A r \in RuleNames \ {n} : states'[r] = states[r]
    BY DEF StateTypes
  <1>2. states' = [r \in RuleNames |-> states'[r]]
    BY DEF StateTypes
  <1>3. \A r \in RuleNames : StateOk(states'[r])
    BY <1>1 DEF StateTypes
  <1> QED
    BY <1>2, <1>3 DEF StateTypes, StateOk

LEMMA BecomeSame ==
  ASSUME StateTypes, NEW n \in RuleNames, NEW st, states' = [states EXCEPT ![n] = st],
         st.count = states[n].count, st.id = states[n].id,
         st.status # "inactive" <=> states[n].status # "inactive",
         UsesPlace(st) <=> UsesPlace(states[n])
  PROVE  SameAlerts
  <1>1. states'[n] = st /\ \A r \in RuleNames \ {n} : states'[r] = states[r]
    BY DEF StateTypes
  <1> QED
    BY <1>1 DEF SameAlerts, UsesPlace

LEMMA InactiveOk == StateOk(Inactive)
  BY DEF StateOk, Inactive, Fields, Statuses

LEMMA SeenIs ==
  ASSUME StateTypes, NEW r, r.name \in RuleNames
  PROVE  /\ StateOk(State(r)) /\ StateOk(Seen(r)) /\ State(r) = states[r.name]
         /\ Seen(r).status = State(r).status /\ Seen(r).id = State(r).id
         /\ Seen(r).count = State(r).count
  <1>1. StateOk(State(r)) /\ State(r) = states[r.name]
    BY DEF StateTypes, State
  <1> QED
    BY <1>1 DEF Seen, StateOk, Fields

LEMMA NotifiedIs ==
  ASSUME NEW st, StateOk(st)
  PROVE  /\ StateOk(Notified(st)) /\ Notified(st).status = st.status
         /\ Notified(st).id = st.id /\ Notified(st).count = st.count + 1
  BY DEF Notified, StateOk, Fields

Turned(st, status) == [st EXCEPT !.status = status, !.since = 0]
LEMMA TurnedIs ==
  ASSUME NEW st, StateOk(st), st.status # "inactive", NEW status \in Statuses
  PROVE  /\ StateOk(Turned(st, status)) /\ Turned(st, status).status = status
         /\ Turned(st, status).id = st.id /\ Turned(st, status).count = st.count
  BY DEF Turned, StateOk, Fields

(* One rule is evaluated. *)
LEMMA TransitionTells ==
  ASSUME ToldInv, NEW r, r.name \in RuleNames, Transition(r), UNCHANGED <<sent, pc, loaded>>,
         pc = "rule"
  PROVE  ToldInv'
  <1> DEFINE n == r.name
             st == states[n]
  <1>0. /\ StateTypes /\ OutTypes /\ ToldOk /\ StateOk(st) /\ StateOk(Seen(r))
        /\ State(r) = st /\ Seen(r).status = st.status /\ Seen(r).id = st.id
        /\ Seen(r).count = st.count
    BY SeenIs DEF ToldInv
  <1>1. /\ {"inactive", "pending", "firing", "resolving"} = Statuses
        /\ pc' \notin {"boot", "idle"} /\ loaded' \in AcceptedFiles
        /\ sent' = [i \in Ids |-> sent'[i]]
    BY <1>0 DEF Statuses, OutTypes
  <1>2. ASSUME UNCHANGED <<batch, hushed>>, StateTypes', ToldOk'
        PROVE  ToldInv'
    BY <1>0, <1>1, <1>2 DEF ToldInv, OutTypes
  <1>3. ASSUME NEW i, NEW e, SaysOrHushes(i, e), StateTypes', ToldOk'
        PROVE  ToldInv'
    BY <1>0, <1>1, <1>3, AfterTelling DEF ToldInv, OutTypes
  <1>4. CASE Appears(r)
    <2> DEFINE t == [Inactive EXCEPT !.status = "pending", !.id = FreshId, !.severity = Severity(r)]
    <2>1. /\ FreshIds # {} /\ UNCHANGED <<batch, hushed>> /\ states' = [states EXCEPT ![n] = t]
          /\ ~Carried(n)
      BY <1>4 DEF Appears, SaysNothing, Become, Was, Carried
    <2>2. FreshId \in Ids
      BY <2>1, FreshIs
    <2>3. StateOk(t) /\ t.status = "pending" /\ t.id = FreshId
      BY <2>2 DEF StateOk, Inactive, Fields, Statuses
    <2> HIDE DEF t, n
    <2>4. StateTypes' /\ ToldOk'
      BY <1>0, <2>1, <2>3, BecomeTypes, AppearStep DEF n
    <2> QED
      BY <1>2, <2>1, <2>4
  <1>5. CASE Quiet(r) \/ StaysFiring(r) \/ StaysResolving(r)
    <2>1. UNCHANGED <<states, batch, hushed>>
      BY <1>5 DEF Quiet, StaysFiring, StaysResolving, SaysNothing
    <2>2. StateTypes' /\ SameAlerts
      BY <1>0, <2>1 DEF StateTypes, StateOk, SameAlerts
    <2> QED
      BY <1>0, <1>2, <2>1, <2>2, SilentStep
  <1>6. CASE Vanishes(r)
    <2>1. UNCHANGED <<batch, hushed>> /\ states' = [states EXCEPT ![n] = Inactive] /\ n \notin Active
      BY <1>6 DEF Vanishes, SaysNothing, Become, Was, Active
    <2> HIDE DEF n
    <2>2. StateTypes' /\ ToldOk'
      BY <1>0, <2>1, InactiveOk, BecomeTypes, VanishStep DEF n
    <2> QED
      BY <1>2, <2>1, <2>2
  <1>7. CASE Waits(r) \/ HeldBack(r)
    <2>1. UNCHANGED <<batch, hushed>> /\ states' = [states EXCEPT ![n] = Seen(r)]
      BY <1>7 DEF Waits, HeldBack, SaysNothing, Become
    <2>2. SameAlerts /\ StateTypes'
      BY <1>0, <2>1, BecomeTypes, BecomeSame DEF UsesPlace
    <2> QED
      BY <1>0, <1>2, <2>1, <2>2, SilentStep
  <1>8. CASE StormBreaks(r)
    <2> DEFINE e == [rule |-> "AlertStorm", status |-> "firing", severity |-> "critical", count |-> 1]
    <2>1. /\ FreshIds # {} /\ states' = [states EXCEPT ![n] = Seen(r)] /\ UNCHANGED hushed
          /\ batch' = Append(batch, [id |-> FreshId, event |-> e]) /\ e.rule = "AlertStorm"
      BY <1>8 DEF StormBreaks, Become, Says
    <2>2. SameAlerts /\ StateTypes'
      BY <1>0, <2>1, BecomeTypes, BecomeSame DEF UsesPlace
    <2> HIDE DEF e
    <2>3. ToldOk'
      BY <1>0, <2>1, <2>2, StormStep
    <2>4. SaysOrHushes(FreshId, e)
      BY <2>1 DEF SaysOrHushes
    <2> QED
      BY <1>3, <2>2, <2>3, <2>4
  <1>9. ASSUME NEW t, StateOk(t), t.status = "firing", t.id = st.id, t.count = st.count + 1,
               st.status # "inactive", Become(r, t), Tells(r, t, "firing")
        PROVE  ToldInv'
    <2>1. states' = [states EXCEPT ![n] = t] /\ Carried(n)
      BY <1>9 DEF Become, Carried
    <2>2. SaysOrHushes(t.id, Event(n, t, "firing", t.count))
      BY <1>9 DEF Tells, Says, SaysOrHushes
    <2>3. StateTypes'
      BY <1>0, <1>9, <2>1, BecomeTypes
    <2>4. ToldOk'
      BY <1>0, <1>9, <2>1, <2>2, FireStep
    <2> QED
      BY <1>3, <2>2, <2>3, <2>4
  <1>10. CASE Fires(r)
    <2> DEFINE t == Turned(Seen(r), "firing")
    <2>1. st.status = "pending" /\ Become(r, Notified(t)) /\ Tells(r, Notified(t), "firing")
      BY <1>10 DEF Fires, Ripe, Was, Turned
    <2>2. "firing" \in Statuses /\ Seen(r).status # "inactive"
      BY <1>0, <2>1 DEF Statuses
    <2>3. StateOk(t) /\ t.status = "firing" /\ t.id = st.id /\ t.count = st.count
      BY <1>0, <2>2, TurnedIs
    <2> HIDE DEF t
    <2> QED
      BY <1>9, <2>1, <2>3, NotifiedIs
  <1>11. CASE Escalates(r)
    <2>1. st.status = "firing" /\ Become(r, Notified(Seen(r))) /\ Tells(r, Notified(Seen(r)), "firing")
      BY <1>11 DEF Escalates, Was
    <2> QED
      BY <1>0, <1>9, <2>1, NotifiedIs
  <1>12. CASE Renotifies(r)
    <2>1. st.status = "firing" /\ Become(r, Notified(st)) /\ Tells(r, Notified(st), "firing")
      BY <1>0, <1>12 DEF Renotifies, Was
    <2> QED
      BY <1>0, <1>9, <2>1, NotifiedIs
  <1>13. CASE Clears(r) \/ FiresAgain(r)
    <2>1. PICK base, status : /\ base \in {st, Seen(r)} /\ status \in {"firing", "resolving"}
                              /\ Become(r, Turned(base, status))
                              /\ UNCHANGED <<batch, hushed>> /\ UsesPlace(st)
      BY <1>0, <1>13 DEF Clears, FiresAgain, SaysNothing, Was, UsesPlace, Turned
    <2> DEFINE t == Turned(base, status)
    <2>2. StateOk(base) /\ base.status = st.status /\ base.id = st.id /\ base.count = st.count
          /\ st.status # "inactive" /\ base.status # "inactive"
      BY <1>0, <2>1 DEF UsesPlace
    <2>3. StateOk(t) /\ t.status = status /\ t.id = st.id /\ t.count = st.count
      <3>1. status \in Statuses
        BY <2>1 DEF Statuses
      <3> QED
        BY <2>2, <3>1, TurnedIs
    <2>4. states' = [states EXCEPT ![n] = t]
      BY <2>1 DEF Become
    <2> HIDE DEF t
    <2>5. SameAlerts /\ StateTypes'
      BY <1>0, <2>1, <2>2, <2>3, <2>4, BecomeTypes, BecomeSame DEF UsesPlace
    <2> QED
      BY <1>0, <1>2, <2>1, <2>5, SilentStep
  <1>14. CASE Resolves(r)
    <2>1. /\ states' = [states EXCEPT ![n] = Inactive] /\ Carried(n)
          /\ SaysOrHushes(st.id, Event(n, st, "resolved", st.count))
      BY <1>0, <1>14 DEF Resolves, Become, Tells, Says, SaysOrHushes, Was, Carried
    <2>2. StateTypes'
      BY <1>0, <2>1, InactiveOk, BecomeTypes
    <2>3. ToldOk'
      BY <1>0, <2>1, ResolveStep
    <2> QED
      BY <1>3, <2>1, <2>2, <2>3
  <1> QED
    BY <1>4, <1>5, <1>6, <1>7, <1>8, <1>10, <1>11, <1>12, <1>13, <1>14 DEF Transition

-----------------------------------------------------------------------------
(* The steps of a tick, and those between two ticks. *)

LEMMA ElapseTypes ==
  ASSUME StateTypes, Elapse(states, baselines, spoiled)
  PROVE  SameAlerts /\ StateTypes'
  <1>1. states' = [r \in RuleNames |-> AgedState(states[r])]
    BY DEF Elapse
  <1>2. \A r \in RuleNames : StateOk(states[r]) /\ states'[r] = AgedState(states[r])
    BY <1>1 DEF StateTypes
  <1>3. ASSUME NEW st, StateOk(st)
        PROVE  /\ StateOk(AgedState(st)) /\ AgedState(st).status = st.status
               /\ AgedState(st).id = st.id /\ AgedState(st).count = st.count
    BY <1>3 DEF AgedState, StateOk, Fields
  <1>4. SameAlerts
    BY <1>2, <1>3 DEF SameAlerts
  <1>5. \A r \in RuleNames : StateOk(states'[r])
    BY <1>2, <1>3
  <1>6. states' = [r \in RuleNames |-> states'[r]]
    BY <1>1
  <1> QED
    BY <1>4, <1>5, <1>6 DEF StateTypes, StateOk

(* A step that leaves the alerts and what is told of them alone. *)
LEMMA QuietStep ==
  ASSUME ToldInv, UNCHANGED <<states, sent, batch, hushed, loaded>>,
         pc' \in {"boot", "idle"} => pc \in {"boot", "idle"}
  PROVE  ToldInv'
  <1>1. SameAlerts
    BY DEF SameAlerts
  <1>2. ToldOk'
    BY <1>1, SilentStep DEF ToldInv
  <1>3. StateTypes' /\ OutTypes'
    BY DEF ToldInv, StateTypes, StateOk, OutTypes
  <1> QED
    BY <1>2, <1>3 DEF ToldInv

LEMMA TickBeginTells ==
  ASSUME ToldInv, NEW t, TickBegin(t)
  PROVE  ToldInv'
  <1>1. /\ batch = <<>> /\ pc' = "pass" /\ UNCHANGED <<sent, hushed>>
        /\ StateTypes /\ OutTypes /\ ToldOk
    BY DEF TickBegin, ToldInv, OutTypes
  <1>2. CASE disk \in AcceptedFiles /\ ApplyRules(RulesOf[disk])
    <2> DEFINE rs == RulesOf[disk]
    <2>1. /\ loaded' = disk /\ batch' = ResolvedByReload(rs)
          /\ states' = [r \in RuleNames |-> IF r \in Dropped(rs) THEN Inactive ELSE states[r]]
      BY <1>2 DEF ApplyRules
    <2> HIDE DEF rs
    <2>2. ToldOk' /\ \E S : batch' \in Seq(S)
      BY <1>1, <2>1, ReloadStep
    <2>3. \A r \in RuleNames : StateOk(states'[r])
      BY <1>1, <2>1, InactiveOk DEF StateTypes
    <2>4. states' = [r \in RuleNames |-> states'[r]]
      BY <2>1
    <2>5. StateTypes'
      BY <2>3, <2>4 DEF StateTypes, StateOk
    <2>6. AcceptedFiles' = AcceptedFiles
      BY DEF AcceptedFiles
    <2>7. OutTypes'
      <3>1. sent' = [i \in Ids |-> sent'[i]]
        BY <1>1 DEF OutTypes
      <3>2. loaded' \in AcceptedFiles
        BY <1>2, <2>1
      <3> QED
        BY <1>1, <2>2, <3>1, <3>2 DEF OutTypes
    <2> QED
      BY <2>2, <2>5, <2>7 DEF ToldInv
  <1>3. CASE LastKnownGood
    BY <1>1, <1>3, QuietStep DEF LastKnownGood
  <1> QED
    BY <1>2, <1>3 DEF TickBegin

LEMMA TickTells ==
  ASSUME ToldInv, Tick
  PROVE  ToldInv'
  <1>0. StateTypes /\ OutTypes /\ ToldOk
    BY DEF ToldInv
  <1>1. CASE \E t \in DOMAIN Telemetry : TickBegin(t)
    BY <1>1, TickBeginTells
  <1>2. CASE TickCannotRead
    <2>1. UNCHANGED <<sent, batch, hushed, loaded, pc>> /\ Elapse(states, baselines, spoiled)
      BY <1>2 DEF TickCannotRead, tickVars
    <2>2. SameAlerts /\ StateTypes'
      BY <1>0, <2>1, ElapseTypes
    <2>3. ToldOk'
      BY <1>0, <2>1, <2>2, SilentStep
    <2>4. OutTypes'
      BY <1>0, <2>1 DEF OutTypes
    <2> QED
      BY <2>2, <2>3, <2>4 DEF ToldInv
  <1>3. CASE PassBegin
    BY <1>3, QuietStep DEF PassBegin, fileVars, engineVars, outVars
  <1>4. CASE EvaluateRule
    <2>1. PICK r : r = Rule
      OBVIOUS
    <2>2. r.name \in RuleNames
      BY <1>0, <1>4, <2>1, RuleNamed DEF EvaluateRule
    <2>3. Transition(r) /\ UNCHANGED <<sent, pc, loaded>> /\ pc = "rule"
      BY <1>4, <2>1 DEF EvaluateRule, fileVars
    <2> QED
      BY <2>2, <2>3, TransitionTells
  <1>5. CASE PassEnd
    BY <1>5, QuietStep DEF PassEnd, fileVars, engineVars, outVars
  <1>6. CASE TickEnd
    <2>1. /\ sent' = [i \in Ids |-> IF LastOf(i) = {} THEN sent[i]
                                    ELSE batch[CHOOSE k \in LastOf(i) : TRUE].event]
          /\ batch' = <<>> /\ UNCHANGED <<hushed, loaded>> /\ Elapse(states, baselines, spoiled)
      BY <1>6 DEF TickEnd, fileVars
    <2>2. SameAlerts /\ StateTypes'
      BY <1>0, <2>1, ElapseTypes
    <2>3. ToldOk'
      BY <1>0, <2>1, <2>2, EndStep
    <2>4. sent' = [i \in Ids |-> sent'[i]]
      BY <2>1
    <2>5. OutTypes'
      BY <1>0, <2>1, <2>4 DEF OutTypes
    <2> QED
      BY <2>2, <2>3, <2>5 DEF ToldInv
  <1>7. CASE TickRaises
    <2>1. /\ hushed' = hushed \cup {batch[k].id : k \in DOMAIN batch}
          /\ batch' = <<>> /\ UNCHANGED <<sent, loaded>> /\ Elapse(states, baselines, spoiled)
      BY <1>7 DEF TickRaises, fileVars
    <2>2. SameAlerts /\ StateTypes'
      BY <1>0, <2>1, ElapseTypes
    <2>3. ToldOk'
      BY <1>0, <2>1, <2>2, RaiseStep
    <2>4. OutTypes'
      BY <1>0, <2>1 DEF OutTypes
    <2> QED
      BY <2>2, <2>3, <2>4 DEF ToldInv
  <1> QED
    BY <1>1, <1>2, <1>3, <1>4, <1>5, <1>6, <1>7 DEF Tick

LEMMA ToldStep ==
  ASSUME ToldInv, [Next]_vars
  PROVE  ToldInv'
  <1>1. CASE \E f \in DOMAIN RuleFileSet : Edit(f)
    BY <1>1, QuietStep DEF Edit, engineVars, tickVars, outVars
  <1>2. CASE RequestReload
    BY <1>2, QuietStep DEF RequestReload, engineVars, tickVars, outVars
  <1>3. CASE BuildReloader
    BY <1>3, QuietStep DEF BuildReloader, engineVars, outVars
  <1>4. CASE \E r \in Maintained : SilenceBegins(r) \/ SilenceEnds(r)
    BY <1>4, QuietStep DEF SilenceBegins, SilenceEnds, fileVars, engineVars, tickVars, outVars
  <1>5. CASE Tick
    BY <1>5, TickTells
  <1>6. CASE UNCHANGED vars
    BY <1>6, QuietStep DEF vars, fileVars, engineVars, tickVars, outVars
  <1> QED
    BY <1>1, <1>2, <1>3, <1>4, <1>5, <1>6 DEF Next

LEMMA ToldAtFirst ==
  ASSUME Init
  PROVE  ToldInv
  <1>1. /\ states = [r \in RuleNames |-> Inactive] /\ batch = <<>> /\ hushed = {}
        /\ sent = [i \in Ids |-> NoEvent] /\ loaded \in AcceptedFiles
    BY DEF Init
  <1>2. \A r \in RuleNames : states[r] = Inactive
    BY <1>1
  <1>3. StateTypes
    BY <1>1, <1>2, InactiveOk DEF StateTypes
  <1>4. OutTypes
    <2>1. batch \in Seq({})
      BY <1>1
    <2> QED
      BY <1>1, <2>1 DEF OutTypes
  <1>5. \A r \in RuleNames : ~Carried(r)
    BY <1>2, InactiveState DEF Carried
  <1>6. Active = {}
    BY <1>5 DEF Active, Carried
  <1>7. \A i \in Ids : Told(i) = NoEvent /\ sent[i] = NoEvent /\ ~Telling(Told(i))
    BY <1>1, NothingSaid DEF Telling, NoEvent
  <1>8. OwnIds /\ KnownOf /\ Agreed
    BY <1>5, <1>6, <1>7 DEF OwnIds, KnownOf, Agreed
  <1> QED
    BY <1>3, <1>4, <1>7, <1>8 DEF ToldInv, ToldOk, Advances

LEMMA ToldAlways ==
  Spec => []ToldInv
  <1>1. Init => ToldInv
    BY ToldAtFirst
  <1>2. ToldInv /\ [Next]_vars => ToldInv'
    BY ToldStep
  <1> QED
    BY <1>1, <1>2, PTL DEF Spec

(* Whatever is edited, reloaded, silenced or lost to an exception: between two
   ticks the router was told firing of exactly the alerts the engine carries in
   a place, under their rule and with their number of notifications, but for
   alerts with an event that a silence or a failed tick took. *)
THEOREM ReceiverIsRight == Spec => []ReceiverAgrees
  <1>1. ASSUME ToldInv PROVE ReceiverAgrees
    <2>1. SUFFICES ASSUME pc \in {"boot", "idle"} PROVE ReceiverAgrees
      BY DEF ReceiverAgrees
    <2>2. batch = <<>> /\ Agreed
      BY <1>1, <2>1 DEF ToldInv, OutTypes, ToldOk
    <2>3. \A i : Told(i) = sent[i]
      BY <2>2, NothingSaid
    <2>4. \A i : Open(i) <=> Telling(Told(i))
      BY <2>3 DEF Open, Telling
    <2> QED
      BY <2>2, <2>3, <2>4 DEF Agreed, ReceiverAgrees
  <1> QED
    BY <1>1, ToldAlways, PTL

(* What the router is told of an alert only moves on: a new event for an alert
   told firing has a higher count or resolves it, under the same rule, and
   nothing follows a resolution. *)
THEOREM NotificationsMoveOn == Spec => NotificationsAdvance
  <1> DEFINE A == \A i \in Ids : sent[i] # NoEvent /\ sent'[i] # sent[i] =>
                    /\ sent[i].status = "firing" /\ sent'[i].rule = sent[i].rule
                    /\ sent'[i].count > sent[i].count \/ sent'[i].status = "resolved"
  <1>1. ASSUME ToldInv, [Next]_vars PROVE [A]_sent
    <2>1. SUFFICES ASSUME sent' # sent PROVE A
      OBVIOUS
    <2>2. TickEnd
      BY <1>1, <2>1 DEF Next, vars, Tick, Edit, RequestReload, BuildReloader, SilenceBegins,
         SilenceEnds, TickBegin, TickCannotRead, PassBegin, EvaluateRule, PassEnd, TickRaises, outVars
    <2>3. \A i \in Ids : sent'[i] = Told(i)
      BY <2>2 DEF TickEnd, Told
    <2>4. \A i \in Ids : Advances(sent[i], sent'[i])
      BY <1>1, <2>3 DEF ToldInv, ToldOk
    <2> QED
      BY <2>4 DEF Advances
  <1>2. ToldInv /\ [Next]_vars => [A]_sent
    BY <1>1
  <1> QED
    BY <1>2, ToldAlways, PTL DEF Spec, NotificationsAdvance

-----------------------------------------------------------------------------
(* The baseline of one rule. *)

BaseFields == {"shape", "history", "pending", "lastAnomalous"}
IsSample(x) == "age" \in DOMAIN x /\ x.age \in 0 .. AgeCap
Mature(x, b) == x.age <= b.lastAnomalous /\ b.lastAnomalous # Never
                  => b.lastAnomalous - x.age >= WindowOf(b)
Apart(x, y, b) == x.age - y.age >= WindowOf(b) \/ x.age = AgeCap

BaselineTypes(b) ==
  /\ BaseFields \subseteq DOMAIN b /\ b.lastAnomalous \in 0 .. AgeCap
  /\ \E S : b.history \in Seq(S)
  /\ \A i \in DOMAIN b.history : IsSample(b.history[i])
  /\ b.pending = <<>> \/ (b.pending = <<b.pending[1]>> /\ IsSample(b.pending[1]))
  /\ b.history # <<>> \/ b.pending # <<>> => WindowOf(b) \in Nat \ {0}

BaselineOk(b) ==
  /\ BaselineTypes(b)
  /\ \A i \in DOMAIN b.history : b.history[i].age >= WindowOf(b) /\ Mature(b.history[i], b)
  /\ \A i, j \in DOMAIN b.history : i < j => Apart(b.history[i], b.history[j], b)
  /\ b.pending # <<>> =>
       /\ Mature(b.pending[1], b)
       /\ \A i \in DOMAIN b.history : Apart(b.history[i], b.pending[1], b)

(* No sample was taken in this very evaluation. *)
Grown(b) == b.pending # <<>> => b.pending[1].age # 0

LEMMA OlderIs ==
  ASSUME NEW x \in 0 .. AgeCap
  PROVE  Older(x) \in 1 .. AgeCap /\ Older(x) >= x
  BY BaselineAssumption DEF Older

LEMMA OlderApart ==
  ASSUME NEW x \in 0 .. AgeCap, NEW y \in 0 .. AgeCap, NEW w \in Nat,
         x - y >= w \/ x = AgeCap
  PROVE  Older(x) - Older(y) >= w \/ Older(x) = AgeCap
  BY BaselineAssumption DEF Older

LEMMA OlderMature ==
  ASSUME NEW x \in 0 .. AgeCap, NEW y \in 0 .. AgeCap, NEW w \in Nat,
         y <= x /\ x # Never => x - y >= w
  PROVE  Older(y) <= Older(x) /\ Older(x) # Never => Older(x) - Older(y) >= w
  BY BaselineAssumption DEF Older, Never

LEMMA AgeSampleIs ==
  ASSUME NEW x, IsSample(x)
  PROVE  IsSample(AgeSample(x)) /\ AgeSample(x).age = Older(x.age)
  BY OlderIs, BaselineAssumption DEF AgeSample, IsSample

LEMMA AgedIs ==
  ASSUME NEW b, BaselineOk(b)
  PROVE  BaselineOk(Aged(b)) /\ Grown(Aged(b)) /\ Aged(b).lastAnomalous = Older(b.lastAnomalous)
  <1> DEFINE a == Aged(b) w == WindowOf(b)
  <1>1. /\ BaselineTypes(b) /\ BaseFields \subseteq DOMAIN b /\ b.lastAnomalous \in 0 .. AgeCap
        /\ \A i \in DOMAIN b.history : IsSample(b.history[i])
    BY DEF BaselineOk, BaselineTypes
  <1>2. /\ a.shape = b.shape /\ a.lastAnomalous = Older(b.lastAnomalous)
        /\ a.history = [i \in DOMAIN b.history |-> AgeSample(b.history[i])]
        /\ a.pending = [i \in DOMAIN b.pending |-> AgeSample(b.pending[i])]
        /\ BaseFields \subseteq DOMAIN a
    BY <1>1 DEF Aged, BaseFields
  <1>3. WindowOf(a) = w
    BY <1>2 DEF WindowOf
  <1>4. PICK S : b.history \in Seq(S)
    BY DEF BaselineOk, BaselineTypes
  <1>5. /\ DOMAIN a.history = DOMAIN b.history
        /\ \A i \in DOMAIN b.history : a.history[i] = AgeSample(b.history[i])
    BY <1>2
  <1>6. \E T : a.history \in Seq(T)
    <2>1. DOMAIN b.history = 1 .. Len(b.history) /\ Len(b.history) \in Nat
      BY <1>4
    <2>2. a.history \in [1 .. Len(b.history) -> {AgeSample(b.history[i]) : i \in DOMAIN b.history}]
      BY <1>2, <2>1
    <2>3. a.history \in Seq({AgeSample(b.history[i]) : i \in DOMAIN b.history})
      BY <2>1, <2>2
    <2> QED
      BY <2>3
  <1>7. \A i \in DOMAIN b.history :
          IsSample(a.history[i]) /\ a.history[i].age = Older(b.history[i].age)
    BY <1>1, <1>5, AgeSampleIs
  <1>8. /\ a.pending # <<>> <=> b.pending # <<>>
        /\ b.pending # <<>> => /\ a.pending = <<AgeSample(b.pending[1])>> /\ IsSample(b.pending[1])
                               /\ a.pending[1].age = Older(b.pending[1].age)
                               /\ IsSample(a.pending[1])
    <2>1. CASE b.pending = <<>>
      BY <1>2, <2>1
    <2>2. CASE b.pending = <<b.pending[1]>> /\ IsSample(b.pending[1])
      <3>1. DOMAIN b.pending = {1}
        BY <2>2
      <3>2. a.pending = <<AgeSample(b.pending[1])>>
        BY <1>2, <3>1
      <3> QED
        BY <2>2, <3>2, AgeSampleIs
    <2> QED
      BY <1>1, <2>1, <2>2 DEF BaselineTypes
  <1>9. a.history # <<>> => b.history # <<>>
    BY <1>2
  <1> HIDE DEF a
  <1>10. (a.history # <<>> \/ a.pending # <<>>) => w \in Nat \ {0}
    BY <1>1, <1>8, <1>9 DEF BaselineTypes
  <1>11. \A i \in DOMAIN b.history : w \in Nat \ {0}
    <2>1. ASSUME NEW i \in DOMAIN b.history PROVE b.history # <<>>
      BY <2>1
    <2> QED
      BY <1>1, <2>1 DEF BaselineTypes
  <1>12. BaselineTypes(a)
    <2>1. \A i \in DOMAIN a.history : IsSample(a.history[i])
      BY <1>5, <1>7
    <2>2. a.lastAnomalous \in 0 .. AgeCap
      BY <1>1, <1>2, OlderIs
    <2>3. a.pending = <<>> \/ (a.pending = <<a.pending[1]>> /\ IsSample(a.pending[1]))
      BY <1>8
    <2> QED
      BY <1>2, <1>3, <1>6, <1>10, <2>1, <2>2, <2>3 DEF BaselineTypes
  <1>13. ASSUME NEW x, IsSample(x), NEW y, y.age = Older(x.age), Mature(x, b), w \in Nat
         PROVE  Mature(y, a)
    <2>1. x.age <= b.lastAnomalous /\ b.lastAnomalous # Never => b.lastAnomalous - x.age >= w
      BY <1>13 DEF Mature
    <2>2. x.age \in 0 .. AgeCap
      BY <1>13 DEF IsSample
    <2> HIDE DEF w
    <2>3. /\ Older(x.age) <= Older(b.lastAnomalous) /\ Older(b.lastAnomalous) # Never
          => Older(b.lastAnomalous) - Older(x.age) >= w
      BY <1>1, <1>13, <2>1, <2>2, OlderMature
    <2> QED
      BY <1>2, <1>3, <1>13, <2>3 DEF Mature
  <1>14. ASSUME NEW x, IsSample(x), NEW y, IsSample(y), w \in Nat, Apart(x, y, b),
                NEW u, u.age = Older(x.age), NEW v, v.age = Older(y.age)
         PROVE  Apart(u, v, a)
    <2>1. x.age - y.age >= w \/ x.age = AgeCap
      BY <1>14 DEF Apart
    <2>2. x.age \in 0 .. AgeCap /\ y.age \in 0 .. AgeCap
      BY <1>14 DEF IsSample
    <2> HIDE DEF w
    <2>3. Older(x.age) - Older(y.age) >= w \/ Older(x.age) = AgeCap
      BY <1>14, <2>1, <2>2, OlderApart
    <2> QED
      BY <1>3, <1>14, <2>3 DEF Apart
  <1>15. ASSUME NEW i \in DOMAIN a.history
         PROVE  a.history[i].age >= WindowOf(a) /\ Mature(a.history[i], a)
    <2>1. /\ i \in DOMAIN b.history /\ IsSample(b.history[i]) /\ w \in Nat
          /\ a.history[i].age = Older(b.history[i].age)
          /\ b.history[i].age >= w /\ Mature(b.history[i], b)
      BY <1>1, <1>5, <1>7, <1>11 DEF BaselineOk
    <2>2. b.history[i].age \in 0 .. AgeCap
      BY <2>1 DEF IsSample
    <2> HIDE DEF w
    <2>3. a.history[i].age >= w
      BY <2>1, <2>2, OlderIs, BaselineAssumption
    <2> QED
      BY <1>3, <1>13, <2>1, <2>3
  <1>16. ASSUME NEW i \in DOMAIN a.history, NEW j \in DOMAIN a.history, i < j
         PROVE  Apart(a.history[i], a.history[j], a)
    <2>1. /\ i \in DOMAIN b.history /\ j \in DOMAIN b.history /\ w \in Nat
          /\ IsSample(b.history[i]) /\ IsSample(b.history[j]) /\ Apart(b.history[i], b.history[j], b)
          /\ a.history[i].age = Older(b.history[i].age) /\ a.history[j].age = Older(b.history[j].age)
      BY <1>1, <1>5, <1>7, <1>11, <1>16 DEF BaselineOk
    <2> QED
      BY <1>14, <2>1
  <1>17. ASSUME a.pending # <<>>
         PROVE  /\ Mature(a.pending[1], a)
                /\ \A i \in DOMAIN a.history : Apart(a.history[i], a.pending[1], a)
    <2>1. /\ b.pending # <<>> /\ w \in Nat /\ IsSample(b.pending[1])
          /\ a.pending[1].age = Older(b.pending[1].age) /\ Mature(b.pending[1], b)
      BY <1>8, <1>10, <1>17 DEF BaselineOk
    <2>2. ASSUME NEW i \in DOMAIN a.history PROVE Apart(a.history[i], a.pending[1], a)
      <3>1. /\ i \in DOMAIN b.history /\ IsSample(b.history[i])
            /\ Apart(b.history[i], b.pending[1], b) /\ a.history[i].age = Older(b.history[i].age)
        BY <1>1, <1>5, <1>7, <2>1 DEF BaselineOk
      <3> QED
        BY <1>14, <2>1, <3>1
    <2> QED
      BY <1>13, <2>1, <2>2
  <1>18. BaselineOk(a)
    BY <1>12, <1>15, <1>16, <1>17 DEF BaselineOk
  <1>19. Grown(a)
    <2>1. ASSUME a.pending # <<>> PROVE a.pending[1].age # 0
      <3>1. IsSample(b.pending[1]) /\ a.pending[1].age = Older(b.pending[1].age)
        BY <1>8, <2>1
      <3>2. b.pending[1].age \in 0 .. AgeCap
        BY <3>1 DEF IsSample
      <3> QED
        BY <3>1, <3>2, OlderIs, BaselineAssumption
    <2> QED
      BY <2>1 DEF Grown
  <1> QED
    BY <1>2, <1>18, <1>19 DEF a

LEMMA EmptyOk ==
  ASSUME NEW b, BaseFields \subseteq DOMAIN b, b.history = <<>>, b.pending = <<>>, b.lastAnomalous = Never
  PROVE  BaselineOk(b) /\ Grown(b)
  <1>1. b.history \in Seq({}) /\ DOMAIN b.history = {}
    OBVIOUS
  <1>2. b.lastAnomalous \in 0 .. AgeCap
    BY BaselineAssumption DEF Never
  <1> QED
    BY <1>1, <1>2 DEF BaselineOk, BaselineTypes, Grown

LEMMA StateOfIs ==
  ASSUME NEW r, NEW b, BaselineOk(b), Grown(b)
  PROVE  /\ BaselineOk(StateOf(r, b)) /\ Grown(StateOf(r, b)) /\ StateOf(r, b).shape = Shape(r)
         /\ StateOf(r, b).lastAnomalous = IF b.shape # Shape(r) THEN Never ELSE b.lastAnomalous
  <1>1. CASE b.shape = Shape(r)
    BY <1>1 DEF StateOf
  <1>2. CASE b.shape # Shape(r)
    <2> DEFINE n == [NoBaseline EXCEPT !.shape = Shape(r)]
    <2>1. /\ BaseFields \subseteq DOMAIN n /\ n.history = <<>> /\ n.pending = <<>>
          /\ n.lastAnomalous = Never /\ n.shape = Shape(r)
      BY DEF NoBaseline, BaseFields
    <2>2. StateOf(r, b) = n
      BY <1>2 DEF StateOf
    <2> HIDE DEF n
    <2>3. BaselineOk(n) /\ Grown(n)
      BY <2>1, EmptyOk
    <2> QED
      BY <1>2, <2>1, <2>2, <2>3
  <1> QED
    BY <1>1, <1>2

Keeps(p, b) == BaseFields \subseteq DOMAIN p /\ p.shape = b.shape

(* What a promotion makes of a history: the samples from one on of the history
   with, or without, the pending sample. *)
LEMMA JoinedIs ==
  ASSUME NEW r, NEW b, BaselineOk(b), b.shape = Shape(r), WindowTicks[r.window] \in Nat \ {0},
         NEW joined, NEW pending,
         \/ joined = b.history /\ pending = b.pending
         \/ /\ b.pending # <<>> /\ b.pending[1].age >= WindowTicks[r.window]
            /\ joined = b.history \o b.pending /\ pending = <<>>,
         NEW p, Keeps(p, b), p.lastAnomalous = b.lastAnomalous, p.history = joined, p.pending = pending
  PROVE  BaselineOk(p) /\ (Grown(b) => Grown(p))
  <1>1. /\ BaseFields \subseteq DOMAIN p /\ p.shape = b.shape /\ p.lastAnomalous = b.lastAnomalous
        /\ p.pending = pending /\ p.history = joined
    BY DEF Keeps
  <1>2. WindowOf(p) = WindowOf(b) /\ WindowOf(b) = WindowTicks[r.window]
    BY <1>1 DEF WindowOf, Shape
  <1>3. CASE joined = b.history /\ pending = b.pending
    BY <1>1, <1>2, <1>3 DEF BaselineOk, BaselineTypes, Grown, Mature, Apart
  <1>4. CASE /\ b.pending # <<>> /\ b.pending[1].age >= WindowTicks[r.window]
             /\ joined = b.history \o b.pending /\ pending = <<>>
    <2>1. PICK x : x = b.pending[1]
      OBVIOUS
    <2>2. b.pending = <<x>> /\ IsSample(x) /\ Mature(x, b) /\ x.age >= WindowOf(b)
      BY <1>2, <1>4, <2>1 DEF BaselineOk, BaselineTypes
    <2>3. PICK S : b.history \in Seq(S)
      BY DEF BaselineOk, BaselineTypes
    <2>4. PICK n : n = Len(b.history)
      OBVIOUS
    <2>5. /\ n \in Nat /\ DOMAIN b.history = 1 .. n /\ joined \in Seq(S \cup {x})
          /\ DOMAIN joined = 1 .. n + 1 /\ joined[n + 1] = x
          /\ \A i \in 1 .. n : joined[i] = b.history[i]
      <3>1. b.history \in Seq(S \cup {x}) /\ <<x>> \in Seq(S \cup {x}) /\ n \in Nat
            /\ DOMAIN b.history = 1 .. n
        BY <2>3, <2>4
      <3>2. joined = b.history \o <<x>>
        BY <1>4, <2>2
      <3> QED
        BY <2>4, <3>1, <3>2
    <2>6. /\ p.history = joined /\ p.pending = <<>>
      BY <1>1, <1>4
    <2>7. \A i \in DOMAIN joined :
            IsSample(joined[i]) /\ joined[i].age >= WindowOf(b) /\ Mature(joined[i], b)
      BY <2>2, <2>5 DEF BaselineOk, BaselineTypes
    <2>8. ASSUME NEW i \in DOMAIN joined, NEW j \in DOMAIN joined, i < j
          PROVE  Apart(joined[i], joined[j], b)
      <3>1. CASE j = n + 1
        <4>1. i \in 1 .. n /\ b.pending[1] = x
          BY <2>1, <2>5, <2>8, <3>1
        <4> QED
          BY <1>4, <2>5, <3>1, <4>1 DEF BaselineOk
      <3>2. CASE j # n + 1
        <4>1. i \in 1 .. n /\ j \in 1 .. n
          BY <2>5, <2>8, <3>2
        <4> QED
          BY <2>5, <2>8, <4>1 DEF BaselineOk
      <3> QED
        BY <3>1, <3>2
    <2>9. BaselineTypes(p)
      BY <1>1, <1>2, <2>5, <2>6, <2>7 DEF BaselineOk, BaselineTypes
    <2> QED
      BY <1>1, <1>2, <2>6, <2>7, <2>8, <2>9 DEF BaselineOk, Mature, Apart, Grown
  <1> QED
    BY <1>1, <1>3, <1>4

(* Samples that are too old leave from the front. *)
LEMMA DroppedIs ==
  ASSUME NEW b, BaselineOk(b), NEW gone \in 0 .. Len(b.history),
         NEW p, Keeps(p, b), p.lastAnomalous = b.lastAnomalous, p.pending = b.pending,
         p.history = SubSeq(b.history, gone + 1, Len(b.history))
  PROVE  BaselineOk(p) /\ (Grown(b) => Grown(p))
  <1>1. PICK h, S, n : h = b.history /\ h \in Seq(S) /\ n = Len(h)
    BY DEF BaselineOk, BaselineTypes
  <1>2. PICK q : q = SubSeq(h, gone + 1, n)
    OBVIOUS
  <1>3. /\ BaseFields \subseteq DOMAIN p /\ p.shape = b.shape /\ p.lastAnomalous = b.lastAnomalous
        /\ p.pending = b.pending /\ p.history = q
    BY <1>1, <1>2 DEF Keeps
  <1>4. WindowOf(p) = WindowOf(b)
    BY <1>3 DEF WindowOf
  <1>5. /\ n \in Nat /\ DOMAIN h = 1 .. n /\ gone \in 0 .. n
    BY <1>1
  <1>6. /\ q \in Seq(S) /\ DOMAIN q = 1 .. n - gone
        /\ \A i \in 1 .. n - gone : q[i] = h[i + gone]
    BY <1>1, <1>2, <1>5
  <1>7. \A i \in DOMAIN q : i + gone \in DOMAIN h /\ q[i] = h[i + gone]
    BY <1>5, <1>6
  <1>8. q # <<>> => h # <<>>
    BY <1>5, <1>6, <1>7
  <1>9. BaselineTypes(p)
    <2>1. \A i \in DOMAIN q : IsSample(q[i])
      BY <1>1, <1>7 DEF BaselineOk, BaselineTypes
    <2> QED
      BY <1>1, <1>3, <1>4, <1>6, <1>8, <2>1 DEF BaselineOk, BaselineTypes
  <1>10. ASSUME NEW i \in DOMAIN q
         PROVE  /\ q[i].age >= WindowOf(p) /\ Mature(q[i], p)
                /\ b.pending # <<>> => Apart(q[i], b.pending[1], p)
    <2>1. PICK k \in DOMAIN h : q[i] = h[k]
      BY <1>7
    <2>2. h[k].age >= WindowOf(b) /\ Mature(h[k], b)
      BY <1>1, <2>1 DEF BaselineOk
    <2>3. b.pending # <<>> => Apart(h[k], b.pending[1], b)
      BY <1>1, <2>1 DEF BaselineOk
    <2> QED
      BY <1>3, <1>4, <2>1, <2>2, <2>3 DEF Mature, Apart
  <1>11. ASSUME NEW i \in DOMAIN q, NEW j \in DOMAIN q, i < j
         PROVE  Apart(q[i], q[j], p)
    <2>1. i + gone < j + gone
      BY <1>5, <1>6, <1>11
    <2> QED
      BY <1>1, <1>4, <1>7, <2>1 DEF BaselineOk, Apart
  <1>12. b.pending # <<>> => Mature(b.pending[1], p)
    BY <1>3, <1>4 DEF BaselineOk, Mature
  <1>13. BaselineOk(p)
    BY <1>3, <1>9, <1>10, <1>11, <1>12 DEF BaselineOk
  <1> QED
    BY <1>3, <1>13 DEF Grown

LEMMA PromoteIs ==
  ASSUME NEW r, NEW b, BaselineOk(b), b.shape = Shape(r), WindowTicks[r.window] \in Nat \ {0}
  PROVE  /\ BaselineOk(Promote(r, b)) /\ Promote(r, b).shape = b.shape
         /\ Promote(r, b).lastAnomalous = b.lastAnomalous
         /\ Grown(b) => Grown(Promote(r, b))
  <1>1. PICK due : due = (b.pending # <<>> /\ b.pending[1].age >= WindowTicks[r.window])
    OBVIOUS
  <1>2. PICK joined : joined = IF due THEN b.history \o b.pending ELSE b.history
    OBVIOUS
  <1>3. PICK pending : pending = IF due THEN <<>> ELSE b.pending
    OBVIOUS
  <1>4. PICK m : m = [b EXCEPT !.history = joined, !.pending = pending]
    OBVIOUS
  <1>5. /\ Keeps(m, b) /\ m.lastAnomalous = b.lastAnomalous
        /\ m.pending = pending /\ m.history = joined
    BY <1>4 DEF BaselineOk, BaselineTypes, BaseFields, Keeps
  <1>6. BaselineOk(m) /\ (Grown(b) => Grown(m))
    <2>1. CASE due
      <3>1. /\ b.pending # <<>> /\ b.pending[1].age >= WindowTicks[r.window]
            /\ joined = b.history \o b.pending /\ pending = <<>>
        BY <1>1, <1>2, <1>3, <2>1
      <3> QED
        BY <1>5, <3>1, JoinedIs
    <2>2. CASE ~due
      <3>1. joined = b.history /\ pending = b.pending
        BY <1>2, <1>3, <2>2
      <3> QED
        BY <1>5, <3>1, JoinedIs
    <2> QED
      BY <2>1, <2>2
  <1>7. PICK stale : stale = Cardinality({i \in DOMAIN joined : joined[i].age > r.baseline})
    OBVIOUS
  <1>8. PICK spare : spare = Len(joined) - MIN_BASELINE_WINDOWS
    OBVIOUS
  <1>9. PICK gone : gone = IF spare <= 0 THEN 0 ELSE IF stale < spare THEN stale ELSE spare
    OBVIOUS
  <1>10. Len(joined) \in Nat /\ stale \in Nat
    <2>1. PICK S : joined \in Seq(S)
      BY <1>5, <1>6 DEF BaselineOk, BaselineTypes
    <2>2. DOMAIN joined = 1 .. Len(joined) /\ Len(joined) \in Nat
      BY <2>1
    <2>3. IsFiniteSet(DOMAIN joined)
      <3>1. 1 \in Int /\ Len(joined) \in Int
        BY <2>2
      <3>2. IsFiniteSet(1 .. Len(joined))
        BY <3>1, FS_Interval
      <3> QED
        BY <2>2, <3>2
    <2>4. IsFiniteSet({i \in DOMAIN joined : joined[i].age > r.baseline})
      BY <2>3, FS_Subset
    <2> QED
      BY <1>7, <2>2, <2>4, FS_CardinalityType
  <1>11. gone \in 0 .. Len(joined)
    BY <1>8, <1>9, <1>10, BaselineAssumption
  <1>12. Promote(r, b) = [b EXCEPT !.history = SubSeq(joined, gone + 1, Len(joined)), !.pending = pending]
    <2>1. Promote(r, b) = [b EXCEPT !.history = SubSeq(joined, gone + 1, Len(joined)),
                                    !.pending = IF due THEN <<>> ELSE @]
      BY <1>1, <1>2, <1>7, <1>8, <1>9 DEF Promote
    <2> QED
      BY <1>3, <2>1
  <1>13. PICK p : p = [m EXCEPT !.history = SubSeq(m.history, gone + 1, Len(m.history))]
    OBVIOUS
  <1>14. Promote(r, b) = p
    BY <1>4, <1>5, <1>12, <1>13
  <1>15. gone \in 0 .. Len(m.history)
    BY <1>5, <1>11
  <1>16. /\ Keeps(p, m) /\ p.lastAnomalous = m.lastAnomalous /\ p.pending = m.pending
         /\ p.history = SubSeq(m.history, gone + 1, Len(m.history))
    BY <1>5, <1>13 DEF Keeps, BaseFields
  <1>17. BaselineOk(p) /\ (Grown(m) => Grown(p))
    BY <1>6, <1>15, <1>16, DroppedIs
  <1> QED
    BY <1>5, <1>6, <1>14, <1>16, <1>17 DEF Keeps

(* A sample of now joins only where no anomaly is within its window; an anomaly
   leaves no sample younger than itself. *)
LEMMA OfferedOk ==
  ASSUME NEW r, NEW b, BaselineOk(b), b.shape = Shape(r), WindowTicks[r.window] \in Nat \ {0},
         NEW x, IsSample(x), x.age = 0, b.pending = <<>>,
         b.lastAnomalous = Never \/ ~(b.lastAnomalous < WindowTicks[r.window]),
         NEW p, Keeps(p, b), p.lastAnomalous = b.lastAnomalous, p.history = b.history,
         p.pending = <<x>>
  PROVE  BaselineOk(p)
  <1>1. /\ BaseFields \subseteq DOMAIN p /\ p.shape = b.shape /\ p.lastAnomalous = b.lastAnomalous
        /\ p.pending = <<x>> /\ p.history = b.history
    BY DEF Keeps
  <1>2. WindowOf(p) = WindowOf(b) /\ WindowOf(b) = WindowTicks[r.window]
    BY <1>1 DEF WindowOf, Shape
  <1>3. p.pending[1] = x
    BY <1>1
  <1>4. BaselineTypes(p)
    BY <1>1, <1>2, <1>3 DEF BaselineOk, BaselineTypes
  <1>5. Mature(x, p)
    <2>1. b.lastAnomalous \in 0 .. AgeCap
      BY DEF BaselineOk, BaselineTypes
    <2> QED
      BY <1>1, <1>2, <2>1, BaselineAssumption DEF Mature, Never
  <1>6. ASSUME NEW i \in DOMAIN b.history PROVE Apart(b.history[i], x, p)
    <2>1. b.history[i].age >= WindowOf(b) /\ b.history[i].age \in 0 .. AgeCap
      BY DEF BaselineOk, BaselineTypes, IsSample
    <2> QED
      BY <1>2, <2>1, BaselineAssumption DEF Apart
  <1>7. \A i \in DOMAIN b.history : b.history[i].age >= WindowOf(p) /\ Mature(b.history[i], p)
    BY <1>1, <1>2 DEF BaselineOk, Mature
  <1>8. \A i, j \in DOMAIN b.history : i < j => Apart(b.history[i], b.history[j], p)
    BY <1>1, <1>2 DEF BaselineOk, Apart
  <1> QED
    BY <1>1, <1>3, <1>4, <1>5, <1>6, <1>7, <1>8 DEF BaselineOk

LEMMA AnomalyOk ==
  ASSUME NEW r, NEW b, BaselineOk(b), Grown(b), b.shape = Shape(r), WindowTicks[r.window] \in Nat \ {0},
         NEW p, Keeps(p, b), p.lastAnomalous = 0, p.history = b.history, p.pending = b.pending
  PROVE  BaselineOk(p)
  <1>1. /\ BaseFields \subseteq DOMAIN p /\ p.shape = b.shape /\ p.lastAnomalous = 0
        /\ p.pending = b.pending /\ p.history = b.history
    BY DEF Keeps
  <1>2. WindowOf(p) = WindowOf(b) /\ WindowOf(b) = WindowTicks[r.window]
    BY <1>1 DEF WindowOf, Shape
  <1>3. BaselineTypes(p)
    BY <1>1, <1>2, BaselineAssumption DEF BaselineOk, BaselineTypes
  <1>4. \A x : x.age \in 0 .. AgeCap /\ x.age # 0 => Mature(x, p)
    BY <1>1, BaselineAssumption DEF Mature
  <1>5. \A i \in DOMAIN b.history : b.history[i].age >= WindowOf(p) /\ Mature(b.history[i], p)
    <2>1. ASSUME NEW i \in DOMAIN b.history
          PROVE  b.history[i].age >= WindowOf(p) /\ Mature(b.history[i], p)
      <3>1. b.history[i].age >= WindowOf(b) /\ b.history[i].age \in 0 .. AgeCap
        BY DEF BaselineOk, BaselineTypes, IsSample
      <3>2. b.history[i].age # 0
        BY <1>2, <3>1
      <3> QED
        BY <1>2, <1>4, <3>1, <3>2
    <2> QED
      BY <2>1
  <1>6. b.pending # <<>> => Mature(b.pending[1], p)
    <2>1. b.pending # <<>> => b.pending[1].age \in 0 .. AgeCap /\ b.pending[1].age # 0
      BY DEF BaselineOk, BaselineTypes, IsSample, Grown
    <2> QED
      BY <1>4, <2>1
  <1>7. \A x, y : Apart(x, y, b) => Apart(x, y, p)
    BY <1>2 DEF Apart
  <1> QED
    BY <1>1, <1>3, <1>5, <1>6, <1>7 DEF BaselineOk

LEMMA SampleIs ==
  ASSUME NEW r, NEW s
  PROVE  IsSample(CurrentSample(r, s)) /\ CurrentSample(r, s).age = 0
  <1>1. \A v, w : LET x == [age |-> 0, value |-> v, weight |-> w]
                  IN IsSample(x) /\ x.age = 0
    BY BaselineAssumption DEF IsSample
  <1>2. IsSample(NoSample) /\ NoSample.age = 0
    BY BaselineAssumption DEF IsSample, NoSample
  <1>3. CurrentSample(r, s) = NoSample
        \/ \E v, w : CurrentSample(r, s) = [age |-> 0, value |-> v, weight |-> w]
    BY DEF CurrentSample
  <1> QED
    BY <1>1, <1>2, <1>3

(* What Offer may make of a baseline in an evaluation that found no anomaly. *)
Offered(p, b, x, r) ==
  \/ p = b
  \/ /\ b.pending = <<>> /\ (b.lastAnomalous = Never \/ ~(b.lastAnomalous < WindowTicks[r.window]))
     /\ p = [b EXCEPT !.pending = <<x>>]

LEMMA OfferIs ==
  ASSUME NEW r, NEW b, BaselineOk(b), b.shape = Shape(r), WindowTicks[r.window] \in Nat \ {0},
         NEW x, IsSample(x), x.age = 0, NEW p, Offered(p, b, x, r)
  PROVE  BaselineOk(p) /\ p.lastAnomalous = b.lastAnomalous
  <1>1. CASE p = b
    BY <1>1
  <1>2. CASE p # b
    <2>1. /\ b.pending = <<>> /\ (b.lastAnomalous = Never \/ ~(b.lastAnomalous < WindowTicks[r.window]))
          /\ p = [b EXCEPT !.pending = <<x>>]
      BY <1>2 DEF Offered
    <2>2. Keeps(p, b) /\ p.lastAnomalous = b.lastAnomalous /\ p.history = b.history /\ p.pending = <<x>>
      BY <2>1 DEF BaselineOk, BaselineTypes, BaseFields, Keeps
    <2> QED
      BY <2>1, <2>2, OfferedOk
  <1> QED
    BY <1>1, <1>2

SettleTier(r, a, tier) == Settle(r, a, tier # 0)
SpoiledAfter(r, b, tier) ==
  IF tier # 0 THEN 0 ELSE IF b.shape # Shape(r) THEN Never ELSE b.lastAnomalous

(* What assess and settle leave of a baseline: no sample of now besides the one
   it may have taken, and the anomaly just found. *)
LEMMA SettledIs ==
  ASSUME NEW r, NEW b, BaselineOk(b), Grown(b), WindowTicks[r.window] \in Nat \ {0},
         NEW s, NEW warm, NEW tier, NEW a, a = Assess(r, b, s, warm), a.reading = NoReading => tier = 0,
         NEW p, p = SettleTier(r, a, tier)
  PROVE  BaselineOk(p) /\ p.lastAnomalous = SpoiledAfter(r, b, tier)
  <1>1. PICK q : q = Promote(r, StateOf(r, b))
    OBVIOUS
  <1>2. PICK x : x = CurrentSample(r, s)
    OBVIOUS
  <1>3. IsSample(x) /\ x.age = 0
    BY <1>2, SampleIs
  <1>4. PICK last : last = IF b.shape # Shape(r) THEN Never ELSE b.lastAnomalous
    OBVIOUS
  <1>5. BaselineOk(q) /\ Grown(q) /\ q.shape = Shape(r) /\ q.lastAnomalous = last
    <2>1. PICK o : o = StateOf(r, b)
      OBVIOUS
    <2>2. BaselineOk(o) /\ Grown(o) /\ o.shape = Shape(r) /\ o.lastAnomalous = last
      BY <1>4, <2>1, StateOfIs
    <2> QED
      BY <1>1, <2>1, <2>2, PromoteIs
  <1>6. CASE a.reading = NoReading
    <2>1. p = a.baseline /\ tier = 0
      BY <1>6 DEF Settle, SettleTier
    <2>2. a.baseline = q \/ a.baseline = Offer(r, q, x, warm, FALSE)
      BY <1>1, <1>2 DEF Assess
    <2>3. Offered(a.baseline, q, x, r)
      BY <2>2 DEF Offer, Offered
    <2>4. BaselineOk(a.baseline) /\ a.baseline.lastAnomalous = last
      BY <1>3, <1>5, <2>3, OfferIs
    <2> QED
      BY <1>4, <2>1, <2>4 DEF SpoiledAfter
  <1>7. CASE a.reading # NoReading
    <2>1. a.baseline = q /\ a.sample = x
      BY <1>1, <1>2, <1>7 DEF Assess
    <2>2. CASE tier = 0
      <3>1. p = Offer(r, q, x, TRUE, FALSE)
        BY <1>7, <2>1, <2>2 DEF Settle, SettleTier
      <3>2. Offered(p, q, x, r)
        BY <3>1 DEF Offer, Offered
      <3>3. BaselineOk(p) /\ p.lastAnomalous = last
        BY <1>3, <1>5, <3>2, OfferIs
      <3> QED
        BY <1>4, <2>2, <3>3 DEF SpoiledAfter
    <2>3. CASE tier # 0
      <3>1. PICK m : m = [q EXCEPT !.lastAnomalous = 0]
        OBVIOUS
      <3>2. Keeps(m, q) /\ m.lastAnomalous = 0 /\ m.history = q.history /\ m.pending = q.pending
        BY <1>5, <3>1 DEF BaselineOk, BaselineTypes, BaseFields, Keeps
      <3>3. BaselineOk(m)
        BY <1>5, <3>2, AnomalyOk
      <3>4. p = m
        <4>1. p = Offer(r, m, x, TRUE, TRUE)
          BY <1>7, <2>1, <2>3, <3>1 DEF Settle, SettleTier
        <4> QED
          BY <4>1 DEF Offer
      <3> QED
        BY <2>3, <3>2, <3>3, <3>4 DEF SpoiledAfter
    <2> QED
      BY <2>2, <2>3
  <1> QED
    BY <1>6, <1>7

-----------------------------------------------------------------------------
(* The baselines of the engine.  A rule is evaluated at most once in a tick:
   in the pass of its window and grouping, at its place among the rules. *)

PassOf(rule) == <<rule.window, GroupKey(rule)>>
Evaluated(n) ==
  /\ pc \in {"pass", "rule"}
  /\ \E i \in DOMAIN rules :
       /\ rules[i].name = n /\ PassOf(rules[i]) \notin passes
       /\ pc = "rule" /\ PassOf(rules[i]) = pass => i < next

TickTypes ==
  /\ loaded \in AcceptedFiles /\ next \in Nat /\ passes \subseteq DOMAIN Turn
  /\ pc = "rule" => pass \in DOMAIN Turn /\ pass[1] \in DOMAIN WindowTicks /\ pass \notin passes

BaselinesOk ==
  /\ baselines = [n \in RuleNames |-> baselines[n]]
  /\ spoiled = [n \in RuleNames |-> spoiled[n]]
  /\ \A n \in RuleNames : BaselineOk(baselines[n]) /\ spoiled[n] = baselines[n].lastAnomalous

LearnInv ==
  /\ TickTypes /\ BaselinesOk
  /\ \A n \in RuleNames : Grown(baselines[n]) \/ Evaluated(n)

LEMMA SoundBaselines ==
  ASSUME BaselinesOk
  PROVE  BaselineSound
  <1>1. ASSUME NEW n \in RuleNames, NEW b, b = baselines[n], NEW h, h = Samples(b)
        PROVE  /\ \A i, j \in DOMAIN h : i < j => \/ h[i].age - h[j].age >= WindowOf(b)
                                                   \/ h[i].age = AgeCap
               /\ \A i \in DOMAIN h : h[i].age <= spoiled[n] /\ spoiled[n] # Never
                                      => spoiled[n] - h[i].age >= WindowOf(b)
    <2>1. BaselineOk(b) /\ spoiled[n] = b.lastAnomalous
      BY <1>1 DEF BaselinesOk
    <2>2. /\ \A i \in DOMAIN h : Mature(h[i], b)
          /\ \A i, j \in DOMAIN h : i < j => Apart(h[i], h[j], b)
      <3>1. PICK S : b.history \in Seq(S)
        BY <2>1 DEF BaselineOk, BaselineTypes
      <3>2. CASE b.pending = <<>>
        <4>1. h = b.history
          BY <1>1, <3>1, <3>2 DEF Samples
        <4> QED
          BY <2>1, <4>1 DEF BaselineOk
      <3>3. CASE b.pending # <<>>
        <4>1. PICK x : x = b.pending[1]
          OBVIOUS
        <4>2. b.pending = <<x>> /\ Mature(x, b) /\ \A i \in DOMAIN b.history : Apart(b.history[i], x, b)
          BY <2>1, <3>3, <4>1 DEF BaselineOk, BaselineTypes
        <4>3. PICK k : k = Len(b.history)
          OBVIOUS
        <4>4. /\ k \in Nat /\ DOMAIN b.history = 1 .. k /\ DOMAIN h = 1 .. k + 1 /\ h[k + 1] = x
              /\ \A i \in 1 .. k : h[i] = b.history[i]
          <5>1. b.history \in Seq(S \cup {x}) /\ <<x>> \in Seq(S \cup {x}) /\ k \in Nat
                /\ DOMAIN b.history = 1 .. k
            BY <3>1, <4>3
          <5>2. h = b.history \o <<x>>
            BY <1>1, <4>2 DEF Samples
          <5> QED
            BY <4>3, <5>1, <5>2
        <4>5. \A i \in DOMAIN h : Mature(h[i], b)
          BY <2>1, <4>2, <4>4 DEF BaselineOk
        <4>6. ASSUME NEW i \in DOMAIN h, NEW j \in DOMAIN h, i < j PROVE Apart(h[i], h[j], b)
          <5>1. i \in 1 .. k
            BY <4>4, <4>6
          <5>2. CASE j = k + 1
            BY <4>2, <4>4, <5>1, <5>2
          <5>3. CASE j # k + 1
            <6>1. j \in 1 .. k
              BY <4>4, <5>3
            <6> QED
              BY <2>1, <4>4, <4>6, <5>1, <6>1 DEF BaselineOk
          <5> QED
            BY <5>2, <5>3
        <4> QED
          BY <4>5, <4>6
      <3> QED
        BY <3>2, <3>3
    <2> QED
      BY <2>1, <2>2 DEF Mature, Apart
  <1> QED
    BY <1>1 DEF BaselineSound

(* The passes of a file are among those that have a turn, and the turns are
   naturals: one of the passes left comes first. *)
LEMMA TurnIs ==
  ASSUME NEW p \in DOMAIN Turn
  PROVE  Turn[p] \in Nat
  <1>1. \A s, x : DOMAIN s \subseteq Nat /\ x \in ToSet(s) => PlaceIn(s, x) \in Nat
    BY DEF PlaceIn, ToSet
  <1>2. DOMAIN WindowNames \subseteq Nat /\ DOMAIN Groupings \subseteq Nat /\ Len(Groupings) = 3
    BY BaselineAssumption DEF Groupings
  <1>3. p[1] \in ToSet(WindowNames) /\ p[2] \in ToSet(Groupings)
    BY DEF Turn
  <1>4. PlaceIn(WindowNames, p[1]) \in Nat /\ PlaceIn(Groupings, p[2]) \in Nat
    BY <1>1, <1>2, <1>3
  <1>5. Turn[p] = 3 * PlaceIn(WindowNames, p[1]) + PlaceIn(Groupings, p[2])
    BY <1>2 DEF Turn
  <1> QED
    BY <1>4, <1>5

LEMMA EarliestIs ==
  ASSUME passes \subseteq DOMAIN Turn, passes # {}
  PROVE  Earliest \in passes
  <1> DEFINE T == {Turn[p] : p \in passes}
  <1>1. T \subseteq Nat /\ T # {}
    BY TurnIs
  <1>2. PICK m \in T : \A n \in T : m <= n
    <2> HIDE DEF T
    <2> QED
      BY <1>1, LeastOf
  <1>3. PICK p \in passes : \A q \in passes : Turn[p] <= Turn[q]
    BY <1>2
  <1> QED
    BY <1>3 DEF Earliest

LEMMA PassesIs ==
  ASSUME NEW f \in AcceptedFiles
  PROVE  PassesOf[f] \subseteq DOMAIN Turn
  <1>1. PICK rs : rs = RulesOf[f]
    OBVIOUS
  <1>2. f \in DOMAIN RuleFileSet
    BY DEF AcceptedFiles
  <1>3. \A i \in DOMAIN rs : rs[i].window \in ToSet(WindowNames) \cup {Absent}
    BY <1>1, RuleFileAssumption
  <1>4. WindowsUsed(rs) \subseteq ToSet(WindowNames)
    BY <1>3, BaselineAssumption DEF WindowsUsed
  <1>5. \A r : GroupKey(r) \in ToSet(Groupings)
    <2>1. ToSet(Groupings) = {Absent, "error_signature", "level"}
      BY DEF ToSet, Groupings
    <2> QED
      BY <2>1 DEF GroupKey
  <1>6. Absent \in ToSet(Groupings)
    BY DEF ToSet, Groupings
  <1>7. \A w : GroupingsOf(rs, w) \subseteq ToSet(Groupings)
    BY <1>5, <1>6 DEF GroupingsOf
  <1>8. Passes(rs) \subseteq ToSet(WindowNames) \X ToSet(Groupings)
    BY <1>4, <1>7 DEF Passes
  <1> QED
    BY <1>1, <1>2, <1>8 DEF PassesOf, Turn

-----------------------------------------------------------------------------
(* The steps of a tick. *)

(* The rule an evaluation takes: the first that is due, and no other rule has
   its name. *)
LEMMA RuleIs ==
  ASSUME TickTypes, Due # {}
  PROVE  \E k \in Due : /\ Rule = rules[k] /\ k \in Nat /\ k >= next
                        /\ \A i \in DOMAIN rules : rules[i].name = rules[k].name => i = k
  <1>1. DOMAIN rules \subseteq Nat /\ Due \subseteq DOMAIN rules
    BY RuleFileAssumption DEF TickTypes, rules, Due
  <1>2. PICK m \in Due : \A j \in Due : m <= j
    BY <1>1, LeastOf
  <1>3. PICK k : k = CHOOSE i \in Due : \A j \in Due : i <= j
    OBVIOUS
  <1>4. k \in Due /\ Rule = rules[k]
    BY <1>2, <1>3 DEF Rule
  <1>5. k >= next /\ k \in Nat
    BY <1>1, <1>4 DEF Due
  <1>6. NoDuplicates(rules)
    BY DEF TickTypes, AcceptedFiles, Accepted, rules, RulesOf
  <1> QED
    BY <1>1, <1>4, <1>5, <1>6 DEF NoDuplicates

LEMMA BaselinesNext ==
  ASSUME baselines' = [n \in RuleNames |-> baselines'[n]],
         spoiled' = [n \in RuleNames |-> spoiled'[n]],
         \A n \in RuleNames : BaselineOk(baselines'[n]) /\ spoiled'[n] = baselines'[n].lastAnomalous
  PROVE  BaselinesOk'
  BY DEF BaselinesOk, BaselineOk, BaselineTypes, IsSample, Mature, Apart, WindowOf

LEMMA BaselinesKept ==
  ASSUME BaselinesOk, UNCHANGED <<baselines, spoiled>>
  PROVE  BaselinesOk'
  BY BaselinesNext DEF BaselinesOk

(* An anomaly rule is evaluated in its own pass, and before this evaluation it
   had taken no sample in the tick under way. *)
LEMMA LearnsStep ==
  ASSUME LearnInv, pc = "rule", NEW k \in Due, k >= next, k \in Nat, NEW r, r = rules[k],
         r.name \in RuleNames,
         \A i \in DOMAIN rules : rules[i].name = r.name => i = k, Learn(r)
  PROVE  /\ BaselinesOk'
         /\ \A n \in RuleNames : \/ baselines'[n] = baselines[n]
                                 \/ n = r.name /\ PassOf(r) \notin passes
  <1> DEFINE n == r.name
             b == baselines[n]
             t == Tier(r)
  <1>1. /\ baselines = [m \in RuleNames |-> baselines[m]]
        /\ spoiled = [m \in RuleNames |-> spoiled[m]]
        /\ \A m \in RuleNames : BaselineOk(baselines[m]) /\ spoiled[m] = baselines[m].lastAnomalous
    BY DEF LearnInv, BaselinesOk
  <1>2. CASE UNCHANGED <<baselines, spoiled>>
    BY <1>2, BaselinesKept DEF LearnInv
  <1>3. CASE r.kind = "anomaly" /\ ~Unseen(r)
    <2>1. k \in DOMAIN rules /\ InPass(r)
      BY DEF Due
    <2>2. /\ r.window \in {Absent, Window} /\ pass[2] = GroupKey(r) /\ r.window # Absent
      <3>1. r.window # Absent
        BY <1>3, <2>1, RuleFileAssumption DEF LearnInv, TickTypes, rules
      <3> QED
        BY <2>1, <3>1 DEF InPass, EvaluatesOn, Snapshot
    <2>3. pass \in DOMAIN Turn /\ pass[1] \in DOMAIN WindowTicks /\ pass \notin passes /\ next \in Nat
      BY DEF LearnInv, TickTypes
    <2>4. PassOf(r) = pass /\ WindowTicks[r.window] \in Nat \ {0}
      <3>1. pass = <<pass[1], pass[2]>>
        BY <2>3 DEF Turn
      <3> QED
        BY <2>2, <2>3, <3>1, BaselineAssumption DEF PassOf, Window
    <2>5. ~Evaluated(n)
      <3>1. ASSUME NEW i \in DOMAIN rules, rules[i].name = n, i < next PROVE FALSE
        <4>1. i = k
          BY <3>1
        <4> QED
          BY <2>3, <3>1, <4>1
      <3>2. \A i \in DOMAIN rules : rules[i].name = n => PassOf(rules[i]) = pass
        BY <2>4
      <3> QED
        BY <3>1, <3>2 DEF Evaluated
    <2>6. BaselineOk(b) /\ Grown(b) /\ spoiled[n] = b.lastAnomalous
      BY <1>1, <2>5 DEF LearnInv
    <2>7. PICK a : a = Assessed(r)
      OBVIOUS
    <2>8. a = Assess(r, b, Snapshot, uptime >= WindowTicks[Window])
      BY <2>7 DEF Assessed
    <2>9. a.reading = NoReading => t = 0
      BY <1>3, <2>7 DEF Tier, MatchedTier, Observed
    <2>10. PICK p : p = Settle(r, a, t # 0)
      OBVIOUS
    <2> HIDE DEF b, t
    <2>11. BaselineOk(p) /\ p.lastAnomalous = IF t # 0 THEN 0
                                  ELSE IF b.shape # Shape(r) THEN Never ELSE b.lastAnomalous
      <3>1. PICK warm : warm = (uptime >= WindowTicks[Window])
        OBVIOUS
      <3>2. PICK s, old, tier : s = Snapshot /\ old = b /\ tier = t
        OBVIOUS
      <3>3. a = Assess(r, old, s, warm)
        BY <2>8, <3>1, <3>2
      <3>4. a.reading = NoReading => tier = 0
        BY <2>9, <3>2
      <3>5. BaselineOk(old) /\ Grown(old)
        BY <2>6, <3>2
      <3>6. p = SettleTier(r, a, tier)
        BY <2>10, <3>2 DEF SettleTier
      <3>7. BaselineOk(p) /\ p.lastAnomalous = SpoiledAfter(r, old, tier)
        BY <2>4, <3>3, <3>4, <3>5, <3>6, SettledIs
      <3> QED
        BY <3>2, <3>7 DEF SpoiledAfter
    <2>12. /\ baselines' = [baselines EXCEPT ![n] = p]
           /\ spoiled' = [spoiled EXCEPT ![n] = IF t # 0 THEN 0
                            ELSE IF b.shape # Shape(r) THEN Never ELSE spoiled[n]]
      BY <1>3, <2>7, <2>10 DEF Learn, b, t
    <2> HIDE DEF n
    <2>13. /\ baselines'[n] = p /\ \A m \in RuleNames \ {n} : baselines'[m] = baselines[m]
           /\ spoiled'[n] = p.lastAnomalous /\ \A m \in RuleNames \ {n} : spoiled'[m] = spoiled[m]
      BY <1>1, <2>6, <2>11, <2>12 DEF n
    <2>14. BaselinesOk'
      <3>1. /\ baselines' = [m \in RuleNames |-> baselines'[m]]
            /\ spoiled' = [m \in RuleNames |-> spoiled'[m]]
        BY <1>1, <2>12
      <3>2. \A m \in RuleNames : BaselineOk(baselines'[m]) /\ spoiled'[m] = baselines'[m].lastAnomalous
        BY <1>1, <2>11, <2>13
      <3> QED
        BY <3>1, <3>2, BaselinesNext
    <2> QED
      BY <2>3, <2>4, <2>13, <2>14 DEF n
  <1> QED
    BY <1>2, <1>3 DEF Learn

LEMMA TypesNext ==
  ASSUME loaded' \in AcceptedFiles, next' \in Nat, passes' \subseteq DOMAIN Turn,
         pc' = "rule" => pass' \in DOMAIN Turn /\ pass'[1] \in DOMAIN WindowTicks /\ pass' \notin passes'
  PROVE  TickTypes'
  BY DEF TickTypes, AcceptedFiles, Turn

(* Steps of a tick that evaluate no rule. *)
LEMMA NothingLearnt ==
  ASSUME LearnInv, UNCHANGED <<baselines, spoiled, loaded>>, TickTypes',
         \A n \in RuleNames : Evaluated(n) => Evaluated(n)'
  PROVE  LearnInv'
  <1>1. BaselinesOk'
    BY BaselinesKept DEF LearnInv
  <1>2. \A n \in RuleNames : (Grown(baselines[n]) \/ Evaluated(n))'
    BY DEF LearnInv, Grown
  <1> QED
    BY <1>1, <1>2 DEF LearnInv

LEMMA PassBeginLearns ==
  ASSUME LearnInv, PassBegin
  PROVE  LearnInv'
  <1>1. TickTypes /\ pc = "pass" /\ passes # {} /\ Earliest[1] \in DOMAIN WindowTicks
        /\ passes' = passes \ {Earliest} /\ UNCHANGED <<baselines, spoiled, loaded>>
    BY DEF LearnInv, PassBegin, fileVars, engineVars, outVars
  <1>2. Earliest \in passes /\ Earliest \in DOMAIN Turn /\ Earliest \notin passes'
    BY <1>1, EarliestIs DEF TickTypes
  <1>3. CASE UNCHANGED <<pc, pass, next>>
    <2>1. TickTypes'
      BY <1>1, <1>3, TypesNext DEF TickTypes
    <2>2. \A n \in RuleNames : Evaluated(n) => Evaluated(n)'
      BY <1>1, <1>3 DEF Evaluated, rules
    <2> QED
      BY <1>1, <2>1, <2>2, NothingLearnt
  <1>4. CASE pc' = "rule" /\ pass' = Earliest /\ next' = 1
    <2>1. TickTypes'
      BY <1>1, <1>2, <1>4, TypesNext DEF TickTypes
    <2>2. \A n \in RuleNames : Evaluated(n) => Evaluated(n)'
      BY <1>1, <1>2, <1>4 DEF Evaluated, rules
    <2> QED
      BY <1>1, <2>1, <2>2, NothingLearnt
  <1> QED
    BY <1>3, <1>4 DEF PassBegin

LEMMA PassEndLearns ==
  ASSUME LearnInv, PassEnd
  PROVE  LearnInv'
  <1>1. /\ TickTypes /\ pc = "rule" /\ Due = {} /\ pc' = "pass"
        /\ UNCHANGED <<passes, next, baselines, spoiled, loaded>>
    BY DEF LearnInv, PassEnd, fileVars, engineVars, outVars
  <1>2. TickTypes'
    BY <1>1, TypesNext DEF TickTypes
  <1>3. \A n \in RuleNames : Evaluated(n) => Evaluated(n)'
    BY <1>1 DEF Evaluated, rules
  <1> QED
    BY <1>1, <1>2, <1>3, NothingLearnt

LEMMA EvaluateRuleLearns ==
  ASSUME LearnInv, EvaluateRule
  PROVE  LearnInv'
  <1>1. /\ TickTypes /\ pc = "rule" /\ Due # {} /\ Learn(Rule)
        /\ next' = 1 + CHOOSE i \in Due : rules[i] = Rule
        /\ UNCHANGED <<pc, passes, pass, loaded>>
    BY DEF LearnInv, EvaluateRule, fileVars
  <1>2. PICK k \in Due : /\ Rule = rules[k] /\ k \in Nat /\ k >= next
                         /\ \A i \in DOMAIN rules : rules[i].name = rules[k].name => i = k
    BY <1>1, RuleIs
  <1>3. PICK r : r = rules[k]
    OBVIOUS
  <1>4. Due \subseteq DOMAIN rules
    BY DEF Due
  <1>5. next' = k + 1
    <2>1. PICK c : c = CHOOSE i \in Due : rules[i] = Rule
      OBVIOUS
    <2>2. c \in Due /\ rules[c] = Rule
      BY <1>2, <2>1
    <2>3. c = k
      BY <1>2, <1>4, <2>2
    <2>4. next' = 1 + c
      <3>1. next' = 1 + CHOOSE i \in Due : rules[i] = Rule
        BY <1>1
      <3> QED
        BY <2>1, <3>1, Zenon
    <2>5. k \in Nat
      BY <1>2
    <2> QED
      BY <2>3, <2>4, <2>5
  <1>6. r.name \in RuleNames
    BY <1>1, <1>2, <1>3, <1>4, RuleFileAssumption DEF TickTypes, rules, Names
  <1>7. /\ BaselinesOk'
        /\ \A n \in RuleNames : \/ baselines'[n] = baselines[n]
                                \/ n = r.name /\ PassOf(r) \notin passes
    BY <1>1, <1>2, <1>3, <1>6, LearnsStep
  <1>8. TickTypes'
    BY <1>1, <1>2, <1>5, TypesNext DEF TickTypes
  <1>9. rules' = rules
    BY <1>1 DEF rules
  <1>10. next \in Nat
    BY <1>1 DEF TickTypes
  <1>11. \A n \in RuleNames : Evaluated(n) => Evaluated(n)'
    <2>1. ASSUME NEW n \in RuleNames, Evaluated(n) PROVE Evaluated(n)'
      <3>1. PICK i \in DOMAIN rules : /\ rules[i].name = n /\ PassOf(rules[i]) \notin passes
                                      /\ PassOf(rules[i]) = pass => i < next
        BY <1>1, <2>1 DEF Evaluated
      <3>2. PassOf(rules[i]) = pass => i < next'
        <4>1. i \in Nat
          BY <1>1, RuleFileAssumption DEF TickTypes, rules
        <4> QED
          BY <1>2, <1>5, <1>10, <3>1, <4>1
      <3> QED
        BY <1>1, <1>9, <3>1, <3>2 DEF Evaluated, PassOf
    <2> QED
      BY <2>1
  <1>12. ASSUME NEW n \in RuleNames PROVE (Grown(baselines[n]) \/ Evaluated(n))'
    <2>1. CASE baselines'[n] = baselines[n]
      BY <1>11, <2>1 DEF LearnInv, Grown
    <2>2. CASE n = r.name /\ PassOf(r) \notin passes
      <3>1. k \in DOMAIN rules /\ rules[k].name = n /\ PassOf(rules[k]) \notin passes /\ k < next'
        BY <1>2, <1>3, <1>4, <1>5, <2>2
      <3> QED
        BY <1>1, <1>9, <3>1 DEF Evaluated, PassOf
    <2> QED
      BY <1>7, <2>1, <2>2
  <1> QED
    BY <1>7, <1>8, <1>12 DEF LearnInv

(* The sleep: every sample is older than the tick that comes. *)
LEMMA ElapseLearns ==
  ASSUME LearnInv, Elapse(states, baselines, spoiled), UNCHANGED loaded, next' \in Nat,
         pc' = "idle", passes' \subseteq DOMAIN Turn
  PROVE  LearnInv'
  <1>1. \A n \in RuleNames : BaselineOk(baselines[n]) /\ spoiled[n] = baselines[n].lastAnomalous
    BY DEF LearnInv, BaselinesOk
  <1>2. /\ baselines' = [n \in RuleNames |-> Aged(baselines[n])]
        /\ spoiled' = [n \in RuleNames |-> Older(spoiled[n])]
    BY DEF Elapse
  <1>3. \A n \in RuleNames : /\ BaselineOk(baselines'[n]) /\ Grown(baselines'[n])
                             /\ spoiled'[n] = baselines'[n].lastAnomalous
    BY <1>1, <1>2, AgedIs
  <1>4. /\ baselines' = [n \in RuleNames |-> baselines'[n]]
        /\ spoiled' = [n \in RuleNames |-> spoiled'[n]]
    BY <1>2
  <1>5. BaselinesOk'
    BY <1>3, <1>4, BaselinesNext
  <1>6. TickTypes'
    BY TypesNext DEF LearnInv, TickTypes
  <1>7. \A n \in RuleNames : Grown(baselines[n])'
    BY <1>3 DEF Grown
  <1> QED
    BY <1>5, <1>6, <1>7 DEF LearnInv

LEMMA NoBaselineOk == BaselineOk(NoBaseline) /\ Grown(NoBaseline) /\ NoBaseline.lastAnomalous = Never
  <1>1. /\ BaseFields \subseteq DOMAIN NoBaseline /\ NoBaseline.history = <<>>
        /\ NoBaseline.pending = <<>> /\ NoBaseline.lastAnomalous = Never
    BY DEF NoBaseline, BaseFields
  <1> QED
    BY <1>1, EmptyOk

(* A tick begins with no sample of now; a reload forgets the baselines of the
   rules that are gone. *)
LEMMA TickBeginLearns ==
  ASSUME LearnInv, NEW t, TickBegin(t)
  PROVE  LearnInv'
  <1>1. /\ pc = "idle" /\ pc' = "pass" /\ next' = 1 /\ passes' = PassesOf[loaded']
        /\ LastKnownGood \/ (disk \in AcceptedFiles /\ ApplyRules(RulesOf[disk]))
    BY DEF TickBegin
  <1>2. \A n \in RuleNames : /\ BaselineOk(baselines[n]) /\ Grown(baselines[n])
                             /\ spoiled[n] = baselines[n].lastAnomalous
    BY <1>1 DEF LearnInv, BaselinesOk, Evaluated
  <1>3. loaded' \in AcceptedFiles
    BY <1>1 DEF LearnInv, TickTypes, LastKnownGood, ApplyRules
  <1>4. TickTypes'
    BY <1>1, <1>3, PassesIs, TypesNext
  <1>5. /\ baselines' = [n \in RuleNames |-> baselines'[n]]
        /\ spoiled' = [n \in RuleNames |-> spoiled'[n]]
        /\ \A n \in RuleNames :
             \/ baselines'[n] = baselines[n] /\ spoiled'[n] = spoiled[n]
             \/ baselines'[n] = NoBaseline /\ spoiled'[n] = Never
    <2>1. CASE LastKnownGood
      BY <2>1 DEF LastKnownGood, LearnInv, BaselinesOk
    <2>2. CASE ApplyRules(RulesOf[disk])
      BY <2>2 DEF ApplyRules
    <2> QED
      BY <1>1, <2>1, <2>2
  <1>6. \A n \in RuleNames : /\ BaselineOk(baselines'[n]) /\ Grown(baselines'[n])
                             /\ spoiled'[n] = baselines'[n].lastAnomalous
    BY <1>2, <1>5, NoBaselineOk
  <1>7. BaselinesOk'
    BY <1>5, <1>6, BaselinesNext
  <1>8. \A n \in RuleNames : Grown(baselines[n])'
    BY <1>6 DEF Grown
  <1> QED
    BY <1>4, <1>7, <1>8 DEF LearnInv

LEMMA TickLearns ==
  ASSUME LearnInv, Tick
  PROVE  LearnInv'
  <1>1. next \in Nat /\ passes \subseteq DOMAIN Turn
    BY DEF LearnInv, TickTypes
  <1>2. CASE \E t \in DOMAIN Telemetry : TickBegin(t)
    BY <1>2, TickBeginLearns
  <1>3. CASE TickCannotRead
    BY <1>1, <1>3, ElapseLearns DEF TickCannotRead, tickVars
  <1>4. CASE PassBegin
    BY <1>4, PassBeginLearns
  <1>5. CASE EvaluateRule
    BY <1>5, EvaluateRuleLearns
  <1>6. CASE PassEnd
    BY <1>6, PassEndLearns
  <1>7. CASE TickEnd
    BY <1>1, <1>7, ElapseLearns DEF TickEnd, fileVars
  <1>8. CASE TickRaises
    BY <1>1, <1>8, ElapseLearns DEF TickRaises, fileVars
  <1> QED
    BY <1>2, <1>3, <1>4, <1>5, <1>6, <1>7, <1>8 DEF Tick

(* Steps between two ticks. *)
LEMMA LearnFrame ==
  ASSUME LearnInv, UNCHANGED <<baselines, spoiled, loaded, passes, pass, next>>,
         pc' = pc \/ (pc = "boot" /\ pc' = "idle")
  PROVE  LearnInv'
  <1>1. TickTypes'
    BY TypesNext DEF LearnInv, TickTypes
  <1>2. \A n \in RuleNames : Evaluated(n) => Evaluated(n)'
    BY DEF Evaluated, rules
  <1> QED
    BY <1>1, <1>2, NothingLearnt

LEMMA LearnStep ==
  ASSUME LearnInv, [Next]_vars
  PROVE  LearnInv'
  <1>1. CASE \E f \in DOMAIN RuleFileSet : Edit(f)
    BY <1>1, LearnFrame DEF Edit, engineVars, tickVars, outVars
  <1>2. CASE RequestReload
    BY <1>2, LearnFrame DEF RequestReload, engineVars, tickVars, outVars
  <1>3. CASE BuildReloader
    BY <1>3, LearnFrame DEF BuildReloader, engineVars, outVars
  <1>4. CASE \E r \in Maintained : SilenceBegins(r) \/ SilenceEnds(r)
    BY <1>4, LearnFrame DEF SilenceBegins, SilenceEnds, fileVars, engineVars, tickVars, outVars
  <1>5. CASE Tick
    BY <1>5, TickLearns
  <1>6. CASE UNCHANGED vars
    BY <1>6, LearnFrame DEF vars, fileVars, engineVars, tickVars, outVars
  <1> QED
    BY <1>1, <1>2, <1>3, <1>4, <1>5, <1>6 DEF Next

LEMMA LearnAtFirst ==
  ASSUME Init
  PROVE  LearnInv
  <1>1. /\ baselines = [n \in RuleNames |-> NoBaseline] /\ spoiled = [n \in RuleNames |-> Never]
        /\ loaded \in AcceptedFiles /\ pc = "boot" /\ passes = {} /\ next = 1
    BY DEF Init
  <1>2. \A n \in RuleNames : BaselineOk(baselines[n]) /\ Grown(baselines[n])
                             /\ spoiled[n] = baselines[n].lastAnomalous
    BY <1>1, NoBaselineOk
  <1>3. BaselinesOk
    BY <1>1, <1>2 DEF BaselinesOk
  <1>4. TickTypes
    BY <1>1 DEF TickTypes
  <1> QED
    BY <1>2, <1>3, <1>4 DEF LearnInv

(* Whatever is edited, reloaded, found or lost to an exception, and whatever the
   windows and the lengths of baselines: the samples an anomaly rule compares
   with come from windows that do not overlap, and none of a window that still
   held part of a window the rule found anomalous. *)
THEOREM SamplesAreSound == Spec => []BaselineSound
  <1>1. Init => LearnInv
    BY LearnAtFirst
  <1>2. LearnInv /\ [Next]_vars => LearnInv'
    BY LearnStep
  <1>3. LearnInv => BaselineSound
    BY SoundBaselines DEF LearnInv
  <1> QED
    BY <1>1, <1>2, <1>3, PTL DEF Spec
=============================================================================
