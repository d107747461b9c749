------------------------------ MODULE RuleEngine ------------------------------
(***************************************************************************)
(* The rule engine under its evaluator: every tick reloads the rules if    *)
(* the file changed, evaluates them over one snapshot per window and       *)
(* grouping, and routes the alerts that changed.  The loop over the rules  *)
(* is one step per rule, in which an exception ends the tick.              *)
(*                                                                         *)
(* Time is counted in evaluations.  `sent` is what the router was given    *)
(* last about each alert id.                                               *)
(***************************************************************************)
EXTENDS Baseline

CONSTANTS
  RuleNames,      \* every rule name a file may hold
  RuleFileSet,    \* the files an operator may write: [name -> file]
  Telemetry,      \* [name -> [groups: [<<window, grouping>> -> groups], gauges]]
  Calm,           \* the names in Telemetry that fire nothing
  StartupGrace, RenotifyInterval,   \* in evaluations; 0: never renotified
  ReloadCheck,    \* rules_reload_check, in evaluations; 0: SIGHUP only
  MaxActiveAlerts,
  WaitCap,        \* where ages of alerts stop: past every for, resolve_after and interval
  Ids, TickIds,   \* bound: alert ids the run may use, and what one tick may need of them;
                  \* a new alert waits for one that is left
  MaxCount,       \* bound: notifications of an alert before telemetry is calm
  StartFiles, Maintained, \* bounds: files at the start, rules a silence may cover
  MaxEdits, MaxSilences   \* bounds: edits of the file, silences begun

ASSUME RuleEngineAssumption ==
  /\ MaxActiveAlerts \in Nat \ {0} /\ WaitCap \in Nat /\ MaxCount \in Nat \ {0}
  /\ Calm \subseteq DOMAIN Telemetry /\ IsFiniteSet(RuleNames) /\ "AlertStorm" \notin RuleNames

VARIABLES
  disk, diskV,          \* the file and its modification time
  loadedV, seenV,       \* of the rules in force; of the last look of the reloader
  asked, sinceCheck,    \* _reload_requested; evaluations since the last look
  loaded,               \* the file RuleEngine._rules came from
  states,               \* RuleEngine._states: [RuleNames -> alert state]
  storm,                \* RuleEngine._storm_active
  baselines,            \* BaselineTracker._rules
  uptime,               \* evaluations since the start, up to AgeCap
  silenced, silences,   \* rules a silence covers now; silences begun
  pc, tele, passes, pass, next, dark, batch,   \* the tick under way: passes left, the one begun
  sent,                 \* what the router was given last: [Ids -> event]
  hushed,               \* ids with an event that was built and not routed
  spoiled               \* [RuleNames -> evaluations since a window was anomalous]

fileVars == <<disk, diskV, loadedV, seenV, asked, sinceCheck, loaded>>
engineVars == <<states, storm, baselines>>
envVars == <<uptime, silenced, silences>>
tickVars == <<pc, tele, passes, pass, next, dark, batch>>
outVars == <<sent, hushed, spoiled>>
vars == <<fileVars, engineVars, envVars, tickVars, outVars>>

Inactive == [status |-> "inactive", id |-> 0, severity |-> Absent,
             since |-> 0, notified |-> 0, count |-> 0]
Active == {r \in RuleNames : states[r].status \in {"firing", "resolving"}}
ActiveAlertCount == Cardinality(Active)

RulesOf == [f \in DOMAIN RuleFileSet |-> LoadRules(RuleFileSet[f])]
rules == RulesOf[loaded]
AcceptedFiles == {f \in DOMAIN RuleFileSet : Accepted(RuleFileSet[f])}
UnreadableFiles == {f \in DOMAIN RuleFileSet : Unreadable(RuleFileSet[f])}

NoEvent == [rule |-> Absent, status |-> "none", severity |-> Absent, count |-> 0]
Event(r, st, status, count) ==
  [rule |-> r, status |-> status, severity |-> st.severity, count |-> count]

UsedIds == {states[r].id : r \in RuleNames} \cup {i \in Ids : sent[i] # NoEvent}
           \cup {batch[k].id : k \in DOMAIN batch} \cup hushed
FreshIds == Ids \ UsedIds
FreshId == CHOOSE i \in FreshIds : \A j \in FreshIds : i <= j
OutOfIds == Cardinality(FreshIds) < TickIds
            \/ \E r \in RuleNames : states[r].count >= MaxCount

NoPass == <<Absent, Absent>>
Init ==
  /\ disk \in StartFiles \cap AcceptedFiles /\ loaded = disk
  /\ diskV = 1 /\ loadedV = 1 /\ seenV = 0 /\ asked = FALSE /\ sinceCheck = ReloadCheck
  /\ states = [r \in RuleNames |-> Inactive] /\ storm = FALSE
  /\ baselines = [r \in RuleNames |-> NoBaseline]
  /\ uptime = 0 /\ silenced = {} /\ silences = 0
  /\ pc = "boot" /\ tele = (CHOOSE t \in Calm : TRUE) /\ passes = {} /\ pass = NoPass /\ next = 1
  /\ dark = FALSE /\ batch = <<>>
  /\ sent = [i \in Ids |-> NoEvent] /\ hushed = {}
  /\ spoiled = [r \in RuleNames |-> Never]

-----------------------------------------------------------------------------
(* Outside the agent: the operator's editor, SIGHUP, maintenance windows. *)

Edit(f) ==
  /\ pc \in {"boot", "idle"} /\ f # disk /\ diskV <= MaxEdits
  /\ disk' = f /\ diskV' = diskV + 1
  /\ UNCHANGED <<loadedV, seenV, asked, sinceCheck, loaded, engineVars, envVars, tickVars, outVars>>

RequestReload ==
  /\ pc = "idle" /\ ~asked /\ asked' = TRUE
  /\ UNCHANGED <<disk, diskV, loadedV, seenV, sinceCheck, loaded, engineVars, envVars, tickVars, outVars>>

SilenceBegins(r) ==
  /\ pc = "idle" /\ silences < MaxSilences /\ r \notin silenced
  /\ silenced' = silenced \cup {r} /\ silences' = silences + 1
  /\ UNCHANGED <<uptime, fileVars, engineVars, tickVars, outVars>>
SilenceEnds(r) ==
  /\ pc = "idle" /\ r \in silenced /\ silenced' = silenced \ {r}
  /\ UNCHANGED <<uptime, silences, fileVars, engineVars, tickVars, outVars>>

(* The agent loads the rules with its configuration and builds the reloader
   later, which notes the file's time then. *)
BuildReloader ==
  /\ pc = "boot" /\ pc' = "idle" /\ seenV' = diskV
  /\ UNCHANGED <<disk, diskV, loadedV, asked, sinceCheck, loaded, engineVars, envVars, outVars,
                 tele, passes, pass, next, dark, batch>>

-----------------------------------------------------------------------------
(* The sleep between two ticks.  The time since the condition changed matters
   to a pending and a resolving alert only, the last notification to one that
   is renotified. *)

Waited(age) == IF age < WaitCap THEN age + 1 ELSE age
AgedPending(st) ==  \* mutant: the time of a resolving alert starts over with each tick
  [st EXCEPT !.since = IF st.status = "pending" THEN Waited(@) ELSE 0,
             !.notified = IF RenotifyInterval > 0 /\ st.count > 0 THEN Waited(@) ELSE 0]
AgedState(st) ==
  [st EXCEPT !.since = IF st.status \in {"pending", "resolving"} THEN Waited(@) ELSE 0,
             !.notified = IF RenotifyInterval > 0 /\ st.count > 0 THEN Waited(@) ELSE 0]
Elapse(st, bs, sp) ==
  /\ uptime' = Older(uptime)
  /\ states' = [r \in RuleNames |-> AgedState(st[r])]
  /\ baselines' = [r \in RuleNames |-> Aged(bs[r])]
  /\ spoiled' = [r \in RuleNames |-> Older(sp[r])]

-----------------------------------------------------------------------------
(* The reload at the head of a tick. *)

CheckDue == ReloadCheck > 0 /\ sinceCheck >= ReloadCheck
Looks == ~asked /\ CheckDue
ReloadsAsked == asked  \* mutant: the file's time is not looked at
Reloads == asked \/ (Looks /\ seenV # diskV)

Names(rs) == {rs[i].name : i \in DOMAIN rs}
ActiveNames(rs) == {rs[i].name : i \in {j \in DOMAIN rs : rs[j].state = "active"}}

(* What the files may be: a rule has one of the names and windows listed, and
   one of kind anomaly a window (validate_anomaly_rule). *)
ASSUME RuleFileAssumption ==
  /\ Ids \subseteq Nat
  /\ \A f \in AcceptedFiles :
       /\ DOMAIN RulesOf[f] \subseteq Nat /\ Names(RulesOf[f]) \subseteq RuleNames
       /\ \A i \in DOMAIN RulesOf[f] :
            /\ RulesOf[f][i].window \in ToSet(WindowNames) \cup {Absent}
            /\ RulesOf[f][i].kind = "anomaly" => RulesOf[f][i].window # Absent

(* apply_rules: a rule that is gone, or is a draft now, has its open alert
   resolved, whatever silence there is. *)
Dropped(rs) == {r \in RuleNames : states[r].status # "inactive"} \ ActiveNames(rs)
ClosingFiring(rs) ==  \* mutant: an alert about to resolve is forgotten
  {r \in Dropped(rs) : states[r].status = "firing"}
Closing(rs) == Dropped(rs) \cap Active
ResolvedByReload(rs) ==
  LET Resolved(r) == [id |-> states[r].id,
                      event |-> Event(r, states[r], "resolved", states[r].count + 1)]
  IN SetToSeq({Resolved(r) : r \in Closing(rs)})
ApplyRules(rs) ==
  /\ loaded' = disk /\ loadedV' = diskV
  /\ states' = [r \in RuleNames |-> IF r \in Dropped(rs) THEN Inactive ELSE states[r]]
  /\ baselines' = [r \in RuleNames |->
                     IF r \in ActiveNames(rs) THEN baselines[r] ELSE NoBaseline]
  /\ batch' = ResolvedByReload(rs)
  /\ spoiled' = [r \in RuleNames |-> IF r \in ActiveNames(rs) THEN spoiled[r] ELSE Never]

LastKnownGood == batch' = <<>> /\ UNCHANGED <<loaded, loadedV, states, baselines, spoiled>>

(* _evaluate: one pass per window that a rule names and per grouping, window
   by window in their order. *)
WindowsUsed(rs) ==
  LET used == {rs[i].window : i \in DOMAIN rs} \ {Absent}
  IN IF used = {} THEN {CHOOSE w \in DOMAIN WindowTicks : TRUE} ELSE used
GroupingsOf(rs, w) ==
  {Absent} \cup {GroupKey(rs[i]) : i \in {j \in DOMAIN rs : rs[j].window = w}}
Passes(rs) == UNION {{w} \X GroupingsOf(rs, w) : w \in WindowsUsed(rs)}

PassesOf == [f \in DOMAIN RuleFileSet |-> Passes(RulesOf[f])]

TickBegin(t) ==
  /\ pc = "idle"
  /\ OutOfIds => t \in Calm
  /\ tele' = t /\ pc' = "pass" /\ next' = 1
  /\ sinceCheck' = IF Looks THEN 1 ELSE IF sinceCheck < ReloadCheck THEN sinceCheck + 1 ELSE sinceCheck
  /\ asked' = FALSE
  /\ seenV' = IF Reloads THEN diskV ELSE seenV
  /\ ~(Reloads /\ disk \in UnreadableFiles)
  /\ IF Reloads /\ disk \in AcceptedFiles THEN ApplyRules(RulesOf[disk]) ELSE LastKnownGood
  /\ passes' = PassesOf[loaded']
  /\ UNCHANGED <<disk, diskV, storm, envVars, pass, dark, sent, hushed>>

(* Reading the file raises: the tick is over before it evaluated anything,
   and the file is not looked at again until it changes. *)
TickCannotRead ==
  /\ pc = "idle" /\ Reloads /\ disk \in UnreadableFiles
  /\ asked' = FALSE /\ seenV' = diskV /\ sinceCheck' = IF Looks THEN 1 ELSE sinceCheck
  /\ Elapse(states, baselines, spoiled)
  /\ UNCHANGED <<disk, diskV, loadedV, loaded, storm, silenced, silences, tickVars, sent, hushed>>

-----------------------------------------------------------------------------
(* evaluate(snapshot): one pass. *)

Groupings == <<Absent, "error_signature", "level">>
PlaceIn(s, x) == CHOOSE i \in DOMAIN s : s[i] = x
Turn == [p \in ToSet(WindowNames) \X ToSet(Groupings) |->
           Len(Groupings) * PlaceIn(WindowNames, p[1]) + PlaceIn(Groupings, p[2])]

Earliest == CHOOSE p \in passes : \A q \in passes : Turn[p] <= Turn[q]
Window == pass[1]
Snapshot == [window |-> Window, groupBy |-> pass[2],
             groups |-> Telemetry[tele].groups[pass], gauges |-> Telemetry[tele].gauges]

PassBegin ==
  /\ pc = "pass" /\ passes # {} /\ Earliest[1] \in DOMAIN WindowTicks
  /\ passes' = passes \ {Earliest}
  /\ IF uptime < StartupGrace
     THEN UNCHANGED <<pc, pass, next, dark>>
     ELSE /\ pc' = "rule" /\ pass' = Earliest /\ next' = 1
          /\ dark' = ("NoLogActivity" \in RuleNames /\ states["NoLogActivity"].status = "firing")
  /\ UNCHANGED <<fileVars, engineVars, envVars, tele, batch, outVars>>

InPass(r) ==
  /\ r.state = "active" /\ r.window \in {Absent, Window} /\ EvaluatesOn(r, Snapshot)
Due == {i \in DOMAIN rules : i >= next /\ InPass(rules[i])}
Rule == rules[CHOOSE i \in Due : \A j \in Due : i <= j]

PassEnd ==
  /\ pc = "rule" /\ Due = {}
  /\ pc' = "pass" /\ pass' = NoPass
  /\ UNCHANGED <<fileVars, engineVars, envVars, tele, passes, next, dark, batch, outVars>>

(* What the rule sees: nothing, when it depends on the logs and they are
   silent; an anomaly rule sees its deviation from the baseline. *)
Unseen(r) == dark /\ r.dependsOnLog /\ r.name # "NoLogActivity"
Assessed(r) == Assess(r, baselines[r.name], Snapshot, uptime >= WindowTicks[Window])
Observed(r) ==
  IF Unseen(r) THEN NoReading
  ELSE IF r.kind = "anomaly" THEN Assessed(r).reading ELSE ReadObserved(r, Snapshot)
Tier(r) == MatchedTier(r, Observed(r))
Severity(r) == r.tiers[Tier(r)].severity
Learn(r) ==
  IF r.kind # "anomaly" \/ Unseen(r) THEN UNCHANGED <<baselines, spoiled>>
  ELSE /\ baselines' = [baselines EXCEPT ![r.name] = Settle(r, Assessed(r), Tier(r) # 0)]
       /\ spoiled' = [spoiled EXCEPT ![r.name] =
            IF Tier(r) # 0 THEN 0
            ELSE IF baselines[r.name].shape # Shape(r) THEN Never ELSE @]

Was(r, status) == states[r.name].status = status
Become(r, st) == states' = [states EXCEPT ![r.name] = st]
State(r) == states[r.name]
SaysNothing == UNCHANGED <<batch, hushed>>
Says(id, e) == batch' = Append(batch, [id |-> id, event |-> e]) /\ UNCHANGED hushed
(* _build_event: a silence drops the event, the state has changed already. *)
Tells(r, st, status) ==
  IF r.name \in silenced THEN hushed' = hushed \cup {st.id} /\ UNCHANGED batch
  ELSE Says(st.id, Event(r.name, st, status, st.count))
NotifiedUncounted(st) == [st EXCEPT !.notified = 0]  \* mutant
Notified(st) == [st EXCEPT !.count = @ + 1, !.notified = 0]

(* _transition, by the status of the rule's alert. *)

Appears(r) ==
  /\ Was(r, "inactive") /\ Tier(r) # 0 /\ FreshIds # {} /\ SaysNothing /\ UNCHANGED storm
  /\ Become(r, [Inactive EXCEPT !.status = "pending", !.id = FreshId, !.severity = Severity(r)])

Quiet(r) ==
  /\ Was(r, "inactive") /\ Tier(r) = 0 /\ SaysNothing /\ UNCHANGED <<states, storm>>

Vanishes(r) ==
  /\ Was(r, "pending") /\ Tier(r) = 0 /\ Become(r, Inactive) /\ SaysNothing /\ UNCHANGED storm

Seen(r) == [State(r) EXCEPT !.severity = Severity(r)]
Waits(r) ==
  /\ Was(r, "pending") /\ Tier(r) # 0 /\ State(r).since < r.for
  /\ Become(r, Seen(r)) /\ SaysNothing /\ UNCHANGED storm

Ripe(r) == Was(r, "pending") /\ Tier(r) # 0 /\ State(r).since >= r.for
AtCapFiring ==  \* mutant: a resolving alert leaves its place
  Cardinality({s \in RuleNames : states[s].status = "firing"}) >= MaxActiveAlerts
AtCap == ActiveAlertCount >= MaxActiveAlerts

Fires(r) ==
  LET st == Notified([Seen(r) EXCEPT !.status = "firing", !.since = 0]) IN
  /\ Ripe(r) /\ ~AtCap /\ storm' = FALSE
  /\ Become(r, st) /\ Tells(r, st, "firing")

(* At the cap the alert stays pending; the first refusal is told, as an alert
   of its own that no silence covers and that is never resolved. *)
StormBreaks(r) ==
  /\ Ripe(r) /\ AtCap /\ ~storm /\ FreshIds # {} /\ storm' = TRUE /\ Become(r, Seen(r))
  /\ Says(FreshId, [rule |-> "AlertStorm", status |-> "firing", severity |-> "critical", count |-> 1])
HeldBack(r) ==
  /\ Ripe(r) /\ AtCap /\ storm /\ Become(r, Seen(r)) /\ SaysNothing /\ UNCHANGED storm

Clears(r) ==
  /\ Was(r, "firing") /\ Tier(r) = 0
  /\ Become(r, [State(r) EXCEPT !.status = "resolving", !.since = 0])
  /\ SaysNothing /\ UNCHANGED storm

Escalates(r) ==
  LET st == Notified(Seen(r)) IN
  /\ Was(r, "firing") /\ Tier(r) # 0 /\ Severity(r) # State(r).severity
  /\ Become(r, st) /\ Tells(r, st, "firing") /\ UNCHANGED storm

RenotifyDue(r) == RenotifyInterval > 0 /\ State(r).notified >= RenotifyInterval
Renotifies(r) ==
  LET st == Notified(State(r)) IN
  /\ Was(r, "firing") /\ Tier(r) # 0 /\ Severity(r) = State(r).severity /\ RenotifyDue(r)
  /\ Become(r, st) /\ Tells(r, st, "firing") /\ UNCHANGED storm
StaysFiring(r) ==
  /\ Was(r, "firing") /\ Tier(r) # 0 /\ Severity(r) = State(r).severity /\ ~RenotifyDue(r)
  /\ SaysNothing /\ UNCHANGED <<states, storm>>

FiresAgain(r) ==
  /\ Was(r, "resolving") /\ Tier(r) # 0
  /\ Become(r, [Seen(r) EXCEPT !.status = "firing", !.since = 0])
  /\ SaysNothing /\ UNCHANGED storm
StaysResolving(r) ==
  /\ Was(r, "resolving") /\ Tier(r) = 0 /\ State(r).since < r.resolveAfter
  /\ SaysNothing /\ UNCHANGED <<states, storm>>
Resolves(r) ==
  /\ Was(r, "resolving") /\ Tier(r) = 0 /\ State(r).since >= r.resolveAfter
  /\ Become(r, Inactive) /\ Tells(r, State(r), "resolved") /\ UNCHANGED storm

Transition(r) ==
  \/ Appears(r) \/ Quiet(r) \/ Vanishes(r) \/ Waits(r)
  \/ Fires(r) \/ StormBreaks(r) \/ HeldBack(r)
  \/ Clears(r) \/ Escalates(r) \/ Renotifies(r) \/ StaysFiring(r)
  \/ FiresAgain(r) \/ StaysResolving(r) \/ Resolves(r)

ReadFails == ~Unseen(Rule) /\ ReadRaises(Rule, Snapshot)

EvaluateRule ==
  /\ pc = "rule" /\ Due # {} /\ ~ReadFails
  /\ Learn(Rule) /\ Transition(Rule)
  /\ next' = 1 + CHOOSE i \in Due : rules[i] = Rule
  /\ UNCHANGED <<fileVars, envVars, pc, tele, passes, pass, dark, sent>>

-----------------------------------------------------------------------------
(* The end of the tick: the alerts are routed, or an exception loses them. *)

LastOf(i) == {k \in DOMAIN batch : batch[k].id = i
                /\ \A l \in DOMAIN batch : batch[l].id = i => l <= k}
TickEnd ==
  /\ pc = "pass" /\ passes = {} /\ pc' = "idle"
  /\ sent' = [i \in Ids |-> IF LastOf(i) = {} THEN sent[i]
                             ELSE batch[CHOOSE k \in LastOf(i) : TRUE].event]
  /\ batch' = <<>> /\ next' = 1 /\ dark' = FALSE
  /\ Elapse(states, baselines, spoiled)
  /\ UNCHANGED <<fileVars, storm, silenced, silences, tele, passes, pass, hushed>>

TickRaises ==
  /\ \/ pc = "pass" /\ passes # {} /\ Earliest[1] \notin DOMAIN WindowTicks
     \/ pc = "rule" /\ Due # {} /\ ReadFails
  /\ pc' = "idle" /\ hushed' = hushed \cup {batch[k].id : k \in DOMAIN batch}
  /\ passes' = {} /\ pass' = NoPass /\ batch' = <<>> /\ next' = 1 /\ dark' = FALSE
  /\ Elapse(states, baselines, spoiled)
  /\ UNCHANGED <<fileVars, storm, silenced, silences, tele, sent>>

Tick == (\E t \in DOMAIN Telemetry : TickBegin(t)) \/ TickCannotRead
        \/ PassBegin \/ EvaluateRule \/ PassEnd \/ TickEnd \/ TickRaises

Next ==
  \/ \E f \in DOMAIN RuleFileSet : Edit(f)
  \/ RequestReload \/ BuildReloader
  \/ \E r \in Maintained : SilenceBegins(r) \/ SilenceEnds(r)
  \/ Tick

Spec == Init /\ [][Next]_vars
(* run ticks for ever, whatever a tick does. *)
FairSpec == Spec /\ WF_vars(Tick) /\ WF_vars(BuildReloader)

-----------------------------------------------------------------------------
(* Properties. *)

(* FR-RUL-017: never more than max_active_alerts alerts fire or resolve at
   once, over reloads, flaps and storms (_fire is the only way in). *)
ActiveWithinCap == ActiveAlertCount <= MaxActiveAlerts

(* Between two ticks, what the router was told and what the engine holds
   agree: an alert told firing is one the engine still carries, under the same
   rule and with the same number of notifications, and each one it carries was
   told - unless a silence or a failed tick took one of the alert's events. *)
Open(i) == sent[i].status = "firing" /\ sent[i].rule # "AlertStorm"
ReceiverAgrees ==
  pc \in {"boot", "idle"} =>
    /\ \A i \in Ids \ hushed : Open(i) =>
         \E r \in Active : /\ states[r].id = i
                           /\ sent[i].rule = r /\ sent[i].count = states[r].count
    /\ \A r \in Active : Open(states[r].id) \/ states[r].id \in hushed

(* FR-RUL-011: the samples of a baseline come from windows that do not
   overlap, and none from a window that still held part of an anomaly. *)
Samples(b) == b.history \o b.pending
WindowOf(b) == WindowTicks[b.shape[2]]
BaselineSound ==
  \A r \in RuleNames :
    LET b == baselines[r]
        h == Samples(b)
    IN /\ \A i, j \in DOMAIN h : i < j => \/ h[i].age - h[j].age >= WindowOf(b)
                                          \/ h[i].age = AgeCap
       /\ \A i \in DOMAIN h : h[i].age <= spoiled[r] /\ spoiled[r] # Never
                              => spoiled[r] - h[i].age >= WindowOf(b)

(* FR-RUL-011/012: what is told about an alert only moves on: a resolved alert
   is never told again, and a firing one is told again with a higher count. *)
NotificationsAdvance ==
  [][\A i \in Ids : sent[i] # NoEvent /\ sent'[i] # sent[i] =>
       /\ sent[i].status = "firing" /\ sent'[i].rule = sent[i].rule
       /\ sent'[i].count > sent[i].count \/ sent'[i].status = "resolved"]_sent

(* FR-RUL-008: a change of the file that the reloader can see is in force in
   the end, or was refused. *)
EditsApplied ==
  (pc # "boot" /\ seenV # diskV /\ ReloadCheck > 0)
    ~> (loadedV = diskV \/ disk \notin AcceptedFiles)

(* FR-RUL-012: once the metrics stay calm every open alert is resolved,
   provided no silence falls on it and the rules, in force and on disk, can be
   read. *)
Readable(rs) ==
  \A i \in DOMAIN rs : rs[i].window \in {Absent} \cup DOMAIN WindowTicks
                       /\ (rs[i].kind = "rate" => rs[i].metric \in Indicators)
CalmCloses ==
  <>[](tele \in Calm /\ Readable(rules) /\ disk \notin UnreadableFiles) => <>[](\A i \in Ids : Open(i) => i \in hushed)

=============================================================================
