------------------------------ MODULE AgentUnits ------------------------------
(***************************************************************************)
(* The components of the agent that share no state with one another beyond *)
(* the events one hands to the next: each is explored by itself, in        *)
(* behaviours that are about that component alone.                         *)
(***************************************************************************)
EXTENDS AgentMetrics

CONSTANTS
  ParseWorkers, Kinds, Styles, MaxJoinLines, AutoLockAfter, MaxFed,
  Messages, AppLines, RejectPatterns, DynamicRules, MaxRejectLabels, MaxSignatureLabels,
  MaxComponents, MaxLinesRead,
  Sessions, SilenceAfter, NoNumber, SessionsUntil, MaxSeqNum, MaxHeard,
  Orders, Ttl, MaxEntries, MaxPlausible, OrderLag, Lead, OrdersUntil, MaxMessages,
  EventLimit, RateWindow, SampleEvery, CountBucket, AlertIds, AlertStates, AlertMemory,
  ReadLag, EmitUntil, MaxInputs,
  Files, RollingWindow, LagDegraded, ErrorPercentDegraded, ErrorPercentUnhealthy,
  HighWatermark, CriticalWatermark, Lags, Depths, Unmeasured, ReportLag,
  HealthUntil, MaxRecords, MaxHeartbeats,
  Alerts, RuleActions, ActionFiles, AllowedCommands, ActionQueueSize, SeenCapacity,
  MaxAttempts, MaxReloads

VARIABLES
  part,   \* the component a behaviour is about
  style, pending, locked, successes, fed, outcome, parsing,
  lineLog, totals, byReason, bySignature, byComponent, rejectLabels, signatureLabels, components,
  sessClock, lastSeen, timedOut, lastSeq, counted, met, heard,
  orderClock, open, stats, tracked, measured, messages,
  emitClock, rates, executions, countBucket, errorCounts, alertSent, sent, limited, routed,
  inputs, observed,
  healthClock, errors, lines, drops, parseSeen, dropSeen, connected, lastDepth, readLag,
  recorded, beats, said,
  told, seen, actions, acting, ran, catalogue, dispatchers, retired, built, reloads

Frames == INSTANCE FixFrames
Lines == INSTANCE FixEvents
Session == INSTANCE Sessions
Order == INSTANCE Correlator
Emitter == INSTANCE EventEmitter
Reporter == INSTANCE Health
Runner == INSTANCE ActionRunner

UnitsAssumption ==
  /\ Frames!FramesAssumption /\ Lines!EventsAssumption /\ Session!SessionsAssumption
  /\ Order!CorrelatorAssumption /\ Emitter!EmitterAssumption
  /\ Reporter!HealthAssumption /\ Runner!RunnerAssumption
ASSUME UnitsAssumption

AgentParts == {"frames", "lines", "sessions", "orders", "metrics", "emitter", "health", "actions"}

framesVars ==
  <<style, pending, locked, successes, fed, outcome, parsing>>
linesVars ==
  <<lineLog, totals, byReason, bySignature, byComponent, rejectLabels,
    signatureLabels, components>>
sessionsVars ==
  <<sessClock, lastSeen, timedOut, lastSeq, counted, met, heard>>
ordersVars ==
  <<orderClock, open, stats, tracked, measured, messages>>
emitterVars ==
  <<emitClock, rates, executions, countBucket, errorCounts, alertSent, sent,
    limited, routed, inputs, observed>>
healthVars ==
  <<healthClock, errors, lines, drops, parseSeen, dropSeen, connected,
    lastDepth, readLag, recorded, beats, said>>
actionsVars ==
  <<told, seen, actions, acting, ran, catalogue, dispatchers, retired, built,
    reloads>>
agentUnitsVars == <<part, framesVars, linesVars, sessionsVars, ordersVars, vars,
                    emitterVars, healthVars, actionsVars>>

(* What a component may start from is left open in its own behaviours only. *)
AgentUnitsInit ==
  /\ Frames!FramesInit /\ Lines!EventsInit /\ Session!SessInit /\ Order!CorrInit /\ Init
  /\ Emitter!EmitInit /\ Reporter!HealthInit /\ Runner!RunnerInit
  /\ part # "frames" => style = CHOOSE s \in Styles : TRUE
  /\ part # "actions" => catalogue = Runner!Parsed(CHOOSE f \in ActionFiles : Runner!Accepted(f))

AgentUnitsNext ==
  /\ UNCHANGED part
  /\ IF part = "frames" THEN Frames!FramesNext ELSE UNCHANGED framesVars
  /\ IF part = "lines" THEN Lines!EventsNext ELSE UNCHANGED linesVars
  /\ IF part = "sessions" THEN Session!SessNext ELSE UNCHANGED sessionsVars
  /\ IF part = "orders" THEN Order!CorrNext ELSE UNCHANGED ordersVars
  /\ IF part = "metrics" THEN Next ELSE UNCHANGED vars
  /\ IF part = "emitter" THEN Emitter!EmitNext ELSE UNCHANGED emitterVars
  /\ IF part = "health" THEN Reporter!HealthNext ELSE UNCHANGED healthVars
  /\ IF part = "actions" THEN Runner!RunnerNext ELSE UNCHANGED actionsVars
AgentUnitsSpec == AgentUnitsInit /\ [][AgentUnitsNext]_agentUnitsVars

-----------------------------------------------------------------------------

(* A line of the log ends as one thing: in one message or one error, under one
   name in each counter, and, for its session, in one gap and one silence. *)
LinesRight ==
  /\ part = "frames" => Frames!WholeIsFramed /\ Frames!LinesAccounted
  /\ part = "lines" => Lines!CountersAgree /\ Lines!LabelsWhole
  /\ part = "sessions" => Session!SilenceReportedOnce /\ Session!SequenceCounted

(* What the agent measures is published once and exactly: every wire bucket
   once, with the samples that came before it was taken, and at most one
   latency for each tracked request. *)
MetricsRight ==
  /\ part = "metrics" => RingSlots /\ SnapshotsExact /\ EveryBucketOnce
  /\ part = "orders" => Order!SampledOnce /\ Order!OpenAccounted

(* What the agent says of itself: events within their rate, of which each count
   is told, refused by the limit or still open, and heartbeats that report
   exactly the window that ends as they are built. *)
SignalsRight ==
  /\ part = "emitter" => Emitter!RateBounded /\ Emitter!ErrorsAccounted /\ Emitter!TransitionsOnce
  /\ part = "health" => Reporter!WindowExact

(* FR-CBK-016: an action runs for an alert at most as often as its rule names it -
   once, for a rule that names it once; a rule may repeat a name, and then it
   runs as often - and however the catalogue is replaced meanwhile, a callback
   runs with the definition in force. *)
ActionsRight == part = "actions" => Runner!ActionOnce /\ Runner!DispatchersCurrent

=============================================================================
