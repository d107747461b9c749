-------------------------------- MODULE Units --------------------------------
(***************************************************************************)
(* The agent's separate components, with those of the backend that share   *)
(* no state with one another: each is explored by itself, in behaviours    *)
(* that are about that component alone.                                    *)
(***************************************************************************)
EXTENDS AgentUnits

CONSTANTS
  Replicas, Peers, Arrivals, Requests, MaxGroups, MinSample,
  Reasons, Grain, TrendWindow, Nows, Threshold, SteadyBand, MinOccurrences, MaxRejects,
  Boundaries, Values, Recorders, Percents, MinCount, MaxValues,
  Day, Zone, Morning, MaxRange, DefaultLast, Questions, Fills, Providers, Failures,
  Ring, Points, MaxPoints, AlertNames, AskAt, NlUntil, MaxAsks,
  StoreEvents, StoreAlerts, EventsKept, RecentLimit, MaxTransitions, Listings, MaxStored,
  Agents, SentLag, Statuses, FileLags, Missing, WarmupWindow, Scrapers, AgentsUntil, MaxBeats, MaxScrapes,
  Rows, Applications, KnownAgents, OldestValid, Queries

VARIABLES
  arrived, request, reading, answers, response, startedAt, endedAt,
  askedAt, rejectCounts, oldest, rejects, current, previous, report, held,
  taken, histogram,
  nlClock, kept, openAlerts, provider, jsonMode, question, askedWhen, stage, posts,
  plan, wanted, caveats, source, span, baseSpan, answer, asks, rejectedAt, heldThen,
  eventsIn, alertsIn, firstUse, merged, listing, todo, found, tally, listPhase, shown,
  there, ever, moved, stored,
  agentClock, enrolled, hasData, scrapeLock, scrape, gauges, exposed, asking, listed, beatsOf,
  beatCount, scrapes,
  shelves, buckets, silent, rowsIn, query, readPhase, iterated, size,
  toRead, sources, restarts, points, sums, result, bucketsBefore

Query == INSTANCE MetricQuery
Trends == INSTANCE RejectTrends
Latency == INSTANCE Histograms
Nl == INSTANCE NlQuery
Store == INSTANCE StoreListing
Registry == INSTANCE AgentHealth
SeriesOf == INSTANCE SeriesQuery

Parts == AgentParts \cup {"query", "trends", "latency", "nl", "lists", "agents", "series"}

queryVars ==
  <<arrived, request, reading, answers, response, startedAt, endedAt>>
trendsVars ==
  <<askedAt, rejectCounts, oldest, rejects, current, previous, report, held>>
latencyVars == <<taken, histogram>>
nlVars ==
  <<nlClock, kept, openAlerts, provider, jsonMode, question, askedWhen, stage, posts,
    plan, wanted, caveats, source, span, baseSpan, answer, asks, rejectedAt, heldThen>>
listVars ==
  <<eventsIn, alertsIn, firstUse, merged, listing, todo, found, tally, listPhase, shown,
    there, ever, moved, stored>>
agentVars ==
  <<agentClock, enrolled, hasData, scrapeLock, scrape, gauges, exposed, asking, listed,
    beatsOf, beatCount, scrapes>>
seriesVars ==
  <<shelves, buckets, silent, rowsIn, query, readPhase, iterated, size,
    toRead, sources, restarts, points, sums, result, bucketsBefore>>

UnitsInit ==
  /\ part \in Parts /\ AgentUnitsInit
  /\ Query!QueryInit /\ Trends!TrendsInit /\ Latency!HistogramInit /\ Nl!NlInit
  /\ Store!ListInit /\ Registry!AgentInit /\ SeriesOf!SeriesInit
  /\ part # "trends" => askedAt = Min(Nows) /\ oldest = Min(Trends!Buckets)
  /\ part # "nl" => nlClock = Min(AskAt) /\ kept = {} /\ provider = CHOOSE p \in Providers : TRUE

UnitsNext ==
  /\ AgentUnitsNext
  /\ IF part = "query" THEN Query!QueryNext ELSE UNCHANGED queryVars
  /\ IF part = "trends" THEN Trends!TrendsNext ELSE UNCHANGED trendsVars
  /\ IF part = "latency" THEN Latency!HistogramNext ELSE UNCHANGED latencyVars
  /\ IF part = "nl" THEN Nl!NlNext ELSE UNCHANGED nlVars
  /\ IF part = "lists" THEN Store!ListNext ELSE UNCHANGED listVars
  /\ IF part = "agents" THEN Registry!AgentNext ELSE UNCHANGED agentVars
  /\ IF part = "series" THEN SeriesOf!SeriesNext ELSE UNCHANGED seriesVars
unitsVars == <<agentUnitsVars, queryVars, trendsVars, latencyVars, nlVars, listVars, agentVars, seriesVars>>
UnitsSpec == UnitsInit /\ [][UnitsNext]_unitsVars

-----------------------------------------------------------------------------

(* What the backend answers, from whichever replicas and buckets and whatever is
   stored meanwhile: groups that add up, trends of whole windows, percentiles of
   the values recorded, series that hold each bucket once, listings that show each
   item once, agents as they last spoke, and in words no more than was understood and read. *)
AnswersRight ==
  /\ part = "query" => Query!QueryRight
  /\ part = "trends" => Trends!TrendsWhole
  /\ part = "latency" => Latency!HistogramsMerge
  /\ part = "nl" => Nl!NlRight
  /\ part = "lists" => Store!ListingsRight
  /\ part = "agents" => Registry!AgentsRight
  /\ part = "series" => SeriesOf!SeriesRight

=============================================================================
