----------------------------- MODULE AgentHealth -----------------------------
(***************************************************************************)
(* What the backend says of the agents and of itself: the registry of the  *)
(* heartbeats, the health API, readiness, and the gauges of /metrics, which *)
(* overlapping scrapes rebuild one label at a time.                        *)
(***************************************************************************)
EXTENDS Integers, Sequences, FiniteSets, SequencesExt, FiniteSetsExt, Functions

CONSTANTS
  Agents,              \* agents, in the order of their names
  SentLag,             \* how much older a heartbeat may be than its arrival
  Statuses, FileLags,  \* what a heartbeat reports: its status, the lags of its files
  Missing,             \* missing_threshold
  WarmupWindow,
  Scrapers,            \* threads that serve /metrics
  AgentsUntil, MaxBeats, MaxScrapes   \* bounds

VARIABLES
  agentClock,
  enrolled,      \* [agent -> record], of the agents known
  hasData,       \* a snapshot was merged, ever
  scrapeLock, scrape, gauges, exposed,   \* holder; [thread -> its scrape]; gauges; last texts
  asking, listed,  \* the health API: the time a request was taken at, its answer
  beatsOf,         \* history: [agent -> arrivals and ages of its heartbeats]
  beatCount, scrapes

agentVars == <<agentClock, enrolled, hasData, scrapeLock, scrape, gauges, exposed, asking, listed,
               beatsOf, beatCount, scrapes>>
observers == <<scrapeLock, scrape, gauges, exposed, asking, listed, scrapes>>

Never == -1
NotAsking == -1
NoScrape == [phase |-> "idle", at |-> 0, left |-> <<>>, records |-> <<>>]
NotTold == [at |-> Never, beatsOf |-> <<>>, agents |-> <<>>, counts |-> <<>>]

AgentInit ==
  /\ agentClock = 0 /\ enrolled = <<>> /\ hasData = FALSE
  /\ scrapeLock = "free" /\ scrape = [t \in Scrapers |-> NoScrape]
  /\ gauges = [known |-> 0, ages |-> <<>>] /\ exposed = [t \in Scrapers |-> <<>>]
  /\ asking = NotAsking /\ listed = NotTold
  /\ beatsOf = [a \in ToSet(Agents) |-> <<>>] /\ beatCount = 0 /\ scrapes = 0

-----------------------------------------------------------------------------

(* record_heartbeat: the arrival always counts, the document only when it is
   not older than the one held. *)
First(a, beat) == [firstSeen |-> agentClock, received |-> agentClock, beat |-> beat]
Again(record, beat) ==
  [record EXCEPT !.received = agentClock, !.beat = IF beat.sent >= @.sent THEN beat ELSE @]
Heartbeat(a, beat) ==
  /\ beatCount < MaxBeats /\ beatCount' = beatCount + 1
  /\ enrolled' = [x \in DOMAIN enrolled \cup {a} |->
                    IF x # a THEN enrolled[x]
                    ELSE IF a \in DOMAIN enrolled THEN Again(enrolled[a], beat) ELSE First(a, beat)]
  /\ beatsOf' = [beatsOf EXCEPT ![a] = Append(@, [at |-> agentClock, beat |-> beat])]
  /\ UNCHANGED <<agentClock, hasData, observers>>
(* remove: the agent is decommissioned. *)
Decommission(a) ==
  /\ a \in DOMAIN enrolled /\ enrolled' = Restrict(enrolled, DOMAIN enrolled \ {a})
  /\ beatsOf' = [beatsOf EXCEPT ![a] = <<>>]
  /\ UNCHANGED <<agentClock, hasData, observers, beatCount>>

Age(record, at) == Max({0, at - record.received})
Stale(record, at) == Age(record, at) > Missing
StatusOf(record, at) == IF Stale(record, at) THEN "missing" ELSE record.beat.status

(* The health API: the time is taken first, the registry read after it. *)
StatusNames == Statuses \cup {"missing"}
WorstLag(lags) == IF lags = {} THEN Never ELSE Max(lags)
Detail(record, at) ==
  [status |-> StatusOf(record, at), age |-> Age(record, at), reported |-> record.beat.status,
   lag |-> WorstLag(record.beat.lags), firstSeen |-> record.firstSeen]
AskAgents ==
  /\ asking = NotAsking /\ listed = NotTold /\ asking' = agentClock
  /\ UNCHANGED <<agentClock, enrolled, hasData, scrapeLock, scrape, gauges, exposed, listed,
                 beatsOf, beatCount, scrapes>>
ListAgents ==
  /\ asking # NotAsking /\ asking' = NotAsking
  /\ LET details == [a \in DOMAIN enrolled |-> Detail(enrolled[a], asking)]
         tally(s) == Cardinality({a \in DOMAIN details : details[a].status = s})
     IN listed' = [at |-> asking, beatsOf |-> beatsOf, agents |-> details,
                   counts |-> [s \in StatusNames |-> tally(s)]]
  /\ UNCHANGED <<agentClock, enrolled, hasData, scrapeLock, scrape, gauges, exposed, beatsOf,
                 beatCount, scrapes>>

-----------------------------------------------------------------------------

(* Readiness: some data, ever, and the warm-up window since the start. *)
MergeFirst ==
  /\ ~hasData /\ hasData' = TRUE
  /\ UNCHANGED <<agentClock, enrolled, observers, beatsOf, beatCount>>
Ready == hasData /\ agentClock >= WarmupWindow

-----------------------------------------------------------------------------

(* exposition, under the lock of the scrapes: the labels are cleared, set again
   one agent after the other, and the text written. *)
Phase(t, phase) == scrape[t].phase = phase
others == <<agentClock, enrolled, hasData, asking, listed, beatsOf, beatCount>>
Clear(t) ==
  /\ Phase(t, "idle") /\ scrapeLock = "free" /\ scrapeLock' = t
  /\ scrapes < MaxScrapes /\ scrapes' = scrapes + 1
  /\ scrape' = [scrape EXCEPT ![t] =
       [phase |-> "labels", at |-> agentClock, records |-> enrolled,
        left |-> SelectSeq(Agents, LAMBDA a : a \in DOMAIN enrolled)]]
  /\ gauges' = [gauges EXCEPT !.ages = <<>>]
  /\ UNCHANGED <<others, exposed>>
Label(t) ==
  /\ Phase(t, "labels") /\ scrape[t].left # <<>>
  /\ LET a == scrape[t].left[1] IN
     gauges' = [gauges EXCEPT !.ages = [x \in DOMAIN @ \cup {a} |->
                  IF x = a THEN Age(scrape[t].records[a], scrape[t].at) ELSE @[x]]]
  /\ scrape' = [scrape EXCEPT ![t].left = Tail(@)]
  /\ UNCHANGED <<others, scrapeLock, exposed, scrapes>>
SetKnown(t) ==
  /\ Phase(t, "labels") /\ scrape[t].left = <<>>
  /\ gauges' = [gauges EXCEPT !.known = Cardinality(DOMAIN scrape[t].records)]
  /\ scrape' = [scrape EXCEPT ![t].phase = "write"]
  /\ UNCHANGED <<others, scrapeLock, exposed, scrapes>>
Write(t) ==
  /\ Phase(t, "write")
  /\ exposed' = [exposed EXCEPT ![t] = <<[gauges |-> gauges, records |-> scrape[t].records,
                                          at |-> scrape[t].at, warming |-> ~Ready]>>]
  /\ scrape' = [scrape EXCEPT ![t] = NoScrape] /\ scrapeLock' = "free"
  /\ UNCHANGED <<others, gauges, scrapes>>

AgentTick ==
  /\ agentClock < AgentsUntil /\ agentClock' = agentClock + 1
  /\ UNCHANGED <<enrolled, hasData, observers, beatsOf, beatCount>>
AgentNext ==
  \/ \E a \in ToSet(Agents), lag \in 0 .. SentLag, s \in Statuses, lags \in FileLags :
       Heartbeat(a, [sent |-> agentClock - lag, status |-> s, lags |-> lags])
  \/ \E a \in ToSet(Agents) : Decommission(a)
  \/ AskAgents \/ ListAgents \/ MergeFirst
  \/ \E t \in Scrapers : Clear(t) \/ Label(t) \/ SetKnown(t) \/ Write(t)
  \/ AgentTick

-----------------------------------------------------------------------------

Beats(a) == {beatsOf[a][n].beat : n \in DOMAIN beatsOf[a]}

(* FR-ING-010: an agent is known by the newest document it sent since it was last
   removed, whatever order they arrived in, and alive by the last arrival. *)
NewestKept ==
  \A a \in DOMAIN enrolled :
    /\ enrolled[a].beat.sent = Max({b.sent : b \in Beats(a)})
    /\ enrolled[a].beat \in Beats(a)
    /\ enrolled[a].received = Last(beatsOf[a]).at /\ enrolled[a].firstSeen = beatsOf[a][1].at

(* An agent is told missing exactly when nothing arrived from it in the
   threshold before the request, also what arrived after the request began, and
   every agent is counted under the one status it is told. *)
ToldRight ==
  /\ \A a \in DOMAIN listed.agents :
       listed.agents[a].status = "missing" <=>
         \A n \in DOMAIN listed.beatsOf[a] : listed.at - listed.beatsOf[a][n].at > Missing
  /\ MapThenSumSet(LAMBDA s : listed.counts[s], DOMAIN listed.counts)
     = Cardinality(DOMAIN listed.agents)

(* A text of the gauges is of one moment: of the agents known then, each with its
   age then, however scrapes overlap; FR-QRY-005: what it once called ready stays so. *)
ScrapeWhole ==
  \A t \in Scrapers : \A n \in DOMAIN exposed[t] :
    LET text == exposed[t][n] IN
    /\ DOMAIN text.gauges.ages = DOMAIN text.records
    /\ text.gauges.known = Cardinality(DOMAIN text.records)
    /\ ~text.warming => Ready
    /\ \A a \in DOMAIN text.records : text.gauges.ages[a] = Age(text.records[a], text.at)

AgentsRight == NewestKept /\ ToldRight /\ ScrapeWhole

=============================================================================
