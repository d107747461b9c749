----------------------------- MODULE SeriesQuery -----------------------------
(***************************************************************************)
(* A query for a series over the buckets of several instances, and how     *)
(* complete it says it is.  The instances are listed, and of each the      *)
(* agents, the restarts, the steps and the total are read, every time under *)
(* the lock of the instance, while snapshots go on arriving.  The unit of  *)
(* time is a canonical bucket.                                             *)
(***************************************************************************)
EXTENDS Integers, Sequences, FiniteSets, SequencesExt, FiniteSetsExt, Functions

CONSTANTS
  Rows,          \* what arrives, in order: [instance, bucket, agent, restarted, amount]
  Applications,  \* [instance -> application]
  KnownAgents,   \* agents in the registry
  OldestValid,   \* the oldest bucket of retention
  Queries        \* [from, to, step, instance, application], "any" for no filter

VARIABLES
  shelves, buckets,   \* instances in the order they came; [instance -> [bucket -> what it holds]]
  silent,          \* agents whose heartbeat is stale
  rowsIn, query, readPhase, iterated, size,   \* the iteration over the instances
  toRead, sources, restarts, points, sums, result,
  bucketsBefore       \* history: what was buckets when the query came

seriesVars == <<shelves, buckets, silent, rowsIn, query, readPhase, iterated, size,
                toRead, sources, restarts, points, sums, result, bucketsBefore>>
answering == <<query, readPhase, iterated, size, toRead, sources, restarts, points, sums, result,
               bucketsBefore>>

NoQuery == [from |-> 0, to |-> 0, step |-> 1, instance |-> "any", application |-> "any"]
NoResult == [kind |-> "pending"]
Empty == [agents |-> {}, restarted |-> FALSE, count |-> 0]
Gap == -1

SeriesInit ==
  /\ shelves = <<>> /\ buckets = <<>> /\ silent = {} /\ rowsIn = 0
  /\ query = NoQuery /\ readPhase = "idle" /\ iterated = 0 /\ size = 0
  /\ toRead = <<>> /\ sources = {} /\ restarts = 0 /\ points = <<>> /\ sums = 0
  /\ result = NoResult /\ bucketsBefore = <<>>

-----------------------------------------------------------------------------

(* A snapshot is merged; one of a new instance makes its ring first. *)
Answering == readPhase # "done"
Bucket(h, i, b) == IF i \in DOMAIN h /\ b \in DOMAIN h[i] THEN h[i][b] ELSE Empty
Add(h, row) ==
  LET old == Bucket(h, row.instance, row.bucket)
      new == [agents |-> old.agents \cup {row.agent},
              restarted |-> old.restarted \/ row.restarted, count |-> old.count + row.amount]
      ring == IF row.instance \in DOMAIN h THEN h[row.instance] ELSE <<>>
  IN [i \in DOMAIN h \cup {row.instance} |->
        IF i # row.instance THEN h[i]
        ELSE [b \in DOMAIN ring \cup {row.bucket} |-> IF b = row.bucket THEN new ELSE ring[b]]]
MergeRow ==
  /\ Answering /\ rowsIn < Len(Rows) /\ rowsIn' = rowsIn + 1
  /\ LET row == Rows[rowsIn + 1] IN
     /\ buckets' = Add(buckets, row)
     /\ shelves' = IF row.instance \in ToSet(shelves) THEN shelves
                   ELSE Append(shelves, row.instance)
  /\ UNCHANGED <<silent, answering>>
GoesSilent(a) ==
  /\ Answering /\ a \notin silent /\ silent' = silent \cup {a}
  /\ UNCHANGED <<shelves, buckets, rowsIn, answering>>

(* list_instance_ids walks the dictionary itself: an instance that is added
   before it ends makes the next step raise. *)
AskSeries(q) ==
  /\ readPhase = "idle" /\ readPhase' = "instances" /\ query' = q
  /\ iterated' = 0 /\ size' = Len(shelves) /\ bucketsBefore' = buckets
  /\ UNCHANGED <<shelves, buckets, silent, rowsIn, toRead, sources, restarts, points, sums, result>>
Resident(i) == \E b \in DOMAIN buckets[i] : b >= OldestValid
Wanted(i) == query.application \in {"any", Applications[i]}
IterationBreaks ==
  /\ readPhase = "instances" /\ Len(shelves) # size
  /\ readPhase' = "done" /\ result' = [kind |-> "error"]
  /\ UNCHANGED <<shelves, buckets, silent, rowsIn, query, iterated, size, toRead, sources, restarts,
                 points, sums, bucketsBefore>>
ListInstance ==
  /\ readPhase = "instances" /\ Len(shelves) = size /\ iterated < size
  /\ iterated' = iterated + 1
  /\ LET i == shelves[iterated + 1] IN
     toRead' = IF Resident(i) /\ Wanted(i) THEN Append(toRead, i) ELSE toRead
  /\ UNCHANGED <<shelves, buckets, silent, rowsIn, query, readPhase, size, sources, restarts, points,
                 sums, result, bucketsBefore>>
(* _resolve_instances: the filter of the instance goes before the others. *)
Listed ==
  /\ readPhase = "instances" /\ Len(shelves) = size /\ iterated = size
  /\ readPhase' = "agents"
  /\ toRead' = IF query.instance = "any" THEN toRead ELSE <<query.instance>>
  /\ UNCHANGED <<shelves, buckets, silent, rowsIn, query, iterated, size, sources, restarts, points,
                 sums, result, bucketsBefore>>

-----------------------------------------------------------------------------

InSpan(i, from, to) == {b \in from .. to : i \in DOMAIN buckets /\ b \in DOMAIN buckets[i]}
CountIn(h, i, from, to) == MapThenSumSet(LAMBDA b : Bucket(h, i, b).count, from .. to)
reading == <<shelves, buckets, silent, rowsIn, query, iterated, size, bucketsBefore>>

ReadAgents ==
  /\ readPhase = "agents" /\ toRead # <<>> /\ readPhase' = "restarts"
  /\ sources' = sources \cup
       UNION {buckets[toRead[1]][b].agents : b \in InSpan(toRead[1], query.from, query.to)}
  /\ UNCHANGED <<reading, toRead, restarts, points, sums, result>>
ReadRestarts ==
  /\ readPhase = "restarts" /\ readPhase' = "steps"
  /\ restarts' = restarts +
       Cardinality({b \in InSpan(toRead[1], query.from, query.to) : buckets[toRead[1]][b].restarted})
  /\ UNCHANGED <<reading, toRead, sources, points, sums, result>>

(* read_series: steps aligned to their own length, each read by itself; a step
   without a bucket is a gap. *)
Aligned(t) == (t \div query.step) * query.step
Steps == {t \in Aligned(query.from) .. Aligned(query.to) : t % query.step = 0}
PointsOf(i) == {points[n].at : n \in {m \in DOMAIN points : points[m].instance = i}}
ReadStep ==
  /\ readPhase = "steps" /\ Steps \ PointsOf(toRead[1]) # {}
  /\ LET i == toRead[1] t == Min(Steps \ PointsOf(i)) end == t + query.step - 1 IN
     points' = Append(points, [instance |-> i, at |-> t, value |->
                 IF InSpan(i, t, end) = {} THEN Gap ELSE CountIn(buckets, i, t, end)])
  /\ UNCHANGED <<reading, readPhase, toRead, sources, restarts, sums, result>>
ReadTotal ==
  /\ readPhase = "steps" /\ Steps \subseteq PointsOf(toRead[1]) /\ readPhase' = "agents"
  /\ sums' = sums + CountIn(buckets, toRead[1], query.from, query.to)
  /\ toRead' = Tail(toRead)
  /\ UNCHANGED <<reading, sources, restarts, points, result>>

(* _build_data_completeness, of the registry as it is now. *)
Confidence ==
  IF sources = {} /\ KnownAgents # {} THEN "degraded"
  ELSE IF silent # {} \/ restarts > 0 THEN "partial" ELSE "complete"
Completed ==
  /\ readPhase = "agents" /\ toRead = <<>> /\ readPhase' = "done"
  /\ result' = [kind |-> "answer", total |-> sums, points |-> points, confidence |-> Confidence,
                reporting |-> Cardinality(sources), stale |-> silent]
  /\ UNCHANGED <<reading, toRead, sources, restarts, points, sums>>

SeriesNext ==
  \/ MergeRow \/ (\E a \in KnownAgents : GoesSilent(a)) \/ (\E q \in Queries : AskSeries(q))
  \/ IterationBreaks \/ ListInstance \/ Listed
  \/ ReadAgents \/ ReadRestarts \/ ReadStep \/ ReadTotal \/ Completed

-----------------------------------------------------------------------------

(* The instances a query is about, among those that are known. *)
About(h) == {i \in DOMAIN h :
               IF query.instance # "any" THEN i = query.instance
               ELSE /\ query.application \in {"any", Applications[i]}
                    /\ \E b \in DOMAIN h[i] : b >= OldestValid}
Asked == About(bucketsBefore)
AnsweredSeries == result.kind = "answer"
SumOver(h, from, to) == MapThenSumSet(LAMBDA i : CountIn(h, i, from, to), About(h))
PointsAt(i, t) == {n \in DOMAIN points : points[n].instance = i /\ points[n].at = t}
Told(i) == {n \in DOMAIN points : points[n].instance = i /\ points[n].value # Gap}

(* FR-QRY-009: the points of an instance are one for each step and hold each of
   its buckets once, those of the steps at both ends whole; the total holds those
   of the range - all that was there when the query came and nothing that is not
   there when it ends. *)
SeriesBetween ==
  AnsweredSeries =>
    /\ SumOver(bucketsBefore, query.from, query.to) <= result.total
    /\ result.total <= SumOver(buckets, query.from, query.to)
    /\ \A i \in Asked :
         LET from == Aligned(query.from) to == Aligned(query.to) + query.step - 1
             said == MapThenSumSet(LAMBDA n : points[n].value, Told(i)) IN
         /\ CountIn(bucketsBefore, i, from, to) <= said
         /\ said <= CountIn(buckets, i, from, to)
         /\ \A t \in Steps : Cardinality(PointsAt(i, t)) = 1

(* FR-QRY-015: an answer that calls itself complete has no silent agent and no
   bucket in which an agent had restarted when the query came. *)
CompleteMeansComplete ==
  AnsweredSeries /\ result.confidence = "complete" =>
    /\ result.stale = {}
    /\ \A i \in Asked, b \in query.from .. query.to : ~Bucket(bucketsBefore, i, b).restarted

(* A query is lost only to an instance that came while the instances were listed. *)
LostToNewcomer ==
  result.kind = "error" => ToSet(shelves) # DOMAIN bucketsBefore

SeriesRight == SeriesBetween /\ CompleteMeansComplete /\ LostToNewcomer

=============================================================================
