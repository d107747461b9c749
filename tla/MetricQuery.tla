----------------------------- MODULE MetricQuery -----------------------------
(***************************************************************************)
(* A metrics query over replicas.  The replica that is asked answers for   *)
(* itself, one instance after the other and while snapshots arrive, then   *)
(* asks its peers one after the other and merges what they answered.       *)
(*                                                                         *)
(* A row is what a snapshot adds: [instance, dims, counters].  A ratio is  *)
(* a percentage.                                                           *)
(***************************************************************************)
EXTENDS Integers, Sequences, FiniteSets, TLC, SequencesExt, FiniteSetsExt, Functions

CONSTANTS
  Replicas, Peers,    \* [replica -> instances it may hold]; the registry, in order
  Arrivals,           \* [replica -> the rows that arrive there, in order]
  Requests,           \* [metrics, groupBy, filters, topK (0: none)]
  MaxGroups, MinSample

VARIABLES
  arrived,     \* [replica -> rows arrived]
  request,     \* the request, NoRequest before it comes
  reading,     \* the replica that is answering, [replica, left, groups]
  answers,     \* [replica -> answer or how it failed]
  response,    \* what the client gets
  startedAt, endedAt   \* history: [replica -> rows there as its reading began, ended]

queryVars == <<arrived, request, reading, answers, response, startedAt, endedAt>>

None == -1
Other == "__other__"
NoRequest == [metrics |-> <<>>, groupBy |-> {}, filters |-> <<>>, topK |-> 0]
NoResponse == [status |-> "none"]
Local == CHOOSE r \in DOMAIN Replicas : r \notin ToSet(Peers)
Idle == [replica |-> "none", left |-> <<>>, groups |-> <<>>]
Metrics == {"orders_rejected", "orders_received"}
Zero == [m \in Metrics |-> 0]
Plus(c, d) == [m \in Metrics |-> c[m] + d[m]]
TotalOf(groups) == FoldFunction(Plus, Zero, groups)

QueryInit ==
  /\ arrived = [r \in DOMAIN Replicas |-> 0] /\ request = NoRequest /\ reading = Idle
  /\ answers = <<>> /\ response = NoResponse /\ startedAt = <<>> /\ endedAt = <<>>

Arrive(r) ==
  /\ arrived[r] < Len(Arrivals[r]) /\ arrived' = [arrived EXCEPT ![r] = @ + 1]
  /\ UNCHANGED <<request, reading, answers, response, startedAt, endedAt>>
RowsAt(r, n) == {Arrivals[r][j] @@ [number |-> j] : j \in 1 .. n}

(* MetricStore.read, grouped; _accumulate_group over the instances read. *)
KeyOf(row) == [d \in request.groupBy |->
                 IF d \in DOMAIN row.dims THEN row.dims[d] ELSE "unspecified"]
Accumulate(groups, rows) ==
  [k \in DOMAIN groups \cup {KeyOf(row) : row \in rows} |->
     Plus(IF k \in DOMAIN groups THEN groups[k] ELSE Zero,
          MapThenFoldSet(Plus, Zero, LAMBDA row : row.counters, LAMBDA s : CHOOSE x \in s : TRUE,
                         {row \in rows : KeyOf(row) = k}))]

(* _apply_dimension_filters works on groups: on what they are grouped by. *)
Matches(key) == \A d \in DOMAIN request.filters :
                  d \in DOMAIN key /\ key[d] \in request.filters[d]
Filtered(groups) == Restrict(groups, {k \in DOMAIN groups : Matches(k)})

(* compute_ratio: none below the sample size. *)
Percent(c) == IF c["orders_received"] < MinSample THEN None
              ELSE (100 * c["orders_rejected"]) \div c["orders_received"]

(* _apply_top_k, by the first metric requested; groups of one rank in any
   order.  The rest is folded into one row, which may look like a group that
   the agents' own caps have folded. *)
Rank(c) == LET m == request.metrics[1] IN
           IF m \in Metrics THEN c[m] ELSE IF Percent(c) = None THEN 0 ELSE Percent(c)
TopSets(groups) ==
  {top \in SUBSET DOMAIN groups :
     /\ Cardinality(top) = request.topK
     /\ \A k \in top, other \in DOMAIN groups \ top : Rank(groups[k]) >= Rank(groups[other])}
Remainder == [d \in {"reason"} |-> Other]
Fold(groups, top) ==
  [k \in top \cup {Remainder} |->
     Plus(IF k \in top THEN groups[k] ELSE Zero,
          IF k = Remainder THEN TotalOf(Restrict(groups, DOMAIN groups \ top)) ELSE Zero)]
Ranked(groups) ==
  IF request.topK = 0 \/ Cardinality(DOMAIN groups) <= request.topK THEN {groups}
  ELSE {Fold(groups, top) : top \in TopSets(groups)}

(* One replica's answer, ratios from its own sums. *)
Totals(c) == [m \in ToSet(request.metrics) |-> IF m \in Metrics THEN c[m] ELSE Percent(c)]
Answer(groups, shown) == [status |-> "ok", totals |-> Totals(TotalOf(groups)), groups |-> shown]

-----------------------------------------------------------------------------

Ask(q) ==
  /\ request = NoRequest /\ request' = q
  /\ reading' = [replica |-> Local, left |-> Replicas[Local], groups |-> <<>>]
  /\ startedAt' = (Local :> arrived[Local])
  /\ UNCHANGED <<arrived, answers, response, endedAt>>

(* One instance is read under its own lock. *)
ReadTwice(rows, instance) == {row \in rows : TRUE}  \* mutant: an instance is read with the others
ReadRows(rows, instance) == {row \in rows : row.instance = instance}
ReadInstance ==
  /\ reading.left # <<>>
  /\ reading' = [reading EXCEPT !.left = Tail(@), !.groups =
       Accumulate(@, ReadRows(RowsAt(reading.replica, arrived[reading.replica]), reading.left[1]))]
  /\ UNCHANGED <<arrived, request, answers, response, startedAt, endedAt>>
Answered ==
  LET r == reading.replica groups == Filtered(reading.groups) IN
  /\ r # "none" /\ reading.left = <<>>
  /\ \E shown \in Ranked(groups) :
       answers' = answers @@ (r :> IF Cardinality(DOMAIN shown) > MaxGroups THEN [status |-> "invalid"]
                                   ELSE Answer(groups, shown))
  /\ endedAt' = endedAt @@ (r :> arrived[r]) /\ reading' = Idle
  /\ UNCHANGED <<arrived, request, response, startedAt>>

(* The deadline of the query, at the asked replica: 504. *)
Ready == request # NoRequest /\ response = NoResponse
LocalFails == Local \in DOMAIN answers /\ answers[Local].status # "ok"
QueryTimeout ==
  /\ Ready /\ reading.replica = Local
  /\ answers' = answers @@ (Local :> [status |-> "timeout"]) /\ reading' = Idle
  /\ UNCHANGED <<arrived, request, response, startedAt, endedAt>>

(* The peers in turn: the next is asked when the one before it has answered,
   timed out, refused, or could not be reached. *)
NextPeer == CHOOSE i \in DOMAIN Peers : Peers[i] \notin DOMAIN answers
                                        /\ \A j \in 1 .. (i - 1) : Peers[j] \in DOMAIN answers
Escaped == \E p \in DOMAIN answers : answers[p].status = "unreachable"
Waiting ==
  /\ Ready /\ reading = Idle /\ Local \in DOMAIN answers /\ ~LocalFails /\ ~Escaped
  /\ ~(ToSet(Peers) \subseteq DOMAIN answers)
AskPeer ==
  /\ Waiting
  /\ LET p == Peers[NextPeer] IN
     /\ reading' = [replica |-> p, left |-> Replicas[p], groups |-> <<>>]
     /\ startedAt' = startedAt @@ (p :> arrived[p])
  /\ UNCHANGED <<arrived, request, answers, response, endedAt>>
PeerFails(how) ==
  /\ Waiting /\ answers' = answers @@ (Peers[NextPeer] :> [status |-> how])
  /\ UNCHANGED <<arrived, request, reading, response, startedAt, endedAt>>
PeerTimesOut ==
  /\ reading.replica \in ToSet(Peers)
  /\ answers' = answers @@ (reading.replica :> [status |-> "timeout"]) /\ reading' = Idle
  /\ UNCHANGED <<arrived, request, response, startedAt, endedAt>>

(* _merge_responses: everything in the totals is added, the ratios as well. *)
Present == {r \in DOMAIN answers : answers[r].status = "ok"}
SumOver(m) == LET told == {r \in Present : answers[r].totals[m] # None} IN
              IF told = {} THEN None ELSE MapThenSumSet(LAMBDA r : answers[r].totals[m], told)
MergedTotals == IF Cardinality(Present) = 1 THEN answers[Local].totals
                ELSE [m \in ToSet(request.metrics) |-> SumOver(m)]
MergedGroups ==
  [k \in UNION {DOMAIN answers[r].groups : r \in Present} |->
     MapThenFoldSet(Plus, Zero, LAMBDA r : answers[r].groups[k], LAMBDA s : CHOOSE x \in s : TRUE,
                    {r \in Present : k \in DOMAIN answers[r].groups})]
Failed == {p \in DOMAIN answers : answers[p].status \in {"invalid", "timeout"}}
Respond ==
  /\ Ready /\ reading = Idle /\ Local \in DOMAIN answers
  /\ \/ LocalFails /\ response' = [status |-> answers[Local].status]
     \/ Escaped /\ response' = [status |-> "error"]  \* the exception of the client
     \/ /\ ~LocalFails /\ ~Escaped /\ ToSet(Peers) \subseteq DOMAIN answers
        /\ response' = [status |-> "ok", totals |-> MergedTotals, groups |-> MergedGroups,
                        partial |-> Failed # {}, failed |-> Failed]
  /\ UNCHANGED <<arrived, request, reading, answers, startedAt, endedAt>>

QueryNext ==
  \/ \E r \in DOMAIN Replicas : Arrive(r)
  \/ \E q \in Requests : Ask(q)
  \/ ReadInstance \/ Answered \/ QueryTimeout \/ AskPeer
  \/ \E how \in {"invalid", "timeout", "unreachable"} : PeerFails(how)
  \/ PeerTimesOut \/ Respond

-----------------------------------------------------------------------------

Responded == response.status = "ok"
Counters == ToSet(request.metrics) \cap Metrics

(* FR-QRY-008, NFR-SCA-003: the groups of an answer, with the remainder row,
   add up to its totals - also when replicas kept different groups apart. *)
GroupsAddUp ==
  Responded => \A m \in Counters : TotalOf(response.groups)[m] = response.totals[m]

(* FR-STM-002: every replica that answered has counted, once, all rows that were
   there when its reading began and none that came after it ended. *)
Counted(r, n) == TotalOf(Filtered(Accumulate(<<>>, RowsAt(r, n))))
AnswersBetween ==
  Responded => \A m \in Counters :
    response.totals[m] \in MapThenSumSet(LAMBDA r : Counted(r, startedAt[r])[m], Present)
                           .. MapThenSumSet(LAMBDA r : Counted(r, endedAt[r])[m], Present)

(* NFR-SCA-003: an answer without the data of some replica says which. *)
FailureShown ==
  Responded => /\ response.failed = DOMAIN Replicas \ Present
               /\ response.partial = (Present # DOMAIN Replicas)

QueryRight == GroupsAddUp /\ AnswersBetween /\ FailureShown

=============================================================================
