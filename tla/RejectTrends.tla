---------------------------- MODULE RejectTrends ----------------------------
(***************************************************************************)
(* Rising reject reasons: the counts of two windows that follow one        *)
(* another, read one after the other from a store that goes on merging and *)
(* shedding, and what is reported of each reason.                          *)
(***************************************************************************)
EXTENDS Integers, Sequences, FiniteSets, FiniteSetsExt

CONSTANTS
  Reasons,
  Grain,                  \* canonical_bucket_seconds
  TrendWindow,                 \* the window of the request, in seconds
  Nows,                   \* times at which it may come
  Threshold, SteadyBand,  \* percentages
  MinOccurrences,
  MaxRejects              \* bound: rejects merged

VARIABLES
  askedAt,         \* now, of the request
  rejectCounts,     \* the store: [bucket, reason -> rejects]
  oldest,     \* the first bucket it holds
  rejects,    \* rejects merged so far
  current, previous,   \* [reason -> count], <<>> before it was read
  report,     \* the answer
  held        \* history: the first bucket held, as each window was read

trendVars == <<askedAt, rejectCounts, oldest, rejects, current, previous, report, held>>

(* Windows of seconds [from, to): the read is of every bucket that holds one
   of their seconds. *)
End == (askedAt \div Grain) * Grain
CurrentFrom == End - TrendWindow
PreviousFrom == End - 2 * TrendWindow
BucketsOf(from, to) == (from \div Grain) .. ((to - 1) \div Grain)
Buckets == BucketsOf(Min(Nows) - 3 * TrendWindow, Max(Nows) + Grain)
CountIn(from, to) ==
  [r \in Reasons |-> MapThenSumSet(LAMBDA b : IF b >= oldest THEN rejectCounts[b, r] ELSE 0, BucketsOf(from, to))]
NoReport == [complete |-> FALSE, trends |-> <<>>, flagged |-> {}]

TrendsInit ==
  /\ askedAt \in Nows /\ rejectCounts = [x \in Buckets \X Reasons |-> 0] /\ rejects = 0
  /\ oldest \in {Min(Buckets), (askedAt \div Grain) - (2 * TrendWindow) \div Grain}
  /\ current = <<>> /\ previous = <<>> /\ report = NoReport /\ held = <<>>

Reject(b, r) ==
  /\ rejects < MaxRejects /\ rejects' = rejects + 1
  /\ rejectCounts' = [rejectCounts EXCEPT ![<<b, r>>] = @ + 1]
  /\ UNCHANGED <<askedAt, oldest, current, previous, report, held>>
ShedOne ==
  /\ oldest < Max(Buckets) /\ oldest' = oldest + 1
  /\ UNCHANGED <<askedAt, rejectCounts, rejects, current, previous, report, held>>

(* _window_length refuses a window that is no multiple of the bucket. *)
Aligned == TrendWindow > 0 /\ TrendWindow % Grain = 0
ReadCurrent ==
  /\ Aligned /\ current = <<>> /\ current' = CountIn(CurrentFrom, End) /\ held' = <<oldest>>
  /\ UNCHANGED <<askedAt, rejectCounts, oldest, rejects, previous, report>>
ReadPrevious ==
  /\ current # <<>> /\ previous = <<>> /\ previous' = CountIn(PreviousFrom, CurrentFrom)
  /\ held' = Append(held, oldest)
  /\ UNCHANGED <<askedAt, rejectCounts, oldest, rejects, current, report>>

(* classify *)
Classify(now, before) ==
  CASE before = 0 /\ now >= MinOccurrences -> "emerging"
    [] before > 0 /\ 100 * (now - before) > Threshold * before /\ now >= MinOccurrences -> "increasing"
    [] before > 0 /\ 100 * (now - before) <= Threshold * before
       /\ 100 * (now - before) < -(SteadyBand * before) -> "decreasing"
    [] OTHER -> "steady"

(* _covers, looked at after both reads. *)
Covers == oldest * Grain <= PreviousFrom
Report ==
  /\ previous # <<>> /\ report = NoReport
  /\ LET seen == {r \in Reasons : current[r] + previous[r] > 0}
         trends == [r \in seen |-> IF Covers THEN Classify(current[r], previous[r]) ELSE "steady"]
     IN report' = [complete |-> Covers, trends |-> trends,
                   flagged |-> {r \in seen : trends[r] \in {"emerging", "increasing"}}]
  /\ UNCHANGED <<askedAt, rejectCounts, oldest, rejects, current, previous, held>>

TrendsNext ==
  \/ \E b \in Buckets, r \in Reasons : Reject(b, r)
  \/ ShedOne \/ ReadCurrent \/ ReadPrevious \/ Report

-----------------------------------------------------------------------------

(* A rise is reported only of counts that are whole: no bucket of the two
   windows had left the store when it was read, and no bucket counts in both;
   the bucket still filling as the request came counts in none. *)
Windowed == {BucketsOf(PreviousFrom, CurrentFrom), BucketsOf(CurrentFrom, End)}
TrendsWhole ==
  /\ \A w \in Windowed : Cardinality(w) = TrendWindow \div Grain /\ (askedAt \div Grain) \notin w
  /\ current # <<>> /\ previous # <<>> =>
       MapThenSumSet(LAMBDA r : current[r] + previous[r], Reasons) <= rejects
  /\ \A r \in report.flagged :
       /\ \A w \in DOMAIN held : held[w] * Grain <= PreviousFrom
       /\ current[r] >= MinOccurrences /\ current[r] > previous[r]

=============================================================================
