---------------------------- MODULE StoreListing ----------------------------
(***************************************************************************)
(* Events and alerts as the query API lists them: one instance after the   *)
(* other, each under its own lock, while the writer thread stores more.    *)
(* What a listing counts is read after what it lists.                      *)
(***************************************************************************)
EXTENDS Integers, Sequences, FiniteSets, SequencesExt, FiniteSetsExt, Functions

CONSTANTS
  StoreEvents,     \* events that arrive, [id, instance, at, severity]
  StoreAlerts,     \* [alert -> [instance, severity, updates]], in order of arrival
  EventsKept,      \* recent_event_limit
  RecentLimit, MaxTransitions,
  Listings,        \* [kind, id, status, severity, limit, known] that are asked for
  MaxStored        \* bound: writes in a behaviour

VARIABLES
  eventsIn, alertsIn,   \* [instance -> what it holds], of the instances known
  firstUse,             \* [kind of store -> its instances, in the order of their first use]
  merged,               \* [alert -> updates merged]
  listing, todo, found, tally, listPhase, shown,
  there, ever, moved, stored   \* history: what was there all along, at any time

listVars == <<eventsIn, alertsIn, firstUse, merged, listing, todo, found, tally, listPhase, shown,
              there, ever, moved, stored>>
stores == <<eventsIn, alertsIn, firstUse, merged>>

Kept == INSTANCE AlertStore

None == "none"
NoListing == [kind |-> "events", id |-> None, status |-> "all", severity |-> "any", limit |-> 0, known |-> TRUE]
StoreOf(q) == IF q.kind \in {"alerts", "alert"} THEN "alerts" ELSE "events"

ListInit ==
  /\ eventsIn = <<>> /\ alertsIn = <<>> /\ firstUse = [events |-> <<>>, alerts |-> <<>>]
  /\ merged = [a \in DOMAIN StoreAlerts |-> 0]
  /\ listing = NoListing /\ todo = <<>> /\ found = <<>> /\ tally = {} /\ listPhase = "idle"
  /\ shown = {} /\ there = {} /\ ever = {} /\ moved = FALSE /\ stored = 0

-----------------------------------------------------------------------------

(* What a record is listed as, and what a listing asks for. *)
EventRow(e) == [id |-> e.id, at |-> e.at, severity |-> e.severity, active |-> FALSE]
AlertRow(a, record) ==
  [id |-> a, at |-> record.count, severity |-> StoreAlerts[a].severity, active |-> Kept!Active(record)]
EventRows(i) == [n \in DOMAIN eventsIn[i] |-> EventRow(eventsIn[i][n])]
ActiveRows(i) ==
  SetToSeq({AlertRow(a, alertsIn[i].alerts[a]) : a \in Kept!ActiveIds(alertsIn[i])})
ResolvedRows(i) ==
  [n \in DOMAIN alertsIn[i].recent |->
     AlertRow(alertsIn[i].recent[n], alertsIn[i].alerts[alertsIn[i].recent[n]])]

(* _matches_filters, and the status an alert is asked by. *)
Matching(q, row) ==
  /\ q.severity \in {"any", row.severity} /\ q.id \in {None, row.id}
  /\ StoreOf(q) = "alerts" => \/ q.status = "all"
                              \/ q.status = "active" /\ row.active
                              \/ q.status = "resolved" /\ ~row.active

(* _iter_all_events and _iter_all_records: one instance, under its lock. *)
RowsOf(q, i) ==
  SelectSeq(IF StoreOf(q) = "events" THEN EventRows(i) ELSE ActiveRows(i) \o ResolvedRows(i),
            LAMBDA row : Matching(q, row))
Ids(rows) == {rows[n].id : n \in DOMAIN rows}
Instances == ToSet(firstUse[StoreOf(listing)])
Now == UNION {Ids(RowsOf(listing, i)) : i \in Instances}
Observed == IF listPhase = "items" THEN there' = there \cap Now' /\ ever' = ever \cup Now'
            ELSE UNCHANGED <<there, ever>>

-----------------------------------------------------------------------------

(* The writer: append, idempotent on the id; merge. *)
Used(kind, i) == [firstUse EXCEPT ![kind] = IF i \in ToSet(@) THEN @ ELSE Append(@, i)]
Newest(events) == IF Len(events) > EventsKept THEN Tail(events) ELSE events
AppendEvent(e) ==
  LET held == IF e.instance \in DOMAIN eventsIn THEN eventsIn[e.instance] ELSE <<>> IN
  /\ stored < MaxStored /\ stored' = stored + 1
  /\ firstUse' = Used("events", e.instance)
  /\ eventsIn' = [i \in DOMAIN eventsIn \cup {e.instance} |->
                    IF i # e.instance THEN eventsIn[i]
                    ELSE IF e \in ToSet(held) THEN held ELSE Newest(Append(held, e))]
  /\ UNCHANGED <<alertsIn, merged, listing, todo, found, tally, listPhase, shown, moved>> /\ Observed
MergeAlert(a) ==
  LET home == StoreAlerts[a].instance
      held == IF home \in DOMAIN alertsIn THEN alertsIn[home] ELSE Kept!NoAlerts
      update == StoreAlerts[a].updates[merged[a] + 1] IN
  /\ stored < MaxStored /\ stored' = stored + 1
  /\ merged[a] < Len(StoreAlerts[a].updates) /\ merged' = [merged EXCEPT ![a] = @ + 1]
  /\ firstUse' = Used("alerts", home)
  /\ alertsIn' = [i \in DOMAIN alertsIn \cup {home} |->
                    IF i = home THEN Kept!Merge(held, update) ELSE alertsIn[i]]
  /\ moved' = (listPhase \in {"items", "counts"} \/ moved)
  /\ UNCHANGED <<eventsIn, listing, todo, found, tally, listPhase, shown>> /\ Observed

(* A listing begins: parameters nobody knows are refused. *)
StartListing(q) ==
  /\ listPhase \in {"idle", "refused"}
  /\ listing' = q /\ listPhase' = (IF q.known THEN "items" ELSE "refused")
  /\ todo' = firstUse[StoreOf(q)] /\ found' = <<>> /\ tally' = {} /\ shown' = {}
  /\ UNCHANGED <<stores, stored>>
  /\ there' = Now' /\ ever' = Now' /\ moved' = FALSE

(* One instance; a search for one id stops at the first that holds it. *)
ReadNext ==
  /\ listPhase = "items" /\ todo # <<>>
  /\ found' = found \o RowsOf(listing, todo[1])
  /\ todo' = (IF listing.id # None /\ found' # <<>> THEN <<>> ELSE Tail(todo))
  /\ UNCHANGED <<stores, listing, tally, listPhase, shown, there, ever, moved, stored>>

(* The newest, as many as asked for; equally old ones in any order.  A listing
   of alerts goes on to count the active ones of every kind, from the start. *)
NewestOf(rows, n) ==
  {s \in SUBSET ToSet(rows) :
     /\ Cardinality(s) = Min({n, Cardinality(ToSet(rows))})
     /\ \A x \in s, y \in ToSet(rows) \ s : x.at >= y.at}
Sorted ==
  /\ listPhase = "items" /\ todo = <<>>
  /\ shown' \in NewestOf(found, listing.limit)
  /\ IF listing.kind = "alerts" THEN listPhase' = "counts" /\ todo' = firstUse.alerts
     ELSE listPhase' = "done" /\ UNCHANGED todo
  /\ UNCHANGED <<stores, listing, found, tally, there, ever, moved, stored>>
CountNext ==
  /\ listPhase = "counts" /\ todo # <<>>
  /\ tally' = tally \cup ToSet(ActiveRows(todo[1])) /\ todo' = Tail(todo)
  /\ UNCHANGED <<stores, listing, found, listPhase, shown, there, ever, moved, stored>>
Counted ==
  /\ listPhase = "counts" /\ todo = <<>> /\ listPhase' = "done"
  /\ UNCHANGED <<stores, listing, todo, found, tally, shown, there, ever, moved, stored>>

ListNext ==
  \/ \E e \in StoreEvents : AppendEvent(e)
  \/ \E a \in DOMAIN StoreAlerts : MergeAlert(a)
  \/ \E q \in Listings : StartListing(q)
  \/ ReadNext \/ Sorted \/ CountNext \/ Counted

-----------------------------------------------------------------------------

Truncated == Len(found) > listing.limit

(* FR-QRY-016: whatever is stored, resolved or evicted meanwhile, a listing shows
   no item twice, none that did not match at some moment, and every one that
   matched all along unless it was cut for newer ones. *)
ListedOnce ==
  listPhase = "done" =>
    /\ Cardinality(Ids(found)) = Len(found)
    /\ there \subseteq Ids(found) /\ Ids(found) \subseteq ever
    /\ \A row \in ToSet(found) : row \notin shown =>
         Truncated /\ \A other \in shown : other.at >= row.at

(* FR-QRY-017: without a change meanwhile, the counts are those of the alerts
   that a listing of all active ones would show. *)
CountsAgree ==
  listPhase = "done" /\ listing.kind = "alerts" /\ ~moved
  /\ listing.status # "resolved" /\ listing.severity = "any" =>
    tally = {row \in ToSet(found) : row.active}

ListingsRight == ListedOnce /\ CountsAgree

=============================================================================
