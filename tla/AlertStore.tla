------------------------------ MODULE AlertStore ------------------------------
(***************************************************************************)
(* The backend's alert store, as operators on the alerts of one instance:  *)
(* which updates are merged, what they replace, what is evicted.           *)
(*                                                                         *)
(* An instance holds, for every alert id it knows, the record last stored; *)
(* an id is active or resolved by the status of that record, and the       *)
(* resolved ids are kept in the order they were resolved in.               *)
(***************************************************************************)
EXTENDS Naturals, SequencesExt

CONSTANTS
  RecentLimit,     \* resolved alerts kept per instance
  MaxTransitions   \* transitions kept per alert

ASSUME StoreAssumption ==
  RecentLimit \in Nat \ {0} /\ MaxTransitions \in Nat \ {0}

ActiveStatuses == {"pending", "firing", "resolving"}
Active(stored) == stored.status \in ActiveStatuses

NoAlerts == [alerts |-> <<>>, recent |-> <<>>]

Known(inst, id) == id \in DOMAIN inst.alerts
IsActive(inst, id) == Known(inst, id) /\ Active(inst.alerts[id])
IsResolved(inst, id) == Known(inst, id) /\ inst.alerts[id].status = "resolved"
ActiveIds(inst) == {id \in DOMAIN inst.alerts : Active(inst.alerts[id])}

(* An update as it arrives: a notification, or the republication of one with
   the outcome of its callback in delivery. *)
NoDelivery == "none"

Lasts(s, n) == IF Len(s) > n THEN SubSeq(s, Len(s) - n + 1, Len(s)) ELSE s
Transition(e) == [status |-> e.status, count |-> e.count]

PlaceTwice(inst, id, stored) ==  \* mutant: the old place is kept
  LET recent == IF Active(stored) THEN inst.recent ELSE Append(inst.recent, id)
      kept == Lasts(recent, RecentLimit)
      gone == {recent[n] : n \in DOMAIN recent} \ {kept[n] : n \in DOMAIN kept}
  IN [alerts |-> [x \in (DOMAIN inst.alerts \cup {id}) \ gone |->
                    IF x = id THEN stored ELSE inst.alerts[x]],
      recent |-> kept]

(* _place_alert: the id leaves wherever it was; a resolved one becomes the
   newest of the resolved, and the oldest of them may have to go. *)
Place(inst, id, stored) ==
  LET others == IF IsResolved(inst, id) THEN RemoveFirst(inst.recent, id) ELSE inst.recent
      recent == IF Active(stored) THEN others ELSE Append(others, id)
      kept == Lasts(recent, RecentLimit)
      gone == {recent[n] : n \in DOMAIN recent} \ {kept[n] : n \in DOMAIN kept}
  IN [alerts |-> [x \in (DOMAIN inst.alerts \cup {id}) \ gone |->
                    IF x = id THEN stored ELSE inst.alerts[x]],
      recent |-> kept]

(* The first update of an id; a resolution of an unknown one is kept as
   synthetic, without the outcome it may carry. *)
FirstRecord(e) ==
  [status |-> e.status, count |-> e.count, synthetic |-> e.status = "resolved",
   delivery |-> IF e.status = "resolved" \/ e.delivery = NoDelivery
                  THEN "unknown" ELSE e.delivery,
   transitions |-> <<Transition(e)>>]

(* A later update.  One that repeats status and count and carries an outcome
   adds no transition. *)
OnlyDelivery(old, e) ==
  e.delivery # NoDelivery /\ e.status = old.status /\ e.count = old.count
NextRecord(old, e) ==
  [status |-> e.status, count |-> e.count, synthetic |-> old.synthetic,
   delivery |-> IF e.delivery = NoDelivery THEN old.delivery ELSE e.delivery,
   transitions |-> IF OnlyDelivery(old, e) THEN old.transitions
                   ELSE Lasts(Append(old.transitions, Transition(e)), MaxTransitions)]

(* An update with any other status for a resolved id is stale. *)
StaleNever(inst, e) == FALSE  \* mutant: a stale update reopens the alert
Stale(inst, e) == IsResolved(inst, e.id) /\ e.status # "resolved"

Merge(inst, e) ==
  IF Stale(inst, e) THEN inst
  ELSE Place(inst, e.id, IF Known(inst, e.id) THEN NextRecord(inst.alerts[e.id], e)
                                              ELSE FirstRecord(e))
=============================================================================
