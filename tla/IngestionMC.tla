----------------------------- MODULE IngestionMC -----------------------------
(***************************************************************************)
(* Batches for TLC: late, early, colliding and repeated buckets of two     *)
(* agents of one instance, one of which restarts and reports a bucket anew *)
(***************************************************************************)
EXTENDS Ingestion

Snap(a, t, series, amount, gauge, restarted) ==
  [agent |-> a, instance |-> "i", native |-> t, series |-> series, amount |-> amount,
   gauge |-> gauge, restarted |-> restarted]
Batch(a, id, snaps, evs) == [agent |-> a, id |-> id, snapshots |-> snaps, events |-> evs, valid |-> TRUE]

MCBatches ==
  "first" :> Batch("a", 1, <<Snap("a", 20, <<"x">>, 2, 5, FALSE), Snap("a", 21, <<"x", "y">>, 1, None, FALSE)>>, <<"e1">>)
  @@ "other" :> Batch("b", 1, <<Snap("b", 21, <<"x">>, 3, 6, FALSE)>>, <<"e2", "e3">>)
  @@ "again" :> Batch("a", 2, <<Snap("a", 20, <<"x">>, 1, 7, TRUE)>>, <<"e1">>)
  @@ "ahead" :> Batch("b", 2, <<Snap("b", 24, <<"y">>, 1, 9, FALSE), Snap("b", 19, <<"y">>, 1, 4, FALSE)>>, <<"e4">>)
  @@ "wide"  :> Batch("a", 3, <<Snap("a", 21, <<"z">>, 1, None, FALSE)>>, <<>>)
  @@ "bad"   :> [Batch("b", 3, <<>>, <<"e5">>) EXCEPT !.valid = FALSE]
=============================================================================
