--------------------------- MODULE AlertDeliveryMC ---------------------------
(***************************************************************************)
(* Instances of AlertDelivery: an alert fires, is renotified and resolves. *)
(***************************************************************************)
EXTENDS AlertDelivery
Told(status, count) == [status |-> status, count |-> count]
MCLife == [a |-> <<Told("firing", 1), Told("firing", 2), Told("resolved", 2)>>]
=============================================================================
