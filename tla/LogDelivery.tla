----------------------------- MODULE LogDelivery -----------------------------
(***************************************************************************)
(* What the agent promises about one log file that only grows: at-least-   *)
(* once, in-order delivery.  Lines are delivered from the committed        *)
(* position on; only the delivery of the very next line moves it; what is  *)
(* durable is some earlier committed position, and a restart resumes       *)
(* there.  Nothing at or below the durable position is ever undelivered.   *)
(***************************************************************************)
EXTENDS Naturals

VARIABLES
  lines,      \* number of lines in the file
  delivered,  \* positions of the lines delivered so far
  committed,  \* position up to which this process has delivered in order
  durable     \* committed position that survives a restart

vars == <<lines, delivered, committed, durable>>

Init == lines = 0 /\ delivered = {} /\ committed = 0 /\ durable = 0

Append ==
  /\ lines' = lines + 1
  /\ UNCHANGED <<delivered, committed, durable>>

Deliver ==
  /\ committed < lines
  /\ committed' = committed + 1
  /\ delivered' = delivered \cup {committed + 1}
  /\ UNCHANGED <<lines, durable>>

(* A delivery whose acknowledgement is lost: it will be repeated. *)
DeliverUnacknowledged ==
  /\ \E p \in committed + 1 .. lines : delivered' = delivered \cup {p}
  /\ UNCHANGED <<lines, committed, durable>>

Persist ==
  /\ durable' = committed
  /\ UNCHANGED <<lines, delivered, committed>>

Restart ==
  /\ committed' = durable
  /\ UNCHANGED <<lines, delivered, durable>>

Next == Append \/ Deliver \/ DeliverUnacknowledged \/ Persist \/ Restart

Spec == Init /\ [][Next]_vars
=============================================================================
