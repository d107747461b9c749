------------------------------ MODULE FixEvents ------------------------------
(***************************************************************************)
(* From a parsed line to the counters it adds: the normalised fields of a  *)
(* framed message, the one reason its rejection is counted under, and the  *)
(* free-text labels that are admitted until their caps are reached.        *)
(*                                                                         *)
(* A message is a record [type, exec, status, ordRej, sessRej, text,       *)
(* leaves, last, time]; "" and NoQty are fields it does not have.  A code  *)
(* is written as the name its table gives it.                              *)
(***************************************************************************)
EXTENDS Integers, Sequences, FiniteSets, FiniteSetsExt

CONSTANTS
  Messages,         \* framed messages that may be read
  AppLines,         \* application log lines: [level, component, rule, capture]
  RejectPatterns,   \* in order: [label, texts]: the texts the pattern matches
  DynamicRules,     \* signature rules whose label is a template
  MaxRejectLabels, MaxSignatureLabels, MaxComponents,
  MaxLinesRead      \* bound

EventsAssumption == MaxRejectLabels \in Nat /\ MaxSignatureLabels \in Nat /\ MaxComponents \in Nat

VARIABLES
  lineLog,                        \* every line, in order
  totals,                         \* [metric -> count]
  byReason, bySignature, byComponent,   \* [label -> count]
  rejectLabels, signatureLabels, components   \* labels admitted so far

eventVars == <<lineLog, totals, byReason, bySignature, byComponent,
               rejectLabels, signatureLabels, components>>

NoQty == -1
OtherLabel == "__other__"

MsgTypes == {"Heartbeat", "TestRequest", "ResendRequest", "Reject", "SequenceReset", "Logout",
             "Logon", "NewOrderSingle", "OrderCancelRequest", "OrderCancelReplaceRequest",
             "ExecutionReport", "OrderCancelReject", "NewOrderMultileg", "MultilegOrderCancelReplace"}
ExecTypes == {"New", "DoneForDay", "Canceled", "Replaced", "PendingCancel", "Stopped", "Rejected",
              "Suspended", "PendingNew", "Expired", "PendingReplace", "Trade", "TradeCorrect", "TradeCancel"}
OrdStatuses == {"New", "PartiallyFilled", "Filled", "DoneForDay", "Canceled", "Replaced", "PendingCancel",
                "Stopped", "Rejected", "Suspended", "PendingNew", "Expired", "PendingReplace"}
OrdRejReasons == {"BrokerOption", "UnknownSymbol", "ExchangeClosed", "OrderExceedsLimit", "TooLateToEnter",
                  "UnknownOrder", "DuplicateOrder", "StaleOrder", "IncorrectQuantity", "UnknownAccount", "Other"}
SessionRejectReasons == {"InvalidTagNumber", "RequiredTagMissing", "UndefinedTag", "ValueIsIncorrect",
                         "CompIdProblem", "SendingTimeAccuracyProblem", "InvalidMsgType", "Other"}
(* normalize_enum *)
Named(raw, table) == IF raw = "" \/ raw \in table THEN raw ELSE "unknown"

(* First come, first named; the next ones share a label. *)
Admit(seen, label, cap) ==
  IF label \in seen \/ Cardinality(seen) < cap THEN [named |-> label, seen |-> seen \cup {label}]
  ELSE [named |-> OtherLabel, seen |-> seen]
Unlabelled(seen) == [named |-> "", seen |-> seen]

(* match_reject_label: the first pattern that matches the text. *)
TextLabel(m) ==
  LET hits == {i \in DOMAIN RejectPatterns : m.text \in RejectPatterns[i].texts} IN
  IF m.text = "" \/ hits = {} THEN Unlabelled(rejectLabels)
  ELSE Admit(rejectLabels, RejectPatterns[Min(hits)].label, MaxRejectLabels)

(* effective_reject_reason *)
Reason(m) ==
  CASE m.ordRej # "" -> Named(m.ordRej, OrdRejReasons)
    [] m.ordRej = "" /\ m.type = "Reject" /\ m.sessRej # "" -> Named(m.sessRej, SessionRejectReasons)
    [] m.ordRej = "" /\ ~(m.type = "Reject" /\ m.sessRej # "") /\ TextLabel(m).named # "" -> TextLabel(m).named
    [] OTHER -> "unspecified"

(* derive_counters, derive_session_counters: the metrics one message adds to,
   and how much. *)
Full(m) == m.leaves = 0 \/ (m.leaves = NoQty /\ m.status = "Filled")
Partial(m) == m.leaves > 0 \/ (m.leaves = NoQty /\ m.status = "PartiallyFilled")
Refused(m) == "Rejected" \in {m.status, m.exec}
OfReport(m) ==
  CASE m.exec = "New" -> {"orders_acked"}
    [] m.exec = "Trade" -> {"executions"} \cup (IF Full(m) THEN {"fills_full"} ELSE {})
                                          \cup (IF Partial(m) THEN {"fills_partial"} ELSE {})
    [] m.exec = "Canceled" -> {"orders_canceled"}
    [] m.exec = "Expired" -> {"orders_expired"}
    [] OTHER -> {}
OfType(m) ==
  CASE m.type \notin MsgTypes -> {"unclassified_messages"}
    [] m.type = "NewOrderSingle" -> {"orders_submitted"}
    [] m.type = "OrderCancelRequest" -> {"orders_cancel_requested"}
    [] m.type = "OrderCancelReplaceRequest" -> {"orders_replaced"}
    [] m.type = "OrderCancelReject" -> {"cancel_rejects", "rejects_total"}
    [] m.type = "Reject" -> {"session_rejects", "rejects_total"}
    [] m.type = "ExecutionReport" ->
         OfReport(m) \cup (IF Refused(m) THEN {"orders_rejected", "rejects_total"} ELSE {})
    [] m.type = "Logon" -> {"logons"} [] m.type = "Logout" -> {"logouts"}
    [] OTHER -> {}
Skewed(m) == IF m.time = "skewed" THEN {"clock_skew_events"} ELSE {}
Counted(m) == {"log_lines_read", "messages_total"} \cup OfType(m) \cup Skewed(m)
Executed(m) == IF m.type = "ExecutionReport" /\ m.exec = "Trade" /\ m.last # NoQty THEN m.last ELSE 0

Metrics == {"log_lines_read", "parse_errors", "messages_total", "unclassified_messages", "orders_submitted",
            "orders_cancel_requested", "orders_replaced", "cancel_rejects", "session_rejects",
            "orders_rejected", "rejects_total", "orders_acked", "executions", "fills_full", "fills_partial",
            "orders_canceled", "orders_expired", "logons", "logouts", "clock_skew_events", "executed_qty",
            "app_log_lines", "app_log_errors", "app_error_signatures"}
AddTo(metrics) == [x \in Metrics |-> totals[x] + IF x \in metrics THEN 1 ELSE 0]
Count(f, label) == [x \in DOMAIN f \cup {label} |-> (IF x \in DOMAIN f THEN f[x] ELSE 0)
                                                    + IF x = label THEN 1 ELSE 0]
IsReject(m) == "rejects_total" \in OfType(m)

EventsInit ==
  /\ lineLog = <<>> /\ totals = [x \in Metrics |-> 0]
  /\ byReason = <<>> /\ bySignature = <<>> /\ byComponent = <<>>
  /\ rejectLabels = {} /\ signatureLabels = {} /\ components = {}

Read(line) == Len(lineLog) < MaxLinesRead /\ lineLog' = Append(lineLog, line)

(* A framed message: build_fix_telemetry normalises it, whether or not it is
   a rejection, and _ingest counts it. *)
ReadMessage(m) ==
  /\ Read([kind |-> "fix", of |-> m])
  /\ rejectLabels' = TextLabel(m).seen
  /\ totals' = [AddTo(Counted(m)) EXCEPT !["executed_qty"] = @ + Executed(m)]
  /\ byReason' = IF IsReject(m) THEN Count(byReason, Reason(m)) ELSE byReason
  /\ UNCHANGED <<bySignature, byComponent, signatureLabels, components>>

(* A line no message could be made of, and one no parser claimed. *)
ReadBroken(failed) ==
  /\ Read([kind |-> "broken", of |-> failed])
  /\ totals' = AddTo({"log_lines_read"} \cup IF failed THEN {"parse_errors"} ELSE {})
  /\ UNCHANGED <<byReason, bySignature, byComponent, rejectLabels, signatureLabels, components>>

(* An application log line: its component within a cap of its own, and its
   signature, where only the labels made from a template have a cap. *)
Signature(a) ==
  IF a.rule = "" \/ (a.rule \in DynamicRules /\ a.capture = "") THEN Unlabelled(signatureLabels)
  ELSE IF a.rule \in DynamicRules THEN Admit(signatureLabels, a.capture, MaxSignatureLabels)
  ELSE [named |-> a.rule, seen |-> signatureLabels]
IsError(a) == a.level \in {"E", "F"}
ReadAppLine(a) ==
  LET component == Admit(components, a.component, MaxComponents)
      signature == Signature(a)
  IN /\ Read([kind |-> "app", of |-> a])
     /\ components' = component.seen /\ signatureLabels' = signature.seen
     /\ byComponent' = IF IsError(a) THEN Count(byComponent, component.named) ELSE byComponent
     /\ bySignature' = IF signature.named # "" THEN Count(bySignature, signature.named) ELSE bySignature
     /\ totals' = AddTo({"log_lines_read", "app_log_lines"}
                        \cup (IF IsError(a) THEN {"app_log_errors"} ELSE {})
                        \cup (IF signature.named # "" THEN {"app_error_signatures"} ELSE {}))
     /\ UNCHANGED <<byReason, rejectLabels>>

EventsNext ==
  \/ \E m \in Messages : ReadMessage(m)
  \/ \E failed \in BOOLEAN : ReadBroken(failed)
  \/ \E a \in AppLines : ReadAppLine(a)

-----------------------------------------------------------------------------

(* The counters of one kind of thing agree: every rejection is of an order, a
   cancellation or the session and is counted under one reason, every
   execution is full, partial or not known to be either, and a line is at most
   one of a message, an error and an application line. *)
Sum(f) == MapThenSumSet(LAMBDA x : f[x], DOMAIN f)
CountersAgree ==
  /\ totals["rejects_total"] = totals["orders_rejected"] + totals["cancel_rejects"] + totals["session_rejects"]
  /\ totals["rejects_total"] = Sum(byReason)
  /\ totals["fills_full"] + totals["fills_partial"] <= totals["executions"]
  /\ totals["messages_total"] + totals["parse_errors"] + totals["app_log_lines"] <= totals["log_lines_read"]
  /\ totals["app_log_errors"] = Sum(byComponent) /\ totals["app_error_signatures"] = Sum(bySignature)

(* FR-PRS-022: no more names than the cap, and a reason is never split: what was once
   counted under its own name always is, what was once folded always is.  A pattern
   whose label is the name of a coded reason shares its count with it. *)
PatternOf(m) == LET hits == {i \in DOMAIN RejectPatterns : m.text \in RejectPatterns[i].texts} IN
                IF m.text = "" \/ hits = {} THEN "" ELSE RejectPatterns[Min(hits)].label
ByText(m) == IsReject(m) /\ m.ordRej = "" /\ ~(m.type = "Reject" /\ m.sessRej # "")
Rejections(label) == {i \in DOMAIN lineLog : /\ lineLog[i].kind = "fix"
                        /\ ByText(lineLog[i].of) /\ PatternOf(lineLog[i].of) = label}
CodedReasons == OrdRejReasons \cup SessionRejectReasons \cup {"unknown", "unspecified", OtherLabel, ""}
TextLabels == {RejectPatterns[i].label : i \in DOMAIN RejectPatterns} \ CodedReasons
ErrorsOf(component) == {i \in DOMAIN lineLog : /\ lineLog[i].kind = "app" /\ IsError(lineLog[i].of)
                          /\ lineLog[i].of.component = component}
LabelsWhole ==
  /\ Cardinality(TextLabels \cap DOMAIN byReason) <= MaxRejectLabels
  /\ Cardinality(DOMAIN byComponent \ {OtherLabel}) <= MaxComponents
  /\ \A l \in TextLabels \cap DOMAIN byReason : byReason[l] = Cardinality(Rejections(l))
  /\ \A c \in DOMAIN byComponent \ {OtherLabel} : byComponent[c] = Cardinality(ErrorsOf(c))

=============================================================================
