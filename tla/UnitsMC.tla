------------------------------- MODULE UnitsMC -------------------------------
(***************************************************************************)
(* The instances the components of Units are explored on.                  *)
(***************************************************************************)
EXTENDS Units, TLC

(* Messages: rejections with and without a code, a text and both; executions
   with and without the quantity that is left; a type that is unknown. *)
Message(type, exec, status, ordRej, sessRej, text, leaves, last, time) ==
  [type |-> type, exec |-> exec, status |-> status, ordRej |-> ordRej, sessRej |-> sessRej,
   text |-> text, leaves |-> leaves, last |-> last, time |-> time]
Report(exec, status, ordRej, text) ==
  Message("ExecutionReport", exec, status, ordRej, "", text, -1, -1, "fine")
Other_(type, sessRej, text) == Message(type, "", "", "", sessRej, text, -1, -1, "fine")
MCMessages ==
  {Report("Rejected", "Rejected", "", "throttled"), Report("Rejected", "Rejected", "UnknownSymbol", "closed"),
   Report("New", "Rejected", "", "closed"), Report("New", "New", "", ""),
   Message("ExecutionReport", "Trade", "PartiallyFilled", "", "", "", 0, 5, "fine"),
   Message("ExecutionReport", "Trade", "Filled", "", "", "", -1, -1, "bad"),
   Other_("Reject", "InvalidTagNumber", "throttled"), Other_("Reject", "", "no pattern"),
   Other_("OrderCancelReject", "", "closed"), Other_("NewOrderSingle", "", ""),
   Message("Logon", "", "", "", "", "", -1, -1, "skewed"),
   Message("unknown", "", "Rejected", "", "", "", -1, -1, "fine")}
AppLine(level, component, rule, capture) ==
  [level |-> level, component |-> component, rule |-> rule, capture |-> capture]
MCAppLines == {AppLine("E", "db", "oom", ""), AppLine("F", "net", "conn_%", "x"),
               AppLine("N", "ui", "conn_%", ""), AppLine("W", "db", "conn_%", "y")}
MCPatterns == <<[label |-> "throttled", texts |-> {"throttled"}],
                [label |-> "market_closed", texts |-> {"closed", "throttled"}]>>

(* An alert that fires, is repeated and resolves. *)
State(status, severity) == [status |-> status, severity |-> severity]
MCAlertStates == [a |-> <<State("firing", 1), State("firing", 1), State("resolved", 1)>>]

(* Alerts and the actions of their rules; a refused file, and two that change
   an action, take it away or bring it. *)
Notice(status, count) == [status |-> status, count |-> count]
MCAlerts == [a |-> <<Notice("firing", 1), Notice("firing", 2), Notice("resolved", 3)>>,
             b |-> <<Notice("firing", 1)>>]
MCRuleActions == [a |-> <<"page", "dump">>, b |-> <<"page", "page">>]
Action(name, type, target, timeout, version) ==
  [name |-> name, type |-> type, target |-> target, timeout |-> timeout, version |-> version]
MCActionFiles ==
  {<<Action("page", "callback", "pager", 1, 1), Action("dump", "command", "jstack", 1, 1)>>,
   <<Action("page", "callback", "pager", 1, 2)>>,
   <<Action("page", "command", "rm", 1, 1)>>}

(* Two replicas, both with an agent of instance i. *)
Row(i, dims, rejected, received) ==
  [instance |-> i, dims |-> dims, counters |-> [orders_rejected |-> rejected, orders_received |-> received]]
MCReplicas == [a |-> <<"i", "j">>, b |-> <<"i">>]
MCPeers == <<"b">>
MCArrivals ==
  [a |-> <<Row("i", [reason |-> "risk"], 1, 4), Row("j", [reason |-> "price"], 2, 2), Row("i", <<>>, 0, 4)>>,
   b |-> <<Row("i", [reason |-> "price"], 2, 4), Row("i", [reason |-> "__other__"], 1, 1)>>]
Asked(metrics, groupBy, filters, topK) ==
  [metrics |-> metrics, groupBy |-> groupBy, filters |-> filters, topK |-> topK]
AllMetrics == <<"orders_rejected", "orders_received", "reject_rate">>
MCRequests ==
  {Asked(AllMetrics, {}, <<>>, 0), Asked(AllMetrics, {"reason"}, <<>>, 1),
   Asked(<<"reject_rate", "orders_rejected">>, {"reason"}, <<>>, 1),
   Asked(AllMetrics, {"reason"}, [reason |-> {"risk", "price"}], 0)}

MCBoundaries == <<1, 5, 10>>
MCUnmeasured == -1

(* Questions of a strong and of a weak match, that name a time or none, and of
   none; what a model makes of them, right and wrong. *)
Question(small, hits, when, names) == [small |-> small, hits |-> hits, when |-> when, names |-> names]
Hit(i, how) == i :> how
MCQuestions ==
  {Question("greeting", <<>>, <<>>, {}), Question("none", <<>>, [last |-> 1], {}),
   Question("none", Hit("rejection_summary", "strong") @@ Hit("trend", "weak"), [today |-> TRUE], {}),
   Question("none", Hit("symbol_drilldown", "strong"), <<>>, {}),
   Question("none", Hit("alert_status", "weak"), <<>>, {}),
   Question("none", Hit("compare_period", "strong"), [yesterday |-> TRUE], {"instanceId"}),
   Question("none", Hit("compare_period", "weak") @@ Hit("agent_health", "weak"),
            [between |-> <<<<"now">>, <<"ago", 2>>>>], {}),
   Question("none", Hit("order_flow_summary", "weak"), [since |-> 7], {})}
Filled(intent, last, from, to, filters) ==
  [intent |-> intent, last |-> last, from |-> from, to |-> to, filters |-> filters,
   groupBy |-> {"side", "price"}, series |-> "on", step |-> "1m", reply |-> "other", sound |-> TRUE]
MCFills ==
  LET none == [kind |-> "absent"] IN
  {Filled("trend", [kind |-> "for", n |-> 2], none, none, {}),
   Filled("symbol_drilldown", none, [kind |-> "at", t |-> 18], [kind |-> "at", t |-> 23], {"symbol", "desk"}),
   Filled("symbol_drilldown", none, none, none, {}),
   Filled("latency_summary", [kind |-> "for", n |-> 0], [kind |-> "junk"], none, {"symbol"}),
   Filled("compare_period", [kind |-> "for", n |-> 1], none, none, {}),
   Filled("none", none, none, none, {}), Filled("none_of_these", none, none, none, {}),
   [Filled("none", none, none, none, {}) EXCEPT !.reply = "telemetry"],
   [Filled("alert_status", none, none, none, {}) EXCEPT !.sound = FALSE],
   Filled("alert_status", [kind |-> "junk"], none, none, {})}
(* Two instances; more of everything than is kept, and a repeated event. *)
Stored(id, instance, at, severity) == [id |-> id, instance |-> instance, at |-> at, severity |-> severity]
MCStoreEvents == {Stored("e1", "i", 1, "info"), Stored("e2", "i", 2, "warning"),
                  Stored("e3", "j", 2, "warning")}
Update(id, status, count) == [id |-> id, status |-> status, count |-> count, delivery |-> "none"]
MCStoreAlerts ==
  [a |-> [instance |-> "i", severity |-> "critical",
          updates |-> <<Update("a", "firing", 1), Update("a", "resolved", 2)>>],
   b |-> [instance |-> "i", severity |-> "warning",
          updates |-> <<Update("b", "firing", 1), Update("b", "resolved", 2)>>],
   c |-> [instance |-> "j", severity |-> "warning", updates |-> <<Update("c", "pending", 1)>>]]
List(kind, id, status, severity, limit, known) ==
  [kind |-> kind, id |-> id, status |-> status, severity |-> severity, limit |-> limit, known |-> known]
MCListings ==
  {List("events", "none", "all", "any", 1, TRUE), List("events", "none", "all", "warning", 2, TRUE),
   List("event", "e1", "all", "any", 1, TRUE), List("alert", "a", "all", "any", 1, TRUE),
   List("alerts", "none", "active", "any", 1, TRUE), List("alerts", "none", "all", "any", 2, TRUE),
   List("alerts", "none", "resolved", "critical", 1, TRUE), List("alerts", "none", "all", "any", 1, FALSE)}
(* Instances i and j, of two applications; j comes later. *)
Row_(i, bucket, agent, restarted, amount) ==
  [instance |-> i, bucket |-> bucket, agent |-> agent, restarted |-> restarted, amount |-> amount]
MCRows == <<Row_("i", 1, "a1", FALSE, 1), Row_("i", 2, "a2", TRUE, 1), Row_("k", 0, "a1", FALSE, 1),
            Row_("j", 3, "a2", FALSE, 1), Row_("i", 5, "a1", FALSE, 1)>>
MCApplications == [i |-> "Magic", j |-> "Other", k |-> "Magic"]
AskedSeries(from, to, step, instance, application) ==
  [from |-> from, to |-> to, step |-> step, instance |-> instance, application |-> application]
MCQueries == {AskedSeries(1, 4, 2, "any", "any"), AskedSeries(1, 1, 1, "any", "Magic"),
              AskedSeries(2, 3, 2, "j", "Magic")}
MCAgents == <<"a1", "a2">>
MCPoints == ("10s" :> 6) @@ ("1m" :> 1) @@ ("5m" :> 1)

=============================================================================
