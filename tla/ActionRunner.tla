----------------------------- MODULE ActionRunner -----------------------------
(***************************************************************************)
(* The action runner: the commands and callbacks that rules name, run one  *)
(* at a time, over reloads that replace the catalogue of actions.          *)
(*                                                                         *)
(* An action is a record [name, type, target, timeout, version]: target is *)
(* the command or the endpoint ("none" when missing) and version is all    *)
(* that a reload may change in it.                                         *)
(***************************************************************************)
EXTENDS Naturals, Sequences, FiniteSets, SequencesExt, Functions

CONSTANTS
  Alerts,             \* [alert id -> the notifications the router passes, in order]
  RuleActions,        \* [alert id -> actions its rule names, in order]
  ActionFiles,        \* `actions:` blocks a rules file may hold
  AllowedCommands,
  ActionQueueSize, SeenCapacity, MaxAttempts,
  MaxReloads          \* bound: reloads

IsList(s) == s \in Seq(ToSet(s))
ActsOn(e) == e.status = "firing" /\ e.count = 1

(* The engine numbers what it says of an alert, so at most one notification is
   the first one of its firing (RuleEngine!NotificationsAdvance). *)
RunnerAssumption ==
  /\ ActionQueueSize \in Nat \ {0} /\ SeenCapacity \in Nat \ {0} /\ MaxAttempts \in Nat \ {0}
  /\ \A a \in DOMAIN Alerts :
       /\ IsList(Alerts[a]) /\ IsList(RuleActions[a])
       /\ \A i, j \in DOMAIN Alerts[a] : ActsOn(Alerts[a][i]) /\ ActsOn(Alerts[a][j]) => i = j
  /\ \A f \in ActionFiles : IsList(f)

VARIABLES
  told,        \* [alert id -> notifications passed]
  seen,        \* ActionRunner._seen, oldest first
  actions,     \* ActionRunner._queue
  acting,      \* the run under way
  ran,         \* [alert id, action -> runs begun]
  catalogue,   \* [name -> action]
  dispatchers, \* [name -> the action its dispatcher was built for]
  retired,     \* sinks of actions that changed or went: closed at the end
  built, reloads   \* sinks built; reloads so far

runVars == <<told, seen, actions, acting, ran>>
catalogueVars == <<catalogue, dispatchers, retired, built, reloads>>
runnerVars == <<runVars, catalogueVars>>

Ids == DOMAIN Alerts
Names == UNION {ToSet(RuleActions[a]) : a \in Ids}
Idle == [id |-> "none", name |-> "none", action |-> "none", attempt |-> 0, phase |-> "idle"]

(* parse_actions: one bad entry refuses the whole block. *)
WellFormed(x) ==
  /\ x.type \in {"command", "callback"} /\ x.target # "none" /\ x.timeout > 0
  /\ x.type = "command" => x.target \in AllowedCommands
Accepted(file) ==
  /\ \A i \in DOMAIN file : WellFormed(file[i])
  /\ \A i, j \in DOMAIN file : file[i].name = file[j].name => i = j
Parsed(file) ==
  [n \in {file[i].name : i \in DOMAIN file} |-> CHOOSE x \in ToSet(file) : x.name = n]

(* replace_catalogue: the dispatcher of an action that is unchanged stays. *)
ReplaceKeeping(new) ==  \* mutant: a changed action keeps its dispatcher
  LET gone == DOMAIN dispatchers \ DOMAIN new
      fresh == {n \in DOMAIN new : new[n].type = "callback"} \ DOMAIN dispatchers
  IN /\ dispatchers' = [n \in (DOMAIN dispatchers \ gone) \cup fresh |->
                          IF n \in fresh THEN new[n] ELSE dispatchers[n]]
     /\ retired' = retired \o SetToSeq({dispatchers[n] : n \in gone})
     /\ built' = built + Cardinality(fresh) /\ catalogue' = new
Replace(new) ==
  LET gone == {n \in DOMAIN dispatchers :
                 n \notin DOMAIN new \/ new[n] # catalogue[n]}
      fresh == {n \in DOMAIN new : new[n].type = "callback"} \ (DOMAIN dispatchers \ gone)
  IN /\ dispatchers' = [n \in (DOMAIN dispatchers \ gone) \cup fresh |->
                          IF n \in fresh THEN new[n] ELSE dispatchers[n]]
     /\ retired' = retired \o SetToSeq({dispatchers[n] : n \in gone})
     /\ built' = built + Cardinality(fresh) /\ catalogue' = new

Callbacks(c) == {n \in DOMAIN c : c[n].type = "callback"}
RunnerInit ==
  /\ told = [a \in Ids |-> 0] /\ seen = <<>> /\ actions = <<>> /\ acting = Idle
  /\ ran = [x \in Ids \X Names |-> 0]
  /\ catalogue \in {Parsed(f) : f \in {g \in ActionFiles : Accepted(g)}}
  /\ dispatchers = Restrict(catalogue, Callbacks(catalogue))
  /\ retired = <<>> /\ built = Cardinality(Callbacks(catalogue)) /\ reloads = 0

(* stage_actions, and the swap once the rules are applied.  A refused file
   changes nothing. *)
Reload(file) ==
  /\ reloads < MaxReloads /\ reloads' = reloads + 1
  /\ IF Accepted(file) THEN Replace(Parsed(file)) ELSE UNCHANGED <<catalogue, dispatchers, retired, built>>
  /\ UNCHANGED runVars

-----------------------------------------------------------------------------
(* enqueue: the first notification of an alert that fires, once. *)

Newest(s, n) == IF Len(s) > n THEN SubSeq(s, Len(s) - n + 1, Len(s)) ELSE s

(* Runs put one by one, each dropping the oldest when the queue is full. *)
Put(q, runs) == Newest(q \o runs, ActionQueueSize)
RunsFor(a) == [i \in DOMAIN RuleActions[a] |-> [id |-> a, name |-> RuleActions[a][i]]]
Enqueue(a) ==
  LET e == Alerts[a][told[a] + 1] IN
  /\ told[a] < Len(Alerts[a]) /\ told' = [told EXCEPT ![a] = @ + 1]
  /\ IF ActsOn(e) /\ RuleActions[a] # <<>> /\ a \notin ToSet(seen)
     THEN /\ seen' = Newest(Append(seen, a), SeenCapacity)
          /\ actions' = Put(actions, RunsFor(a))
     ELSE UNCHANGED <<seen, actions>>
  /\ UNCHANGED <<acting, ran, catalogueVars>>

(* run: the action is looked up when its run starts. *)
Start ==
  LET x == actions[1] IN
  /\ acting = Idle /\ actions # <<>> /\ actions' = Tail(actions)
  /\ x.name \in DOMAIN catalogue
  /\ acting' = [id |-> x.id, name |-> x.name, attempt |-> 1, phase |-> "running",
                action |-> IF catalogue[x.name].type = "command" THEN catalogue[x.name]
                           ELSE dispatchers[x.name]]
  /\ ran' = [ran EXCEPT ![<<x.id, x.name>>] = @ + 1]
  /\ UNCHANGED <<told, seen, catalogueVars>>
SkipUnknown ==
  /\ acting = Idle /\ actions # <<>> /\ actions[1].name \notin DOMAIN catalogue
  /\ actions' = Tail(actions)
  /\ UNCHANGED <<told, seen, acting, ran, catalogueVars>>

(* A command exits or is killed at its timeout; a callback is answered, or is
   given up after its attempts or at its one timeout. *)
Finish == /\ acting # Idle /\ acting' = Idle
          /\ UNCHANGED <<told, seen, actions, ran, catalogueVars>>
BackOff ==
  /\ acting.phase = "running" /\ acting.action.type = "callback" /\ acting.attempt < MaxAttempts
  /\ acting' = [acting EXCEPT !.phase = "backoff"]
  /\ UNCHANGED <<told, seen, actions, ran, catalogueVars>>
TryAgain ==
  /\ acting.phase = "backoff" /\ acting' = [acting EXCEPT !.phase = "running", !.attempt = @ + 1]
  /\ UNCHANGED <<told, seen, actions, ran, catalogueVars>>
Act == Start \/ SkipUnknown \/ Finish \/ BackOff \/ TryAgain

RunnerNext == (\E f \in ActionFiles : Reload(f)) \/ (\E a \in Ids : Enqueue(a)) \/ Act

-----------------------------------------------------------------------------

Mentions(a, n) == {i \in DOMAIN RuleActions[a] : RuleActions[a][i] = n}

(* FR-CBK-016: an action runs for an alert no more often than its rule names it
   (once, unless the file repeats a name), never for a renotification or a
   resolution, although only SeenCapacity ids are kept. *)
ActionOnce == \A a \in Ids, n \in Names : ran[<<a, n>>] <= Cardinality(Mentions(a, n))

(* However the catalogue was replaced, a callback action has one dispatcher,
   built for the definition in force, and every sink that was ever built is in
   use or waits to be closed. *)
DispatchersCurrent ==
  /\ DOMAIN dispatchers = Callbacks(catalogue)
  /\ \A n \in DOMAIN dispatchers : dispatchers[n] = catalogue[n]
  /\ built = Cardinality(DOMAIN dispatchers) + Len(retired)

=============================================================================
