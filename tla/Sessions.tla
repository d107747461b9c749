------------------------------ MODULE Sessions ------------------------------
(***************************************************************************)
(* What the agent knows of a FIX session: when it was last heard from (the *)
(* heartbeat tracker) and the sequence number it is at (the sequence       *)
(* tracker), with the counters derived from both.  One line of the log is  *)
(* one message; the evaluator looks for silent sessions once a tick.       *)
(***************************************************************************)
EXTENDS Integers, Sequences, FiniteSets, FiniteSetsExt, Functions

CONSTANTS
  Sessions,            \* (sender, target) pairs
  SilenceAfter,        \* timeout_seconds
  NoNumber,            \* a MsgSeqNum that is missing or not a number
  SessionsUntil, MaxSeqNum, MaxHeard   \* bounds

SessionsAssumption == SilenceAfter \in Nat

VARIABLES
  sessClock,
  lastSeen,    \* SessionHeartbeatTracker._sessions: [key -> last_seen]
  timedOut,    \* SessionHeartbeatTracker._timed_out
  lastSeq,     \* SeqTracker._last_seq: [key -> number]
  counted,     \* [key -> session counters ingested]
  met,         \* messages after which a tick met a silence too long
  heard        \* every message, in order

sessVars == <<sessClock, lastSeen, timedOut, lastSeq, counted, met, heard>>

Seen(s) == s \in DOMAIN lastSeen
Without(f, k) == Restrict(f, DOMAIN f \ {k})
With(f, k, v) == [x \in DOMAIN f \cup {k} |-> IF x = k THEN v ELSE f[x]]

(* SeqTracker.observe: the event a number gives, if any. *)
SeqGap(s, number) ==
  IF s \notin DOMAIN lastSeq \/ number = NoNumber \/ number = lastSeq[s] + 1 THEN "none"
  ELSE IF number > lastSeq[s] THEN "gap" ELSE "regression"
Missed(s, number) == number - (lastSeq[s] + 1)

(* derive_session_counters *)
Derived(c, s, type, number) ==
  LET event == IF type \in {"Logon", "SequenceReset"} THEN "none" ELSE SeqGap(s, number) IN
  [c EXCEPT !.logons = @ + (IF type = "Logon" THEN 1 ELSE 0),
            !.logouts = @ + (IF type = "Logout" THEN 1 ELSE 0),
            !.gaps = @ + (IF event = "gap" THEN 1 ELSE 0),
            !.missed = @ + (IF event = "gap" THEN Missed(s, number) ELSE 0),
            !.regressions = @ + (IF event = "regression" THEN 1 ELSE 0)]

SessInit ==
  /\ sessClock = 0 /\ lastSeen = <<>> /\ timedOut = {} /\ lastSeq = <<>> /\ heard = <<>>
  /\ counted = [s \in Sessions |-> [logons |-> 0, logouts |-> 0, gaps |-> 0, missed |-> 0,
                                    regressions |-> 0, timeouts |-> 0]]
  /\ met = {}

(* A numbered message moves the number, even backwards; a Logon without one
   forgets it. *)
NextSeq(s, type, number) ==
  CASE number # NoNumber -> With(lastSeq, s, number)
    [] number = NoNumber /\ type = "Logon" -> Without(lastSeq, s)
    [] OTHER -> lastSeq

(* The latch of a session that speaks again is released. *)
Rearm(s) == timedOut \ {s}
Forget(s) == lastSeen' = Without(lastSeen, s) /\ timedOut' = timedOut \ {s}
Hear(s, type, number) ==
  /\ Len(heard) < MaxHeard
  /\ heard' = Append(heard, [session |-> s, type |-> type, number |-> number,
                            at |-> sessClock])
  /\ lastSeq' = NextSeq(s, type, number)
  /\ counted' = [counted EXCEPT ![s] = Derived(@, s, type, number)]
  /\ IF type = "Logout" THEN Forget(s)
     ELSE lastSeen' = With(lastSeen, s, sessClock) /\ timedOut' = Rearm(s)
  /\ UNCHANGED <<sessClock, met>>

(* timed_out, and the counters the evaluator derives from it.  met is told
   by the log alone: the messages no other of their session followed in time. *)
LastOf(s) == Max({i \in DOMAIN heard : heard[i].session = s})
Met == {i \in DOMAIN heard :
          /\ i = LastOf(heard[i].session) /\ heard[i].type # "Logout"
          /\ sessClock > heard[i].at + SilenceAfter}
Silent(s) == sessClock - lastSeen[s] > SilenceAfter
Newly == {s \in DOMAIN lastSeen : s \notin timedOut /\ Silent(s)}
Look ==
  /\ timedOut' = timedOut \cup Newly
  /\ counted' = [s \in Sessions |-> IF s \in Newly THEN [counted[s] EXCEPT !.timeouts = @ + 1]
                                    ELSE counted[s]]
  /\ met' = met \cup Met
  /\ UNCHANGED <<sessClock, lastSeen, lastSeq, heard>>

SessTick == /\ sessClock < SessionsUntil /\ sessClock' = sessClock + 1
            /\ UNCHANGED <<lastSeen, timedOut, lastSeq, counted, met, heard>>

SessNext ==
  \/ \E s \in Sessions, type \in {"Logon", "Logout", "SequenceReset", "other"},
        number \in (1..MaxSeqNum) \cup {NoNumber} : Hear(s, type, number)
  \/ Look \/ SessTick

-----------------------------------------------------------------------------

(* FR-ALR FixSessionDown: one silence is one timeout however many ticks see
   it, a logged-out session never times out, and one that spoke again can. *)
SilenceReportedOnce ==
  \A s \in Sessions : counted[s].timeouts = Cardinality({i \in met : heard[i].session = s})

(* The sequence counters are what the log says: a message is judged by the
   last number of its session, since its last Logon; a Logon or a
   SequenceReset sets the number and is judged by none. *)
Numbered(i) == heard[i].number # NoNumber
Before(i) == {j \in 1..(i - 1) : heard[j].session = heard[i].session
                                 /\ (Numbered(j) \/ heard[j].type = "Logon")}
Skip(i) == IF /\ Numbered(i) /\ heard[i].type \notin {"Logon", "SequenceReset"}
              /\ Before(i) # {} /\ Numbered(Max(Before(i)))
           THEN heard[i].number - heard[Max(Before(i))].number - 1 ELSE 0
SequenceCounted ==
  \A s \in Sessions :
    LET jumps == {i \in DOMAIN heard : heard[i].session = s /\ Skip(i) # 0}
        ahead == {i \in jumps : Skip(i) > 0}
    IN /\ counted[s].gaps = Cardinality(ahead)
       /\ counted[s].regressions = Cardinality(jumps \ ahead)
       /\ counted[s].missed = FoldFunction(+, 0, [i \in ahead |-> Skip(i)])

=============================================================================
