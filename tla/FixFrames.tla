------------------------------ MODULE FixFrames ------------------------------
(***************************************************************************)
(* From the lines of a log to framed FIX messages: the choice of a parser, *)
(* the joiner that holds the lines of a message that is not complete yet,  *)
(* and the framer that locks the delimiter it has met often enough.  One   *)
(* FixParser, and with it one joiner, serves every file and every parse    *)
(* worker, without a lock.                                                 *)
(*                                                                         *)
(* A line is a number and a kind:                                          *)
(*   whole      a message from 8= to 10=                                   *)
(*   untyped    a whole message whose 35= has no value                     *)
(*   decoy      a whole message with a tag that ends in 10 (110=, 210=)    *)
(*   head       the beginning of a message: 8= and 35= but no 10=          *)
(*   bare       a beginning without 35=                                    *)
(*   tail       the end of a message: 10= but no 8=                        *)
(*   truncated  a line cut at the longest length the monitor reads         *)
(* All lines separate their fields in one style.                           *)
(***************************************************************************)
EXTENDS Naturals, Sequences, FiniteSets, SequencesExt

CONSTANTS
  ParseWorkers, Kinds,
  Styles,          \* "soh", "pipe", "semicolon", "caret"
  MaxJoinLines, AutoLockAfter,
  MaxFed           \* bound: lines fed

FramesAssumption == MaxJoinLines \in Nat \ {0}

VARIABLES
  style,           \* how the log separates fields
  pending,         \* LineJoiner._pending: line numbers
  locked,          \* Framer._locked
  successes,       \* Framer._auto_successes
  fed,             \* [line number -> kind], in the order of the line queue
  outcome,         \* [line number -> what parsing it returned]
  parsing          \* [worker -> what it is doing]

frameVars == <<style, pending, locked, successes, fed, outcome, parsing>>

AtRest == [at |-> "idle", line |-> 0, found |-> FALSE, joined |-> <<>>]
NoOutcome == [status |-> "none", lines |-> <<>>]
Result(status, lines) == [status |-> status, lines |-> lines]

FramesInit ==
  /\ style \in Styles /\ pending = <<>> /\ locked = "none" /\ successes = 0
  /\ fed = <<>> /\ outcome = <<>> /\ parsing = [w \in ParseWorkers |-> AtRest]

(* classify_line, and Registry.select: a line that does not look like the
   beginning of a message never reaches the parser, whatever is pending. *)
LooksLikeFix(kind) == kind \in {"whole", "untyped", "decoy", "head", "truncated"}
Ends(n) == fed[n] \in {"whole", "untyped", "decoy", "tail"}

Feed(w, kind) ==
  /\ parsing[w] = AtRest /\ Len(fed) < MaxFed /\ fed' = Append(fed, kind)
  /\ IF LooksLikeFix(kind) /\ kind # "truncated"
     THEN /\ parsing' = [parsing EXCEPT ![w] = [AtRest EXCEPT !.at = "check", !.line = Len(fed) + 1]]
          /\ outcome' = Append(outcome, NoOutcome)
     ELSE /\ outcome' = Append(outcome, Result(IF kind = "truncated" THEN "line_truncated" ELSE "unsupported",
                                               <<Len(fed) + 1>>))
          /\ UNCHANGED parsing
  /\ UNCHANGED <<style, pending, locked, successes>>

-----------------------------------------------------------------------------
(* LineJoiner.feed: whether lines are pending, the line put among them, what
   they are together, and the message made of that. *)

At(w, at) == parsing[w].at = at
Check(w) ==
  /\ At(w, "check")
  /\ parsing' = [parsing EXCEPT ![w].at = "store", ![w].found = pending # <<>>]
  /\ UNCHANGED <<style, pending, locked, successes, fed, outcome>>
Store(w) ==
  /\ At(w, "store")
  /\ pending' = IF parsing[w].found THEN Append(pending, parsing[w].line) ELSE <<parsing[w].line>>
  /\ parsing' = [parsing EXCEPT ![w].at = "join"]
  /\ UNCHANGED <<style, locked, successes, fed, outcome>>

Returns(w, result) ==
  /\ outcome' = [outcome EXCEPT ![parsing[w].line] = result]
  /\ parsing' = [parsing EXCEPT ![w] = AtRest]

(* _has_checksum_field: once locked, 10= counts only behind the delimiter's
   byte, and the byte of "caret" is that of "soh", which such a log has not. *)
Visible == locked = "none" \/ (locked = style /\ style # "caret")
HasChecksum(lines) == Visible /\ \E i \in DOMAIN lines : Ends(lines[i])
FullNever(lines) == FALSE  \* mutant: no limit on the lines of a message
Full(lines) == Len(lines) >= MaxJoinLines
Wait(w) ==
  /\ At(w, "join") /\ ~HasChecksum(pending)
  /\ IF Full(pending) THEN pending' = <<>> /\ Returns(w, Result("incomplete_message", pending))
     ELSE UNCHANGED pending /\ Returns(w, Result("waiting", pending))
  /\ UNCHANGED <<style, locked, successes, fed>>
Join(w) ==
  /\ At(w, "join") /\ HasChecksum(pending)
  /\ parsing' = [parsing EXCEPT ![w].at = "frame", ![w].joined = pending]
  /\ UNCHANGED <<style, pending, locked, successes, fed, outcome>>

(* Framer.frame: from the first 8= to the first 10=, wherever lines end; a
   later field of a tag replaces an earlier one. *)
Sliced(lines) == SubSeq(lines, 1, CHOOSE i \in DOMAIN lines :
                                    Ends(lines[i]) /\ \A j \in 1..(i - 1) : ~Ends(lines[j]))
Framed(lines) ==
  LET message == Sliced(lines) last == fed[message[Len(message)]] IN
  CASE last = "untyped" -> Result("no_msg_type", lines)
    [] last = "decoy" -> Result("cut", message)   \* framed, without the fields after 110=
    [] OTHER -> Result("framed", message)
Succeeded(result) == result.status \in {"framed", "cut"}
Lock(result) ==
  IF Succeeded(result) /\ locked = "none"
  THEN /\ successes' = successes + 1
       /\ locked' = IF successes + 1 >= AutoLockAfter THEN style ELSE "none"
  ELSE UNCHANGED <<successes, locked>>
Cleared(result) == <<>>
Frame(w) ==
  LET lines == parsing[w].joined
      result == IF Len(lines) > MaxJoinLines THEN Result("incomplete_message", lines) ELSE Framed(lines)
  IN /\ At(w, "frame") /\ Returns(w, result) /\ pending' = Cleared(result)
     /\ IF Len(lines) > MaxJoinLines THEN UNCHANGED <<successes, locked>> ELSE Lock(result)
     /\ UNCHANGED <<style, fed>>

FramesNext ==
  \E w \in ParseWorkers : \/ \E kind \in Kinds : Feed(w, kind)
                          \/ Check(w) \/ Store(w) \/ Wait(w) \/ Join(w) \/ Frame(w)

-----------------------------------------------------------------------------

Done(n) == outcome[n] # NoOutcome

(* FR-PRS-012, FR-PRS-013: a whole message on one line is framed when that line
   is parsed, before and after the delimiter is locked, whatever unfinished
   messages came before it. *)
WholeIsFramed ==
  \A n \in DOMAIN fed :
    fed[n] = "whole" /\ Done(n) => outcome[n].status = "framed" /\ Last(outcome[n].lines) = n

(* FR-PRS-014: the joiner never holds as many lines as it may join, and every
   line it was given waits in it or is in one result, of a message or of an
   error, and in no other. *)
Results == {n \in DOMAIN outcome : Done(n) /\ outcome[n].status # "waiting"}
LinesAccounted ==
  (\A w \in ParseWorkers : parsing[w] = AtRest) =>
    /\ Len(pending) < MaxJoinLines
    /\ \A n \in DOMAIN fed :
         Cardinality({r \in Results : n \in ToSet(outcome[r].lines)})
           + Cardinality({i \in DOMAIN pending : pending[i] = n}) = 1

=============================================================================
