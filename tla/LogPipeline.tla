----------------------------- MODULE LogPipeline -----------------------------
(***************************************************************************)
(* The agent's way from a log file to ingested metrics: the log monitor    *)
(* that tails one path through rotations and truncations, the two bounded  *)
(* queues, the pool of parser workers, the committer with its duplicate    *)
(* filter, the offset registry in memory and on disk, and the shutdown     *)
(* sequence of the process that owns them.                                 *)
(*                                                                         *)
(* Four kinds of actors interleave: the application that writes, rotates   *)
(* and truncates its log; the pipeline thread (`_pump`); the parser worker *)
(* threads; and the main thread, which only acts to shut down.  The        *)
(* process may die at any point and be started again.                      *)
(*                                                                         *)
(* Data is abstracted to complete lines: an offset counts lines, not       *)
(* bytes, and the n-th line the application ever writes is the number n.   *)
(* The n-th file created at the path has inode n.                          *)
(***************************************************************************)
EXTENDS Naturals, Sequences, FiniteSets

CONSTANTS
  Workers,         \* the parser worker threads
  LineCap,         \* capacity of the monitor -> worker queue
  EventCap,        \* capacity of the worker -> committer queue
  DedupeCap,       \* capacity of the duplicate filter
  MaxLines,        \* bound: lines the application writes
  MaxRotations,    \* bound: rotations of the log
  MaxTruncations,  \* bound: in-place truncations
  MaxCrashes,      \* bound: times the process dies
  MaxStops,        \* bound: shutdown requests (SIGTERM)
  GraceExpires,    \* may the pipeline outlive the shutdown grace period?
  SaveMayFail,     \* may writing the registry fail with an OSError?
  CalmRotation     \* is each rotation slower than a poll and a reopen?

ASSUME ConstantsAssumption ==
  /\ IsFiniteSet(Workers)
  /\ LineCap \in Nat \ {0} /\ EventCap \in Nat \ {0} /\ DedupeCap \in Nat \ {0}
  /\ MaxLines \in Nat /\ MaxRotations \in Nat /\ MaxTruncations \in Nat
  /\ MaxCrashes \in Nat /\ MaxStops \in Nat
  /\ GraceExpires \in BOOLEAN /\ SaveMayFail \in BOOLEAN
  /\ CalmRotation \in BOOLEAN

Inode == 1 .. MaxRotations + 1
Line == 1 .. MaxLines

(* A line on its way through the pipeline, with the place it was read from. *)
Item == [ino : Inode, off : Nat, line : Line]

(* An open file and the read position in it; inode 0 stands for None. *)
Harvester == [ino : Inode \cup {0}, off : Nat]
NoHarvester == [ino |-> 0, off |-> 0]

VARIABLES
  \* The log, outside the agent.
  file,         \* [Inode -> Seq(Line)]: content of every file ever created
  path,         \* inode at the monitored path, 0 while it is missing
  writer,       \* inode the application has open
  created,      \* number of files created
  written,      \* number of lines written
  truncations,  \* number of truncations
  \* The registry of committed offsets.
  disk,         \* the file on disk
  reg,          \* OffsetTracker._states
  dirty,        \* LogMonitor._state_dirty
  \* The pipeline thread.
  stage,        \* where poll_lines stands
  act,          \* where poll_once stands: "read", "put", "commit" or "ingest"
  harv,         \* LogMonitor._harvester
  retired,      \* LogMonitor._retired_harvesters
  at,           \* index of the retired harvester being drained
  due,          \* retired harvesters whose deadline passed before this drain
  backfill,     \* LogMonitor._startup_backfill_harvesters
  scanned,      \* ~ LogMonitor._startup_recovery_pending
  hand,         \* the line read and not enqueued yet
  batch,        \* events drained and not done with, the one in hand first
  seen,         \* ProcessedLineDeduper._seen, oldest first
  \* Queues and workers.
  lineQ, eventQ,
  work,         \* [Workers -> Seq(Item)]: the line a worker holds, if any
  wpc,          \* [Workers -> {"get", "put", "stopped"}]
  \* The main thread and the life of the process.
  main, crashes, stops,
  \* History.
  readBy,       \* lines read in this life of the process
  here,         \* [Line -> Nat]: times lines_ingested counted it in this life
  before,       \* lines ingested in earlier lives
  skipped       \* lines dropped as duplicates in this life

logVars == <<file, path, writer, created, written, truncations>>
regVars == <<disk, reg, dirty>>
monitorVars == <<stage, act, harv, retired, at, due, backfill, scanned>>
queueVars == <<hand, batch, lineQ, eventQ, work, wpc>>
mainVars == <<main, crashes, stops>>
histVars == <<readBy, here, before, skipped>>
vars == <<logVars, regVars, monitorVars, queueVars, mainVars, histVars, seen>>

Empty == [w \in Workers |-> <<>>]
Ingested(l) == l \in before \/ here[l] > 0
IngestedSet == {l \in Line : Ingested(l)}

halt == main # "run"
workersToldToStop == main \notin {"run", "halting"}

Init ==
  /\ file = [i \in Inode |-> <<>>]
  /\ path = 1 /\ writer = 1 /\ created = 1 /\ written = 0 /\ truncations = 0
  /\ disk = [i \in Inode |-> 0] /\ reg = disk /\ dirty = FALSE
  /\ stage = "top" /\ act = "read" /\ harv = NoHarvester
  /\ retired = <<>> /\ at = 1 /\ due = 0 /\ backfill = <<>> /\ scanned = FALSE
  /\ hand = <<>> /\ batch = <<>> /\ lineQ = <<>> /\ eventQ = <<>>
  /\ work = Empty /\ wpc = [w \in Workers |-> "get"] /\ seen = <<>>
  /\ main = "run" /\ crashes = 0 /\ stops = 0
  /\ readBy = {} /\ here = [l \in Line |-> 0] /\ before = {} /\ skipped = {}

-----------------------------------------------------------------------------
(* The application and its log rotation. *)

agentVars == <<regVars, monitorVars, queueVars, mainVars, histVars, seen>>

(* The application ends a line in the file it has open. *)
Write ==
  /\ written < MaxLines
  /\ written' = written + 1
  /\ file' = [file EXCEPT ![writer] = Append(@, written + 1)]
  /\ UNCHANGED <<path, writer, created, truncations, agentVars>>

(* Log rotation renames the file away; the application keeps writing to it. *)
Rename ==
  /\ path # 0 /\ created <= MaxRotations
  /\ CalmRotation => writer = path /\ (stage = "down" \/ harv.ino = path)
  /\ path' = 0
  /\ UNCHANGED <<file, writer, created, written, truncations, agentVars>>

(* A new file appears at the path. *)
Create ==
  /\ path = 0
  /\ created' = created + 1 /\ path' = created + 1
  /\ UNCHANGED <<file, writer, written, truncations, agentVars>>

(* The application moves to the file now at the path. *)
Reopen ==
  /\ path # 0 /\ writer # path
  /\ writer' = path
  /\ UNCHANGED <<file, path, created, written, truncations, agentVars>>

(* The file the application writes is cut to nothing in place. *)
Truncate ==
  /\ truncations < MaxTruncations /\ path # 0 /\ file[path] # <<>>
  /\ truncations' = truncations + 1
  /\ file' = [file EXCEPT ![path] = <<>>]
  /\ UNCHANGED <<path, writer, created, written, agentVars>>

-----------------------------------------------------------------------------
(* The pipeline thread: the poll_lines generator. *)

(* Where a file is resumed: the registered offset, or 0 if it is past EOF. *)
StartOffset(i) == IF reg[i] > Len(file[i]) THEN 0 ELSE reg[i]

(* The rotated files: all but the newest, and that too while it has no
   successor at the path. *)
Archives == 1 .. (IF path = 0 THEN created ELSE created - 1)

(* The first poll of a process collects the files rotated earlier, once. *)
RecoverOnEveryPoll ==  \* mutant: the scan is repeated
  [i \in Archives |-> [ino |-> i, off |-> StartOffset(i)]]
StartupRecovery ==
  IF scanned THEN <<>>
             ELSE [i \in Archives |-> [ino |-> i, off |-> StartOffset(i)]]

PollBegin ==
  /\ stage = "top" /\ ~halt
  /\ stage' = "backfill"
  /\ scanned' = TRUE
  /\ backfill' = StartupRecovery
  /\ UNCHANGED <<act, harv, retired, at, due,
                 logVars, regVars, queueVars, mainVars, histVars, seen>>

(* The thread notices the halt flag, between two polls only. *)
PumpExit ==
  /\ stage = "top" /\ halt
  /\ stage' = "done"
  /\ UNCHANGED <<act, harv, retired, at, due, backfill, scanned,
                 logVars, regVars, queueVars, mainVars, histVars, seen>>

(* The harvester the generator reads at this stage. *)
Source ==
  CASE stage = "backfill" /\ backfill # <<>> -> backfill[1]
    [] stage = "retired" /\ at <= Len(retired) -> retired[at]
    [] stage = "active" -> harv
    [] OTHER -> NoHarvester

AtEOF(h) == h.off >= Len(file[h.ino])

(* One complete line is read and handed to poll_once. *)
ReadLine ==
  /\ act = "read" /\ Source.ino # 0 /\ ~AtEOF(Source)
  /\ LET h == Source
         next == [h EXCEPT !.off = @ + 1]
         l == file[h.ino][h.off + 1]
     IN /\ hand' = <<[ino |-> h.ino, off |-> h.off, line |-> l]>>
        /\ readBy' = readBy \cup {l}
        /\ harv' = IF stage = "active" THEN next ELSE harv
        /\ retired' = IF stage = "retired" THEN [retired EXCEPT ![at] = next]
                                           ELSE retired
        /\ backfill' = IF stage = "backfill" THEN [backfill EXCEPT ![1] = next]
                                             ELSE backfill
  /\ act' = "put"
  /\ UNCHANGED <<stage, at, due, scanned, batch, lineQ, eventQ, work, wpc,
                 here, before, skipped, seen, logVars, regVars, mainVars>>

(* A recovered archive is read to its end and closed. *)
BackfillNext ==
  /\ stage = "backfill" /\ act = "read"
  /\ IF backfill = <<>>
       THEN stage' = "stat" /\ UNCHANGED backfill
       ELSE AtEOF(backfill[1]) /\ backfill' = Tail(backfill) /\ UNCHANGED stage
  /\ UNCHANGED <<act, harv, retired, at, due, scanned,
                 logVars, regVars, queueVars, mainVars, histVars, seen>>

(* A descriptor whose file was rotated is kept to collect its last lines. *)
ForgetRotated == retired  \* mutant: the old descriptor is dropped
Retire == Append(retired, harv)

(* The path is compared with the open file: first start, rotation,
   truncation, or neither. *)
Stat ==
  /\ stage = "stat"
  /\ at' = 1
  /\ \E n \in 0 .. Len(retired) :
       /\ due' = n
       /\ CalmRotation /\ writer # path => n = 0
  /\ \/ /\ path # 0 /\ harv.ino = 0
        /\ stage' = "open"
        /\ UNCHANGED <<harv, retired>>
     \/ /\ path # 0 /\ harv.ino \notin {0, path}
        /\ stage' = "openRotated"
        /\ retired' = Retire /\ harv' = NoHarvester
     \/ /\ path # 0 /\ harv.ino = path
        /\ stage' = "retired"
        /\ harv' = IF harv.off > Len(file[path]) THEN [harv EXCEPT !.off = 0]
                                                 ELSE harv
        /\ UNCHANGED retired
     \/ /\ path = 0
        /\ stage' = "retired"
        /\ UNCHANGED <<harv, retired>>
  /\ UNCHANGED <<act, backfill, scanned,
                 logVars, regVars, queueVars, mainVars, histVars, seen>>

(* _start_harvester: resumes at the registered offset, or at 0 after a
   rotation.  A path that vanished since the stat ends the thread. *)
Open ==
  /\ stage \in {"open", "openRotated"}
  /\ IF path = 0
       THEN stage' = "done" /\ UNCHANGED harv
       ELSE /\ stage' = "retired"
            /\ harv' = [ino |-> path,
                        off |-> IF stage = "open" THEN StartOffset(path) ELSE 0]
  /\ UNCHANGED <<act, retired, at, due, backfill, scanned,
                 logVars, regVars, queueVars, mainVars, histVars, seen>>

(* A retired file is read to its present end; once all are, those whose
   deadline had passed are closed. *)
RetiredNext ==
  /\ stage = "retired" /\ act = "read"
  /\ IF at <= Len(retired)
       THEN /\ AtEOF(retired[at])
            /\ at' = at + 1
            /\ UNCHANGED <<stage, retired>>
       ELSE /\ retired' = SubSeq(retired, due + 1, Len(retired))
            /\ stage' = IF harv.ino = 0 THEN "checkpoint" ELSE "active"
            /\ UNCHANGED at
  /\ UNCHANGED <<act, harv, due, backfill, scanned,
                 logVars, regVars, queueVars, mainVars, histVars, seen>>

ActiveDone ==
  /\ stage = "active" /\ act = "read" /\ AtEOF(harv)
  /\ stage' = "checkpoint"
  /\ UNCHANGED <<act, harv, retired, at, due, backfill, scanned,
                 logVars, regVars, queueVars, mainVars, histVars, seen>>

(* OffsetTracker.save: an atomic replacement, or an error that is logged. *)
Save ==
  /\ \/ disk' = reg
     \/ SaveMayFail /\ UNCHANGED disk
  /\ dirty' = FALSE

(* The poll ends with a checkpoint if one is due, then poll_once processes
   whatever the workers have parsed. *)
Checkpoint ==
  /\ stage = "checkpoint"
  /\ stage' = "final"
  /\ UNCHANGED reg
  /\ \/ dirty /\ Save
     \/ UNCHANGED <<disk, dirty>>
  /\ UNCHANGED <<act, harv, retired, at, due, backfill, scanned,
                 logVars, queueVars, mainVars, histVars, seen>>

(* Reading from a handle the main thread has closed ends the thread. *)
PumpDies ==
  /\ stage = "closed" /\ act = "read"
  /\ stage' = "done"
  /\ UNCHANGED <<act, harv, retired, at, due, backfill, scanned,
                 logVars, regVars, queueVars, mainVars, histVars, seen>>

-----------------------------------------------------------------------------
(* The pipeline thread: enqueueing and committing. *)

(* BoundedQueue.put under the block policy waits for this. *)
HasRoomOffByOne(q, cap) == Len(q) <= cap  \* mutant
HasRoom(q, cap) == Len(q) < cap

EnqueueLine ==
  /\ act = "put" /\ HasRoom(lineQ, LineCap)
  /\ lineQ' = Append(lineQ, hand[1]) /\ hand' = <<>>
  /\ act' = "read"
  /\ UNCHANGED <<stage, harv, retired, at, due, backfill, scanned, batch, eventQ,
                 work, wpc, logVars, regVars, mainVars, histVars, seen>>

(* process_commits is called after an enqueue that timed out, and at the end of
   a poll. *)
CommitsAtPollEndOnly == act = "read" /\ stage = "final"  \* mutant
CommitsDue ==
  \/ act = "put" /\ ~HasRoom(lineQ, LineCap)
  \/ act = "read" /\ stage = "final"

Drain ==
  /\ CommitsDue
  /\ batch' = eventQ /\ eventQ' = <<>>
  /\ act' = "commit"
  /\ UNCHANGED <<stage, harv, retired, at, due, backfill, scanned, hand, lineQ,
                 work, wpc, logVars, regVars, mainVars, histVars, seen>>

(* commit_offset: an offset never moves back. *)
CommitAnyOffset(i, o) == [reg EXCEPT ![i] = o]  \* mutant: the guard is dropped
CommitOffset(i, o) == [reg EXCEPT ![i] = IF o > @ THEN o ELSE @]

(* ack_line: the end of the line is committed, for the file the monitor has
   open now. *)
AckLineStart(e) ==  \* mutant: the offset where the line begins is committed
  IF harv.ino = 0 THEN UNCHANGED <<reg, dirty>>
                  ELSE reg' = CommitOffset(harv.ino, e.off) /\ dirty' = TRUE
AckReadCursor(e) ==  \* mutant: the read position is committed
  IF harv.ino = 0 THEN UNCHANGED <<reg, dirty>>
                  ELSE reg' = CommitOffset(harv.ino, harv.off) /\ dirty' = TRUE
AckLine(e) ==
  IF harv.ino = 0 THEN UNCHANGED <<reg, dirty>>
                  ELSE reg' = CommitOffset(harv.ino, e.off + 1) /\ dirty' = TRUE

(* The identity of a line for the duplicate filter. *)
OffsetOnly(e) == <<1, e.off>>  \* mutant: the file is left out
Position(e) == <<e.ino, e.off>>

MoveToEnd(s, n) == Append(SubSeq(s, 1, n - 1) \o SubSeq(s, n + 1, Len(s)), s[n])
WithinCapacity(s) == IF Len(s) > DedupeCap THEN Tail(s) ELSE s

(* live is what is left of the filter once entries have expired. *)
SkipDuplicate(e, live) ==
  /\ \E n \in DOMAIN live : live[n] = Position(e) /\ seen' = MoveToEnd(live, n)
  /\ skipped' = skipped \cup {e.line} /\ batch' = Tail(batch)
  /\ UNCHANGED act

MarkProcessed(e, live) ==
  /\ \A n \in DOMAIN live : live[n] # Position(e)
  /\ seen' = WithinCapacity(Append(live, Position(e)))
  /\ act' = "ingest"
  /\ UNCHANGED <<batch, skipped>>

(* The next drained event is dropped as a duplicate, or enters the filter;
   its offset is acknowledged either way, in the latter case before it is
   ingested. *)
CommitOne ==
  /\ act = "commit" /\ batch # <<>>
  /\ AckLine(batch[1])
  /\ \E k \in 0 .. Len(seen) :
       LET live == SubSeq(seen, k + 1, Len(seen))
       IN SkipDuplicate(batch[1], live) \/ MarkProcessed(batch[1], live)
  /\ UNCHANGED <<stage, harv, retired, at, due, backfill, scanned, hand, lineQ,
                 eventQ, work, wpc, disk, readBy, here, before, logVars, mainVars>>

(* on_event: the ingestor takes the line.  It counts the line in
   lines_ingested whether its ingest succeeds or raises: an exception is
   swallowed, the line stays acknowledged and in the filter, and only
   ingest_errors tells that some of its metrics are missing. *)
Ingest ==
  /\ act = "ingest"
  /\ here' = [here EXCEPT ![batch[1].line] = @ + 1]
  /\ batch' = Tail(batch) /\ act' = "commit"
  /\ UNCHANGED <<stage, harv, retired, at, due, backfill, scanned, hand, lineQ,
                 eventQ, work, wpc, readBy, before, skipped, seen,
                 logVars, regVars, mainVars>>

(* The batch is done: retry the enqueue, or end the poll. *)
GiveUpEnqueue ==  \* mutant: a line that did not fit is not tried again
  /\ act = "commit" /\ batch = <<>>
  /\ act' = "read" /\ hand' = <<>>
  /\ stage' = IF hand # <<>> THEN stage ELSE "top"
  /\ UNCHANGED <<harv, retired, at, due, backfill, scanned, batch, lineQ, eventQ,
                 work, wpc, logVars, regVars, mainVars, histVars, seen>>
CommitDone ==
  /\ act = "commit" /\ batch = <<>>
  /\ IF hand # <<>>
       THEN act' = "put" /\ UNCHANGED stage
       ELSE act' = "read" /\ stage' = "top"
  /\ UNCHANGED <<harv, retired, at, due, backfill, scanned,
                 logVars, regVars, queueVars, mainVars, histVars, seen>>

Pump ==
  \/ PollBegin \/ PumpExit \/ ReadLine \/ BackfillNext \/ Stat \/ Open
  \/ RetiredNext \/ ActiveDone \/ Checkpoint \/ PumpDies
  \/ EnqueueLine \/ Drain \/ CommitOne \/ Ingest \/ CommitDone

-----------------------------------------------------------------------------
(* The parser workers.  "get" and "put" are past the loop's test of the stop
   flag, so one step of each may still follow the flag. *)

GetLine(w) ==
  /\ wpc[w] = "get" /\ stage # "down" /\ lineQ # <<>>
  /\ lineQ' = Tail(lineQ)
  /\ work' = [work EXCEPT ![w] = <<lineQ[1]>>]
  /\ wpc' = [wpc EXCEPT ![w] = IF workersToldToStop THEN "stopped" ELSE "put"]
  /\ UNCHANGED <<hand, batch, eventQ, logVars, regVars, monitorVars, mainVars,
                 histVars, seen>>

PutEvent(w) ==
  /\ wpc[w] = "put" /\ HasRoom(eventQ, EventCap)
  /\ eventQ' = Append(eventQ, work[w][1])
  /\ work' = [work EXCEPT ![w] = <<>>]
  /\ wpc' = [wpc EXCEPT ![w] = IF workersToldToStop THEN "stopped" ELSE "get"]
  /\ UNCHANGED <<hand, batch, lineQ, logVars, regVars, monitorVars, mainVars,
                 histVars, seen>>

(* The stop flag is seen; an event still in hand is abandoned. *)
QuitWhenIdle(w) ==  \* mutant: a worker retries its put whatever the flag says
  /\ wpc[w] = "get" /\ workersToldToStop
  /\ wpc' = [wpc EXCEPT ![w] = "stopped"]
  /\ UNCHANGED <<hand, batch, lineQ, eventQ, work, logVars, regVars, monitorVars,
                 mainVars, histVars, seen>>
Quit(w) ==
  /\ wpc[w] \in {"get", "put"} /\ workersToldToStop
  /\ wpc' = [wpc EXCEPT ![w] = "stopped"]
  /\ UNCHANGED <<hand, batch, lineQ, eventQ, work, logVars, regVars, monitorVars,
                 mainVars, histVars, seen>>

Worker(w) == GetLine(w) \/ PutEvent(w) \/ Quit(w)

-----------------------------------------------------------------------------
(* The main thread: shutdown. *)

(* SIGTERM, or the callback on a pipeline thread that ended by itself. *)
RequestStop ==
  /\ main = "run" /\ stage # "down" /\ stops < MaxStops
  /\ main' = "halting" /\ stops' = stops + 1
  /\ UNCHANGED <<crashes, logVars, regVars, monitorVars, queueVars, histVars,
                 seen>>

PipelineDied ==
  /\ main = "run" /\ stage = "done"
  /\ main' = "halting"
  /\ UNCHANGED <<crashes, stops, logVars, regVars, monitorVars, queueVars,
                 histVars, seen>>

(* The wait for the pipeline ends: it finished, or the grace period did. *)
PumpJoined ==
  /\ main = "halting" /\ (stage = "done" \/ GraceExpires)
  /\ main' = "stopping"
  /\ UNCHANGED <<crashes, stops, logVars, regVars, monitorVars, queueVars,
                 histVars, seen>>

(* bridge.stop() returns when every worker has. *)
WorkersJoined ==
  /\ main = "stopping" /\ \A w \in Workers : wpc[w] = "stopped"
  /\ main' = "flushing"
  /\ UNCHANGED <<crashes, stops, logVars, regVars, monitorVars, queueVars,
                 histVars, seen>>

FlushCommits ==
  /\ main = "flushing"
  /\ main' = "closing"
  /\ Save /\ UNCHANGED reg
  /\ UNCHANGED <<crashes, stops, logVars, monitorVars, queueVars, histVars, seen>>

(* agent.monitor.close(): every handle is closed, even one the pipeline thread
   is reading, and what changed since the last save is saved. *)
CloseMonitor ==
  /\ main = "closing"
  /\ main' = "exiting"
  /\ harv' = NoHarvester /\ retired' = <<>> /\ backfill' = <<>>
  /\ stage' = IF Source.ino # 0 THEN "closed" ELSE stage
  /\ IF dirty THEN Save ELSE UNCHANGED <<disk, dirty>>
  /\ UNCHANGED reg
  /\ UNCHANGED <<act, at, due, scanned, crashes, stops, logVars, queueVars,
                 histVars, seen>>

(* The memory of the process is gone; what it would load again is on disk. *)
ProcessGone ==
  /\ stage' = "down" /\ act' = "read" /\ main' = "run"
  /\ harv' = NoHarvester /\ retired' = <<>> /\ at' = 1 /\ due' = 0
  /\ backfill' = <<>> /\ scanned' = FALSE
  /\ hand' = <<>> /\ batch' = <<>> /\ lineQ' = <<>> /\ eventQ' = <<>>
  /\ work' = Empty /\ wpc' = [w \in Workers |-> "get"] /\ seen' = <<>>
  /\ reg' = disk /\ dirty' = FALSE /\ UNCHANGED disk
  /\ before' = IngestedSet /\ here' = [l \in Line |-> 0] /\ readBy' = {}
  /\ skipped' = {}
  /\ UNCHANGED <<stops, logVars>>

(* The process ends once its last thread has. *)
Exit ==
  /\ main = "exiting" /\ stage = "done"
  /\ ProcessGone /\ UNCHANGED crashes

Crash ==
  /\ stage # "down" /\ crashes < MaxCrashes
  /\ crashes' = crashes + 1
  /\ ProcessGone

Start ==
  /\ stage = "down"
  /\ stage' = "top"
  /\ UNCHANGED <<act, harv, retired, at, due, backfill, scanned, logVars, regVars,
                 queueVars, mainVars, histVars, seen>>

Main ==
  \/ PipelineDied \/ PumpJoined \/ WorkersJoined \/ FlushCommits
  \/ CloseMonitor \/ Exit \/ Start

Next ==
  \/ Write \/ Rename \/ Create \/ Reopen \/ Truncate
  \/ Pump
  \/ \E w \in Workers : Worker(w)
  \/ Main \/ RequestStop \/ Crash

(* Every thread keeps running, and a process that ended is started again. *)
Fairness ==
  /\ WF_vars(Pump) /\ WF_vars(Main)
  /\ \A w \in Workers : WF_vars(Worker(w))

Spec == Init /\ [][Next]_vars
FairSpec == Spec /\ Fairness

-----------------------------------------------------------------------------
(* Properties. *)

Stages == {"top", "backfill", "stat", "open", "openRotated", "retired", "active",
           "checkpoint", "final", "closed", "done", "down"}
Mains == {"run", "halting", "stopping", "flushing", "closing", "exiting"}

LogType ==
  /\ file \in [Inode -> Seq(Line)]
  /\ created \in Inode /\ path \in {0, created} /\ writer \in Inode
  /\ written \in 0 .. MaxLines /\ truncations \in 0 .. MaxTruncations
RegType == disk \in [Inode -> Nat] /\ reg \in [Inode -> Nat] /\ dirty \in BOOLEAN
MonitorType ==
  /\ stage \in Stages /\ act \in {"read", "put", "commit", "ingest"}
  /\ harv \in Harvester
  /\ retired \in Seq(Harvester) /\ backfill \in Seq(Harvester)
  /\ at \in Nat \ {0} /\ due \in Nat /\ scanned \in BOOLEAN
QueueType ==
  /\ hand \in Seq(Item) /\ Len(hand) <= 1
  /\ batch \in Seq(Item) /\ Len(batch) <= EventCap
  /\ lineQ \in Seq(Item) /\ Len(lineQ) <= LineCap
  /\ eventQ \in Seq(Item) /\ Len(eventQ) <= EventCap
  /\ work \in [Workers -> Seq(Item)] /\ \A w \in Workers : Len(work[w]) <= 1
  /\ wpc \in [Workers -> {"get", "put", "stopped"}]
MainType ==
  /\ main \in Mains /\ crashes \in 0 .. MaxCrashes /\ stops \in 0 .. MaxStops
HistType ==
  /\ readBy \subseteq Line /\ before \subseteq Line /\ skipped \subseteq Line
  /\ here \in [Line -> Nat]
SeenType == seen \in Seq(Inode \X Nat) /\ Len(seen) <= DedupeCap

(* Every variable has its type, and no queue outgrows its capacity. *)
TypeOK ==
  /\ LogType /\ RegType /\ MonitorType /\ QueueType /\ MainType /\ HistType
  /\ SeenType

(* A line that the durable offset of its file covers was ingested: a process
   that dies and resumes there has lost nothing (FR-PIP-006). *)
CommittedIngested ==
  \A i \in Inode : \A k \in 1 .. Len(file[i]) :
    k <= disk[i] => Ingested(file[i][k])

LinesIn(s) == {s[n].line : n \in DOMAIN s}
InFlight ==
  LinesIn(hand) \cup LinesIn(lineQ) \cup LinesIn(eventQ) \cup LinesIn(batch)
    \cup UNION {LinesIn(work[w]) : w \in Workers}

(* Between the file and the metrics no line vanishes: what this process has
   read is in a queue, in a worker's hands, ingested, or was suppressed. *)
ReadIsKept ==
  \A l \in readBy : l \in InFlight \/ here[l] > 0 \/ l \in skipped

(* Within one life of the process a line counts once in the metrics, however
   rotation, recovery of archives and enqueue retries interleave. *)
AtMostOncePerLife == \A l \in Line : here[l] <= 1

(* A line suppressed as a duplicate has indeed been ingested (FR-PIP-007). *)
SkippedWereIngested == \A l \in skipped : Ingested(l)

(* The durable offset of a file never moves back, through restarts and
   out-of-order acknowledgements. *)
DurableMonotone == [][\A i \in Inode : disk'[i] >= disk[i]]_vars

(* After an orderly shutdown nothing this process ingested is read again by
   the next one: every ingested line lies below the durable offset. *)
CleanExitCheckpointed ==
  main = "exiting" /\ stage = "done" =>
    \A i \in Inode : \A k \in 1 .. Len(file[i]) :
      here[file[i][k]] > 0 => k <= disk[i]

(* Every line the application writes is ingested in the end. *)
EventuallyIngested == \A l \in Line : l <= written ~> Ingested(l)

(* A shutdown that was requested ends the process. *)
ShutdownCompletes == halt ~> stage = "down"

(* What is acknowledged of the lines ingested: not yet the line in hand. *)
Committed == IF act = "ingest" /\ batch[1].off < reg[1] THEN batch[1].off
                                                        ELSE reg[1]

(* One growing file read by one worker is delivered as LogDelivery promises. *)
Delivery == INSTANCE LogDelivery WITH
  lines <- Len(file[1]),
  delivered <- {k \in 1 .. Len(file[1]) : Ingested(file[1][k])},
  committed <- Committed,
  durable <- disk[1]
ImplementsDelivery == Delivery!Spec
=============================================================================
