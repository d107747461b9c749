-------------------------- MODULE LogPipelineProofs --------------------------
(***************************************************************************)
(* Theorems about LogPipeline, for every value of its constants: the types *)
(* and bounds, what is read is kept, durable offsets never go back; then   *)
(* what the duplicate filter suppresses, and that no line counts twice;    *)
(* last, what one worker guarantees, and the refinement of LogDelivery.    *)
(***************************************************************************)
EXTENDS LogPipeline, TLAPS, SequenceTheorems

(* While the path is missing a file can still be created. *)
RoomForFile == path = 0 => created <= MaxRotations

(* The pipeline thread has a line in hand while it tries to enqueue it and
   none while it reads; events are drained only in order to be committed. *)
PumpHands ==
  /\ act = "put" => hand # <<>>
  /\ act = "read" => hand = <<>>
  /\ act \notin {"commit", "ingest"} => batch = <<>>
  /\ act = "ingest" => batch # <<>>

(* A worker holds an event exactly while it tries to put it. *)
WorkerHands ==
  \A w \in Workers : /\ wpc[w] = "put" => work[w] # <<>>
                     /\ wpc[w] = "get" => work[w] = <<>>

Hands == PumpHands /\ WorkerHands

TypeInv == TypeOK /\ RoomForFile /\ Hands

-----------------------------------------------------------------------------
(* Each part of the invariant mentions the variables of one group only. *)

LEMMA LogFrame == LogType /\ RoomForFile /\ UNCHANGED logVars
                    => LogType' /\ RoomForFile'
  BY DEF LogType, RoomForFile, logVars

LEMMA RegFrame == RegType /\ UNCHANGED regVars => RegType'
  BY DEF RegType, regVars

LEMMA MonitorFrame == MonitorType /\ UNCHANGED monitorVars => MonitorType'
  BY DEF MonitorType, monitorVars

LEMMA QueueFrame == QueueType /\ UNCHANGED queueVars => QueueType'
  BY DEF QueueType, queueVars

LEMMA MainFrame == MainType /\ UNCHANGED mainVars => MainType'
  BY DEF MainType, mainVars

LEMMA HistFrame == HistType /\ UNCHANGED histVars => HistType'
  BY DEF HistType, histVars

LEMMA SeenFrame == SeenType /\ UNCHANGED seen => SeenType'
  BY DEF SeenType

LEMMA HandsFrame == Hands /\ UNCHANGED queueVars /\ UNCHANGED act => Hands'
  BY DEF Hands, PumpHands, WorkerHands, queueVars

LEMMA NoHarvesterType == NoHarvester \in Harvester
  BY DEF NoHarvester, Harvester

-----------------------------------------------------------------------------
(* The initial state, and the log. *)

LEMMA InitType == Init => TypeInv
<1> SUFFICES ASSUME Init PROVE TypeInv
  OBVIOUS
<1> USE ConstantsAssumption DEF Init
<1>1. LogType /\ RoomForFile
  BY DEF LogType, RoomForFile, Inode, Line
<1>2. RegType
  BY DEF RegType
<1>3. MonitorType
  <2>1. scanned \in BOOLEAN
    OBVIOUS
  <2> QED
    BY <2>1, NoHarvesterType DEF MonitorType, Stages
<1>4. QueueType /\ Hands
  BY DEF QueueType, Hands, PumpHands, WorkerHands, Empty
<1>5. MainType /\ HistType /\ SeenType
  BY DEF MainType, HistType, SeenType, Mains
<1> QED
  BY <1>1, <1>2, <1>3, <1>4, <1>5 DEF TypeInv, TypeOK

LEMMA WriteType == TypeInv /\ Write => TypeInv'
<1> SUFFICES ASSUME TypeInv, Write PROVE TypeInv'
  OBVIOUS
<1>1. LogType' /\ RoomForFile'
  BY ConstantsAssumption DEF TypeInv, TypeOK, Write, LogType, RoomForFile, Line
<1> QED
  BY <1>1, RegFrame, MonitorFrame, QueueFrame, MainFrame, HistFrame, SeenFrame,
     HandsFrame DEF TypeInv, TypeOK, Write, agentVars, monitorVars
LEMMA RenameType == TypeInv /\ Rename => TypeInv'
<1> SUFFICES ASSUME TypeInv, Rename PROVE TypeInv'
  OBVIOUS
<1> USE DEF TypeInv, TypeOK
<1>1. LogType' /\ RoomForFile'
  BY DEF Rename, LogType, RoomForFile
<1> QED
  BY <1>1, RegFrame, MonitorFrame, QueueFrame, MainFrame, HistFrame,
     SeenFrame, HandsFrame DEF Rename, agentVars, monitorVars

LEMMA CreateType == TypeInv /\ Create => TypeInv'
<1> SUFFICES ASSUME TypeInv, Create PROVE TypeInv'
  OBVIOUS
<1> USE DEF TypeInv, TypeOK
<1>1. LogType' /\ RoomForFile'
  BY ConstantsAssumption DEF Create, LogType, RoomForFile, Inode
<1> QED
  BY <1>1, RegFrame, MonitorFrame, QueueFrame, MainFrame, HistFrame,
     SeenFrame, HandsFrame DEF Create, agentVars, monitorVars

LEMMA ReopenType == TypeInv /\ Reopen => TypeInv'
<1> SUFFICES ASSUME TypeInv, Reopen PROVE TypeInv'
  OBVIOUS
<1> USE DEF TypeInv, TypeOK
<1>1. LogType' /\ RoomForFile'
  BY DEF Reopen, LogType, RoomForFile
<1> QED
  BY <1>1, RegFrame, MonitorFrame, QueueFrame, MainFrame, HistFrame,
     SeenFrame, HandsFrame DEF Reopen, agentVars, monitorVars

LEMMA TruncateType == TypeInv /\ Truncate => TypeInv'
<1> SUFFICES ASSUME TypeInv, Truncate PROVE TypeInv'
  OBVIOUS
<1> USE DEF TypeInv, TypeOK
<1>1. LogType' /\ RoomForFile'
  BY ConstantsAssumption DEF Truncate, LogType, RoomForFile
<1> QED
  BY <1>1, RegFrame, MonitorFrame, QueueFrame, MainFrame, HistFrame,
     SeenFrame, HandsFrame DEF Truncate, agentVars, monitorVars

-----------------------------------------------------------------------------
(* The poll. *)

LEMMA StartOffsetType == \A i : LogType /\ RegType /\ i \in Inode => StartOffset(i) \in Nat
  BY DEF LogType, RegType, StartOffset

LEMMA RecoveryType == TypeInv => StartupRecovery \in Seq(Harvester)
<1> SUFFICES ASSUME TypeInv PROVE StartupRecovery \in Seq(Harvester)
  OBVIOUS
<1> DEFINE n == IF path = 0 THEN created ELSE created - 1
           archives == [i \in 1 .. n |-> [ino |-> i, off |-> StartOffset(i)]]
<1>1. n \in Nat /\ 1 .. n \subseteq Inode
  BY ConstantsAssumption DEF TypeInv, TypeOK, LogType, Inode
<1>2. \A i \in 1 .. n : [ino |-> i, off |-> StartOffset(i)] \in Harvester
  BY <1>1, StartOffsetType DEF TypeInv, TypeOK, Harvester
<1>3. archives \in Seq(Harvester)
  BY <1>1, <1>2, IsASeq
<1> QED
  BY <1>3 DEF StartupRecovery, Archives

LEMMA SourceType == TypeInv => Source \in Harvester
  BY NoHarvesterType DEF TypeInv, TypeOK, MonitorType, Source

LEMMA PollBeginType == TypeInv /\ PollBegin => TypeInv'
<1> SUFFICES ASSUME TypeInv, PollBegin PROVE TypeInv'
  OBVIOUS
<1> USE DEF TypeInv, TypeOK
<1>1. MonitorType'
  BY RecoveryType DEF PollBegin, MonitorType, Stages
<1> QED
  BY <1>1, LogFrame, RegFrame, QueueFrame, MainFrame, HistFrame, SeenFrame,
     HandsFrame DEF PollBegin

LEMMA PumpExitType == TypeInv /\ PumpExit => TypeInv'
<1> SUFFICES ASSUME TypeInv, PumpExit PROVE TypeInv'
  OBVIOUS
<1> USE DEF TypeInv, TypeOK
<1>1. MonitorType'
  BY DEF PumpExit, MonitorType, Stages
<1> QED
  BY <1>1, LogFrame, RegFrame, QueueFrame, MainFrame, HistFrame, SeenFrame,
     HandsFrame DEF PumpExit

LEMMA RetiredNextType == TypeInv /\ RetiredNext => TypeInv'
<1> SUFFICES ASSUME TypeInv, RetiredNext PROVE TypeInv'
  OBVIOUS
<1> USE DEF TypeInv, TypeOK
<1>1. MonitorType'
  <2>1. SubSeq(retired, due + 1, Len(retired)) \in Seq(Harvester)
    BY SubSeqProperties DEF MonitorType
  <2>2. retired' \in Seq(Harvester)
    <3>1. CASE at <= Len(retired)
      BY <3>1 DEF RetiredNext, MonitorType
    <3>2. CASE ~(at <= Len(retired))
      BY <3>2, <2>1 DEF RetiredNext
    <3> QED
      BY <3>1, <3>2
  <2> QED
    BY <2>2 DEF RetiredNext, MonitorType, Stages
<1> QED
  BY <1>1, LogFrame, RegFrame, QueueFrame, MainFrame, HistFrame, SeenFrame,
     HandsFrame DEF RetiredNext

LEMMA BackfillNextType == TypeInv /\ BackfillNext => TypeInv'
<1> SUFFICES ASSUME TypeInv, BackfillNext PROVE TypeInv'
  OBVIOUS
<1> USE DEF TypeInv, TypeOK
<1>1. MonitorType'
  <2>1. backfill # <<>> => Tail(backfill) \in Seq(Harvester)
    BY DEF MonitorType
  <2> QED
    BY <2>1 DEF BackfillNext, MonitorType, Stages
<1> QED
  BY <1>1, LogFrame, RegFrame, QueueFrame, MainFrame, HistFrame, SeenFrame,
     HandsFrame DEF BackfillNext

LEMMA StatType == TypeInv /\ Stat => TypeInv'
<1> SUFFICES ASSUME TypeInv, Stat PROVE TypeInv'
  OBVIOUS
<1> USE DEF TypeInv, TypeOK
<1>1. MonitorType'
  <2>1. [harv EXCEPT !.off = 0] \in Harvester
    BY DEF MonitorType, Harvester
  <2>2. Retire \in Seq(Harvester)
    BY DEF MonitorType, Retire
  <2>3. stage' \in Stages /\ at' = 1 /\ due' \in Nat
    BY DEF Stat, Stages
  <2>4. harv' \in Harvester
    <3>1. harv' \in {NoHarvester, harv, [harv EXCEPT !.off = 0]}
      BY DEF Stat
    <3> QED
      BY <2>1, <3>1, NoHarvesterType DEF MonitorType
  <2>5. retired' \in Seq(Harvester)
    <3>1. retired' \in {Retire, retired}
      BY DEF Stat
    <3> QED
      BY <2>2, <3>1 DEF MonitorType
  <2>6. UNCHANGED <<act, backfill, scanned>>
    BY DEF Stat
  <2> QED
    BY <2>3, <2>4, <2>5, <2>6 DEF MonitorType
<1> QED
  BY <1>1, LogFrame, RegFrame, QueueFrame, MainFrame, HistFrame, SeenFrame,
     HandsFrame DEF Stat

LEMMA OpenType == TypeInv /\ Open => TypeInv'
<1> SUFFICES ASSUME TypeInv, Open PROVE TypeInv'
  OBVIOUS
<1> USE DEF TypeInv, TypeOK
<1>1. MonitorType'
  <2>1. path # 0 => [ino |-> path, off |-> 0] \in Harvester
        /\ [ino |-> path, off |-> StartOffset(path)] \in Harvester
    BY StartOffsetType DEF LogType, Harvester
  <2> QED
    BY <2>1 DEF Open, MonitorType, Stages
<1> QED
  BY <1>1, LogFrame, RegFrame, QueueFrame, MainFrame, HistFrame, SeenFrame,
     HandsFrame DEF Open

LEMMA ActiveDoneType == TypeInv /\ ActiveDone => TypeInv'
<1> SUFFICES ASSUME TypeInv, ActiveDone PROVE TypeInv'
  OBVIOUS
<1> USE DEF TypeInv, TypeOK
<1>1. MonitorType'
  BY DEF ActiveDone, MonitorType, Stages
<1> QED
  BY <1>1, LogFrame, RegFrame, QueueFrame, MainFrame, HistFrame, SeenFrame,
     HandsFrame DEF ActiveDone

LEMMA PumpDiesType == TypeInv /\ PumpDies => TypeInv'
<1> SUFFICES ASSUME TypeInv, PumpDies PROVE TypeInv'
  OBVIOUS
<1> USE DEF TypeInv, TypeOK
<1>1. MonitorType'
  BY DEF PumpDies, MonitorType, Stages
<1> QED
  BY <1>1, LogFrame, RegFrame, QueueFrame, MainFrame, HistFrame, SeenFrame,
     HandsFrame DEF PumpDies

LEMMA ReadLineFacts ==
  ASSUME TypeInv, ReadLine
  PROVE  /\ Source \in Harvester /\ Source.ino \in Inode
         /\ file[Source.ino][Source.off + 1] \in Line
         /\ [Source EXCEPT !.off = @ + 1] \in Harvester
         /\ hand' \in Seq(Item) /\ Len(hand') = 1
         /\ stage = "retired" => at \in 1 .. Len(retired)
         /\ stage = "backfill" => backfill # <<>>
<1>1. Source \in Harvester
  BY SourceType
<1>2. Source.ino \in Inode /\ Source.off \in Nat
  BY <1>1 DEF ReadLine, Harvester
<1>3. file[Source.ino] \in Seq(Line) /\ Source.off < Len(file[Source.ino])
  BY <1>2 DEF ReadLine, AtEOF, TypeInv, TypeOK, LogType
<1>4. file[Source.ino][Source.off + 1] \in Line
  BY <1>2, <1>3
<1>5. [Source EXCEPT !.off = @ + 1] \in Harvester
  BY <1>1 DEF Harvester
<1>6. [ino |-> Source.ino, off |-> Source.off,
       line |-> file[Source.ino][Source.off + 1]] \in Item
  BY <1>2, <1>4 DEF Item
<1>7. hand' \in Seq(Item) /\ Len(hand') = 1
  BY <1>6 DEF ReadLine
<1>8. stage = "retired" => at \in 1 .. Len(retired)
  BY DEF ReadLine, Source, NoHarvester, TypeInv, TypeOK, MonitorType
<1>9. stage = "backfill" => backfill # <<>>
  BY DEF ReadLine, Source, NoHarvester
<1> QED
  BY <1>1, <1>2, <1>4, <1>5, <1>7, <1>8, <1>9

LEMMA ReadLineType == TypeInv /\ ReadLine => TypeInv'
<1> SUFFICES ASSUME TypeInv, ReadLine PROVE TypeInv'
  OBVIOUS
<1> USE DEF TypeInv, TypeOK
<1> DEFINE next == [Source EXCEPT !.off = @ + 1]
<1>1. /\ next \in Harvester /\ hand' \in Seq(Item) /\ Len(hand') = 1
      /\ file[Source.ino][Source.off + 1] \in Line
      /\ stage = "retired" => at \in 1 .. Len(retired)
      /\ stage = "backfill" => backfill # <<>>
  BY ReadLineFacts
<1>2. MonitorType'
  <2>1. harv' \in Harvester
    BY <1>1 DEF ReadLine, MonitorType
  <2>2. retired' \in Seq(Harvester)
    <3>1. stage = "retired" => [retired EXCEPT ![at] = next] \in Seq(Harvester)
      BY <1>1, ExceptSeq DEF MonitorType
    <3> QED
      BY <3>1 DEF ReadLine, MonitorType
  <2>3. backfill' \in Seq(Harvester)
    <3>1. stage = "backfill" => [backfill EXCEPT ![1] = next] \in Seq(Harvester)
      BY <1>1, ExceptSeq, EmptySeq DEF MonitorType
    <3> QED
      BY <3>1 DEF ReadLine, MonitorType
  <2> QED
    BY <2>1, <2>2, <2>3 DEF ReadLine, MonitorType
<1>3. QueueType'
  BY <1>1 DEF ReadLine, QueueType
<1>4. HistType'
  BY <1>1 DEF ReadLine, HistType
<1>5. Hands'
  BY <1>1 DEF ReadLine, Hands, PumpHands, WorkerHands
<1> QED
  BY <1>2, <1>3, <1>4, <1>5, LogFrame, RegFrame, MainFrame, SeenFrame DEF ReadLine

LEMMA CheckpointType == TypeInv /\ Checkpoint => TypeInv'
<1> SUFFICES ASSUME TypeInv, Checkpoint PROVE TypeInv'
  OBVIOUS
<1> USE DEF TypeInv, TypeOK
<1>1. MonitorType'
  BY DEF Checkpoint, MonitorType, Stages
<1>2. RegType'
  BY DEF Checkpoint, Save, RegType
<1> QED
  BY <1>1, <1>2, LogFrame, QueueFrame, MainFrame, HistFrame, SeenFrame,
     HandsFrame DEF Checkpoint

-----------------------------------------------------------------------------
(* Enqueueing and committing. *)

LEMMA EnqueueLineType == TypeInv /\ EnqueueLine => TypeInv'
<1> SUFFICES ASSUME TypeInv, EnqueueLine PROVE TypeInv'
  OBVIOUS
<1> USE DEF TypeInv, TypeOK
<1>1. MonitorType'
  BY DEF EnqueueLine, MonitorType
<1>2. QueueType'
  BY ConstantsAssumption DEF EnqueueLine, HasRoom, Hands, PumpHands, QueueType
<1>3. Hands'
  BY DEF EnqueueLine, Hands, PumpHands, WorkerHands
<1> QED
  BY <1>1, <1>2, <1>3, LogFrame, RegFrame, MainFrame, HistFrame, SeenFrame DEF
     EnqueueLine

LEMMA DrainType == TypeInv /\ Drain => TypeInv'
<1> SUFFICES ASSUME TypeInv, Drain PROVE TypeInv'
  OBVIOUS
<1> USE DEF TypeInv, TypeOK
<1>1. MonitorType'
  BY DEF Drain, MonitorType
<1>2. QueueType'
  BY ConstantsAssumption DEF Drain, QueueType
<1>3. Hands'
  BY DEF Drain, CommitsDue, Hands, PumpHands, WorkerHands
<1> QED
  BY <1>1, <1>2, <1>3, LogFrame, RegFrame, MainFrame, HistFrame, SeenFrame DEF
     Drain

(* The filter keeps its positions when one of them becomes the newest. *)
LEMMA MoveToEndSeq ==
  ASSUME NEW S, NEW s \in Seq(S), NEW n \in 1 .. Len(s)
  PROVE  MoveToEnd(s, n) \in Seq(S) /\ Len(MoveToEnd(s, n)) = Len(s)
<1> DEFINE front == SubSeq(s, 1, n - 1)
           back == SubSeq(s, n + 1, Len(s))
<1>1. front \in Seq(S) /\ Len(front) = n - 1
  BY SubSeqProperties
<1>2. back \in Seq(S) /\ Len(back) = Len(s) - n
  BY SubSeqProperties
<1>3. front \o back \in Seq(S) /\ Len(front \o back) = Len(front) + Len(back)
  <2> HIDE DEF front, back
  <2> QED
    BY <1>1, <1>2, ConcatProperties
<1>4. s[n] \in S
  OBVIOUS
<1> DEFINE rest == front \o back
<1>5. Append(rest, s[n]) \in Seq(S) /\ Len(Append(rest, s[n])) = Len(rest) + 1
  <2> HIDE DEF rest
  <2> QED
    BY <1>3, <1>4, AppendProperties DEF rest
<1>6. Len(rest) + 1 = Len(s)
  <2>1. Len(s) \in Nat
    OBVIOUS
  <2> HIDE DEF front, back
  <2> QED
    BY <2>1, <1>1, <1>2, <1>3
<1>7. MoveToEnd(s, n) = Append(rest, s[n])
  BY DEF MoveToEnd
<1> HIDE DEF rest
<1> QED
  BY <1>5, <1>6, <1>7

(* An event is in hand while it is committed and while it is ingested. *)
LEMMA InHandFacts ==
  ASSUME TypeInv, CommitOne \/ Ingest
  PROVE  /\ batch # <<>> /\ batch[1] \in Item
         /\ batch[1].ino \in Inode /\ batch[1].off \in Nat
         /\ batch[1].line \in Line /\ Position(batch[1]) \in Inode \X Nat
         /\ Tail(batch) \in Seq(Item) /\ Len(Tail(batch)) = Len(batch) - 1
<1>1. batch \in Seq(Item) /\ batch # <<>>
  BY DEF CommitOne, Ingest, TypeInv, TypeOK, QueueType, Hands, PumpHands
<1>2. batch[1] \in Item /\ Tail(batch) \in Seq(Item) /\ Len(Tail(batch)) = Len(batch) - 1
  BY <1>1
<1> QED
  BY <1>1, <1>2 DEF Item, Position

(* A commit either is done with the event, a duplicate, or goes on to ingest it. *)
LEMMA CommitOneIs ==
  ASSUME CommitOne
  PROVE  /\ UNCHANGED <<stage, harv, retired, at, due, backfill, scanned, hand, lineQ,
                        eventQ, work, wpc, disk, readBy, here, before, logVars, mainVars>>
         /\ act = "commit"
         /\ \/ /\ batch' = Tail(batch) /\ act' = "commit"
               /\ skipped' = skipped \cup {batch[1].line}
            \/ batch' = batch /\ act' = "ingest" /\ skipped' = skipped
  BY DEF CommitOne, SkipDuplicate, MarkProcessed

LEMMA IngestIs ==
  ASSUME Ingest
  PROVE  /\ UNCHANGED <<stage, harv, retired, at, due, backfill, scanned, hand, lineQ,
                        eventQ, work, wpc, readBy, before, skipped, seen,
                        logVars, regVars, mainVars>>
         /\ act = "ingest" /\ act' = "commit" /\ batch' = Tail(batch)
         /\ here' = [here EXCEPT ![batch[1].line] = @ + 1]
  BY DEF Ingest

LEMMA CommitOneType == TypeInv /\ CommitOne => TypeInv'
<1> SUFFICES ASSUME TypeInv, CommitOne PROVE TypeInv'
  OBVIOUS
<1>0. /\ batch # <<>> /\ batch[1].ino \in Inode /\ batch[1].off \in Nat
      /\ batch[1].line \in Line /\ Position(batch[1]) \in Inode \X Nat
      /\ Tail(batch) \in Seq(Item) /\ Len(Tail(batch)) = Len(batch) - 1
  BY InHandFacts
<1> USE DEF TypeInv, TypeOK
<1>1. QueueType'
  <2>1. batch' = batch \/ batch' = Tail(batch)
    BY CommitOneIs
  <2>2. batch' \in Seq(Item) /\ Len(batch') <= EventCap
    <3>1. batch \in Seq(Item) /\ Len(batch) <= EventCap /\ EventCap \in Nat
          /\ Len(batch) \in Nat
      BY ConstantsAssumption DEF QueueType
    <3>2. Tail(batch) \in Seq(Item) /\ Len(Tail(batch)) <= EventCap
      BY <1>0, <3>1
    <3> QED
      BY <2>1, <3>1, <3>2
  <2> QED
    BY <2>2 DEF CommitOne, QueueType
<1>2. RegType'
  <2>1. harv.ino # 0 => harv.ino \in Inode
    BY DEF MonitorType, Harvester
  <2>2. dirty' \in BOOLEAN
    BY DEF CommitOne, AckLine, RegType
  <2>3. reg' \in [Inode -> Nat]
    <3>1. \A i \in Inode : CommitOffset(i, batch[1].off + 1) \in [Inode -> Nat]
      BY <1>0 DEF CommitOffset, RegType
    <3> QED
      BY <2>1, <3>1 DEF CommitOne, AckLine, RegType
  <2> QED
    BY <2>2, <2>3 DEF CommitOne, RegType
<1>3. PICK k \in 0 .. Len(seen) :
        \/ SkipDuplicate(batch[1], SubSeq(seen, k + 1, Len(seen)))
        \/ MarkProcessed(batch[1], SubSeq(seen, k + 1, Len(seen)))
  BY DEF CommitOne
<1> DEFINE live == SubSeq(seen, k + 1, Len(seen))
<1>4. live \in Seq(Inode \X Nat) /\ Len(live) <= Len(seen)
  BY SubSeqProperties DEF SeenType
<1>5. HistType'
  BY <1>0, CommitOneIs DEF HistType
<1>6. SeenType'
  <2>1. CASE SkipDuplicate(batch[1], live)
    <3>1. PICK n \in DOMAIN live : seen' = MoveToEnd(live, n)
      BY <2>1 DEF SkipDuplicate
    <3>2. n \in 1 .. Len(live)
      BY <1>4
    <3>3. MoveToEnd(live, n) \in Seq(Inode \X Nat)
          /\ Len(MoveToEnd(live, n)) = Len(live)
      <4> HIDE DEF live
      <4> QED
        BY <1>4, <3>2, MoveToEndSeq
    <3> HIDE DEF live
    <3> QED
      BY <1>4, <3>1, <3>3, ConstantsAssumption DEF SeenType
  <2>2. CASE MarkProcessed(batch[1], live)
    <3>1. /\ Append(live, Position(batch[1])) \in Seq(Inode \X Nat)
          /\ Len(Append(live, Position(batch[1]))) = Len(live) + 1
      BY <1>4, <1>0, AppendProperties
    <3> HIDE DEF live
    <3> DEFINE longer == Append(live, Position(batch[1]))
    <3>2. seen' = IF Len(longer) > DedupeCap THEN Tail(longer) ELSE longer
      BY <2>2 DEF MarkProcessed, WithinCapacity
    <3>3. longer \in Seq(Inode \X Nat) /\ Len(longer) = Len(live) + 1
      BY <3>1
    <3>4. Len(live) <= DedupeCap /\ Len(live) \in Nat /\ DedupeCap \in Nat \ {0}
      BY <1>4, ConstantsAssumption DEF SeenType
    <3> HIDE DEF longer, live
    <3>5. CASE Len(longer) > DedupeCap
      <4>1. longer # <<>>
        BY <3>3, <3>4
      <4>2. Tail(longer) \in Seq(Inode \X Nat) /\ Len(Tail(longer)) = Len(longer) - 1
        BY <3>3, <4>1, HeadTailProperties
      <4> QED
        BY <3>2, <3>3, <3>4, <3>5, <4>2 DEF SeenType
    <3>6. CASE ~(Len(longer) > DedupeCap)
      BY <3>2, <3>3, <3>4, <3>6 DEF SeenType
    <3> QED
      BY <3>5, <3>6
  <2> QED
    BY <1>3, <2>1, <2>2
<1>7. Hands'
  BY <1>0, CommitOneIs DEF Hands, PumpHands, WorkerHands
<1>8. MonitorType'
  BY CommitOneIs DEF MonitorType
<1> QED
  BY <1>1, <1>2, <1>5, <1>6, <1>7, <1>8, CommitOneIs, LogFrame, MainFrame

LEMMA IngestType == TypeInv /\ Ingest => TypeInv'
<1> SUFFICES ASSUME TypeInv, Ingest PROVE TypeInv'
  OBVIOUS
<1>0. /\ batch[1].line \in Line
      /\ Tail(batch) \in Seq(Item) /\ Len(Tail(batch)) = Len(batch) - 1
  BY InHandFacts
<1> USE DEF TypeInv, TypeOK
<1>1. QueueType'
  <2>1. Len(batch') <= EventCap
    BY <1>0, IngestIs, ConstantsAssumption DEF QueueType
  <2> QED
    BY <1>0, <2>1, IngestIs DEF QueueType
<1>2. HistType'
  BY <1>0, IngestIs DEF HistType
<1>3. Hands'
  BY IngestIs DEF Hands, PumpHands, WorkerHands
<1>4. MonitorType'
  BY IngestIs DEF MonitorType
<1> QED
  BY <1>1, <1>2, <1>3, <1>4, IngestIs, LogFrame, RegFrame, MainFrame, SeenFrame

LEMMA CommitDoneType == TypeInv /\ CommitDone => TypeInv'
<1> SUFFICES ASSUME TypeInv, CommitDone PROVE TypeInv'
  OBVIOUS
<1> USE DEF TypeInv, TypeOK
<1>1. MonitorType'
  BY DEF CommitDone, MonitorType, Stages
<1>2. Hands'
  BY DEF CommitDone, queueVars, Hands, PumpHands, WorkerHands
<1> QED
  BY <1>1, <1>2, LogFrame, RegFrame, QueueFrame, MainFrame, HistFrame,
     SeenFrame DEF CommitDone

-----------------------------------------------------------------------------
(* The workers. *)

LEMMA GetLineType ==
  ASSUME TypeInv, NEW w \in Workers, GetLine(w)
  PROVE  TypeInv'
<1> USE DEF TypeInv, TypeOK
<1>1. QueueType'
  BY ConstantsAssumption DEF GetLine, HasRoom, Hands, WorkerHands, QueueType
<1>2. Hands'
  <2>1. PumpHands'
    BY DEF GetLine, Hands, PumpHands, monitorVars
  <2>2. WorkerHands'
    BY DEF GetLine, Hands, WorkerHands, QueueType
  <2> QED
    BY <2>1, <2>2 DEF Hands
<1> QED
  BY <1>1, <1>2, LogFrame, RegFrame, MonitorFrame, MainFrame, HistFrame,
     SeenFrame DEF GetLine, monitorVars

LEMMA PutEventType ==
  ASSUME TypeInv, NEW w \in Workers, PutEvent(w)
  PROVE  TypeInv'
<1> USE DEF TypeInv, TypeOK
<1>1. QueueType'
  BY ConstantsAssumption DEF PutEvent, HasRoom, Hands, WorkerHands, QueueType
<1>2. Hands'
  <2>1. PumpHands'
    BY DEF PutEvent, Hands, PumpHands, monitorVars
  <2>2. WorkerHands'
    BY DEF PutEvent, Hands, WorkerHands, QueueType
  <2> QED
    BY <2>1, <2>2 DEF Hands
<1> QED
  BY <1>1, <1>2, LogFrame, RegFrame, MonitorFrame, MainFrame, HistFrame,
     SeenFrame DEF PutEvent, monitorVars

LEMMA QuitType ==
  ASSUME TypeInv, NEW w \in Workers, Quit(w)
  PROVE  TypeInv'
<1> USE DEF TypeInv, TypeOK
<1>1. QueueType'
  BY ConstantsAssumption DEF Quit, HasRoom, Hands, WorkerHands, QueueType
<1>2. Hands'
  <2>1. PumpHands'
    BY DEF Quit, Hands, PumpHands, monitorVars
  <2>2. WorkerHands'
    BY DEF Quit, Hands, WorkerHands, QueueType
  <2> QED
    BY <2>1, <2>2 DEF Hands
<1> QED
  BY <1>1, <1>2, LogFrame, RegFrame, MonitorFrame, MainFrame, HistFrame,
     SeenFrame DEF Quit, monitorVars

-----------------------------------------------------------------------------
(* The main thread. *)

LEMMA RequestStopType == TypeInv /\ RequestStop => TypeInv'
<1> SUFFICES ASSUME TypeInv, RequestStop PROVE TypeInv'
  OBVIOUS
<1> USE DEF TypeInv, TypeOK
<1>1. MainType'
  BY ConstantsAssumption DEF RequestStop, MainType, Mains
<1> QED
  BY <1>1, LogFrame, RegFrame, MonitorFrame, QueueFrame, HistFrame, SeenFrame,
     HandsFrame DEF RequestStop, monitorVars

LEMMA PipelineDiedType == TypeInv /\ PipelineDied => TypeInv'
<1> SUFFICES ASSUME TypeInv, PipelineDied PROVE TypeInv'
  OBVIOUS
<1> USE DEF TypeInv, TypeOK
<1>1. MainType'
  BY ConstantsAssumption DEF PipelineDied, MainType, Mains
<1> QED
  BY <1>1, LogFrame, RegFrame, MonitorFrame, QueueFrame, HistFrame, SeenFrame,
     HandsFrame DEF PipelineDied, monitorVars

LEMMA PumpJoinedType == TypeInv /\ PumpJoined => TypeInv'
<1> SUFFICES ASSUME TypeInv, PumpJoined PROVE TypeInv'
  OBVIOUS
<1> USE DEF TypeInv, TypeOK
<1>1. MainType'
  BY ConstantsAssumption DEF PumpJoined, MainType, Mains
<1> QED
  BY <1>1, LogFrame, RegFrame, MonitorFrame, QueueFrame, HistFrame, SeenFrame,
     HandsFrame DEF PumpJoined, monitorVars

LEMMA WorkersJoinedType == TypeInv /\ WorkersJoined => TypeInv'
<1> SUFFICES ASSUME TypeInv, WorkersJoined PROVE TypeInv'
  OBVIOUS
<1> USE DEF TypeInv, TypeOK
<1>1. MainType'
  BY ConstantsAssumption DEF WorkersJoined, MainType, Mains
<1> QED
  BY <1>1, LogFrame, RegFrame, MonitorFrame, QueueFrame, HistFrame, SeenFrame,
     HandsFrame DEF WorkersJoined, monitorVars

LEMMA FlushCommitsType == TypeInv /\ FlushCommits => TypeInv'
<1> SUFFICES ASSUME TypeInv, FlushCommits PROVE TypeInv'
  OBVIOUS
<1> USE DEF TypeInv, TypeOK
<1>1. MainType'
  BY ConstantsAssumption DEF FlushCommits, MainType, Mains
<1>2. RegType'
  BY DEF FlushCommits, Save, RegType
<1> QED
  BY <1>1, <1>2, LogFrame, MonitorFrame, QueueFrame, HistFrame, SeenFrame,
     HandsFrame DEF FlushCommits, monitorVars

LEMMA CloseMonitorType == TypeInv /\ CloseMonitor => TypeInv'
<1> SUFFICES ASSUME TypeInv, CloseMonitor PROVE TypeInv'
  OBVIOUS
<1> USE DEF TypeInv, TypeOK
<1>1. MainType'
  BY ConstantsAssumption DEF CloseMonitor, MainType, Mains
<1>2. RegType'
  BY DEF CloseMonitor, Save, RegType
<1>3. MonitorType'
  BY NoHarvesterType DEF CloseMonitor, MonitorType, Stages
<1> QED
  BY <1>1, <1>2, <1>3, LogFrame, QueueFrame, HistFrame, SeenFrame, HandsFrame
     DEF CloseMonitor

LEMMA GoneType ==
  ASSUME TypeInv, ProcessGone
  PROVE  /\ LogType' /\ RoomForFile' /\ RegType' /\ MonitorType' /\ QueueType'
         /\ HistType' /\ SeenType' /\ Hands' /\ main' \in Mains /\ stops' = stops
<1> USE DEF TypeInv, TypeOK, ProcessGone
<1>1. RegType'
  BY DEF RegType
<1>2. MonitorType'
  <2>1. scanned' \in BOOLEAN
    OBVIOUS
  <2> QED
    BY <2>1, NoHarvesterType DEF MonitorType, Stages
<1>3. QueueType' /\ Hands'
  BY ConstantsAssumption DEF QueueType, Hands, PumpHands, WorkerHands, Empty
<1>4. HistType'
  BY DEF HistType, IngestedSet
<1>5. SeenType'
  BY ConstantsAssumption DEF SeenType
<1> QED
  BY <1>1, <1>2, <1>3, <1>4, <1>5, LogFrame DEF Mains

LEMMA ExitType == TypeInv /\ Exit => TypeInv'
  BY GoneType, ConstantsAssumption DEF TypeInv, TypeOK, Exit, MainType

LEMMA CrashType == TypeInv /\ Crash => TypeInv'
  BY GoneType, ConstantsAssumption DEF TypeInv, TypeOK, Crash, MainType

LEMMA StartType == TypeInv /\ Start => TypeInv'
<1> SUFFICES ASSUME TypeInv, Start PROVE TypeInv'
  OBVIOUS
<1> USE DEF TypeInv, TypeOK
<1>1. MonitorType'
  BY DEF Start, MonitorType, Stages
<1>2. Hands'
  BY DEF Start, queueVars, Hands, PumpHands, WorkerHands
<1> QED
  BY <1>1, <1>2, LogFrame, RegFrame, QueueFrame, MainFrame, HistFrame,
     SeenFrame DEF Start

-----------------------------------------------------------------------------
LEMMA TypeStep == TypeInv /\ [Next]_vars => TypeInv'
<1> SUFFICES ASSUME TypeInv, [Next]_vars PROVE TypeInv'
  OBVIOUS
<1>1. ASSUME Write \/ Rename \/ Create \/ Reopen \/ Truncate PROVE TypeInv'
  BY <1>1, WriteType, RenameType, CreateType, ReopenType, TruncateType
<1>2. ASSUME Pump PROVE TypeInv'
  BY <1>2, PollBeginType, PumpExitType, ReadLineType, BackfillNextType, StatType,
     OpenType, RetiredNextType, ActiveDoneType, CheckpointType, PumpDiesType,
     EnqueueLineType, DrainType, CommitOneType, IngestType, CommitDoneType DEF Pump
<1>3. ASSUME NEW w \in Workers, Worker(w) PROVE TypeInv'
  BY <1>3, GetLineType, PutEventType, QuitType DEF Worker
<1>4. ASSUME Main \/ RequestStop \/ Crash PROVE TypeInv'
  BY <1>4, PipelineDiedType, PumpJoinedType, WorkersJoinedType, FlushCommitsType,
     CloseMonitorType, ExitType, StartType, RequestStopType, CrashType DEF Main
<1>5. ASSUME UNCHANGED vars PROVE TypeInv'
  BY <1>5, LogFrame, RegFrame, MonitorFrame, QueueFrame, MainFrame, HistFrame,
     SeenFrame, HandsFrame DEF TypeInv, TypeOK, vars, monitorVars
<1> QED
  BY <1>1, <1>2, <1>3, <1>4, <1>5 DEF Next

(* Every variable keeps its type and no queue outgrows its capacity
   (BoundedQueue under the block policy), whatever the threads do. *)
THEOREM TypeCorrect == Spec => []TypeOK
<1>1. Init => TypeInv
  BY InitType
<1>2. TypeInv /\ [Next]_vars => TypeInv'
  BY TypeStep
<1>3. TypeInv => TypeOK
  BY DEF TypeInv
<1> QED
  BY <1>1, <1>2, <1>3, PTL DEF Spec

-----------------------------------------------------------------------------
(* No line vanishes between the file and the metrics.                      *)

LEMMA LinesInEmpty == LinesIn(<<>>) = {}
  BY DEF LinesIn

LEMMA LinesInOne == \A e : LinesIn(<<e>>) = {e.line}
  BY DEF LinesIn

LEMMA LinesInSingle ==
  ASSUME NEW S, NEW s \in Seq(S), Len(s) <= 1, s # <<>>
  PROVE  LinesIn(s) = {s[1].line}
<1>1. Len(s) \in Nat /\ Len(s) # 0 /\ DOMAIN s = 1 .. Len(s)
  OBVIOUS
<1>2. DOMAIN s = {1}
  BY <1>1
<1> QED
  BY <1>2 DEF LinesIn

LEMMA LinesInAppend ==
  ASSUME NEW S, NEW s \in Seq(S), NEW e
  PROVE  LinesIn(Append(s, e)) = LinesIn(s) \cup {e.line}
<1>1. DOMAIN Append(s, e) = DOMAIN s \cup {Len(s) + 1} /\ Len(s) \in Nat
  OBVIOUS
<1>2. \A n \in DOMAIN s : Append(s, e)[n] = s[n]
  OBVIOUS
<1>3. Append(s, e)[Len(s) + 1] = e
  OBVIOUS
<1> QED
  BY <1>1, <1>2, <1>3, Zenon DEF LinesIn

LEMMA LinesInTail ==
  ASSUME NEW S, NEW s \in Seq(S), s # <<>>
  PROVE  LinesIn(s) = {s[1].line} \cup LinesIn(Tail(s))
<1>1. /\ Len(s) \in Nat \ {0} /\ DOMAIN s = 1 .. Len(s)
      /\ DOMAIN Tail(s) = 1 .. Len(s) - 1
      /\ \A n \in 1 .. Len(s) - 1 : Tail(s)[n] = s[n + 1]
  OBVIOUS
<1>2. LinesIn(s) \subseteq {s[1].line} \cup LinesIn(Tail(s))
  <2> SUFFICES ASSUME NEW n \in DOMAIN s PROVE s[n].line \in {s[1].line} \cup LinesIn(Tail(s))
    BY DEF LinesIn
  <2>1. CASE n = 1
    BY <2>1
  <2>2. CASE n # 1
    <3>1. n - 1 \in DOMAIN Tail(s) /\ Tail(s)[n - 1] = s[n]
      BY <1>1, <2>2
    <3> QED
      BY <3>1 DEF LinesIn
  <2> QED
    BY <2>1, <2>2
<1>3. LinesIn(Tail(s)) \subseteq LinesIn(s)
  <2> SUFFICES ASSUME NEW n \in DOMAIN Tail(s) PROVE Tail(s)[n].line \in LinesIn(s)
    BY DEF LinesIn
  <2>1. n + 1 \in DOMAIN s /\ Tail(s)[n] = s[n + 1]
    BY <1>1
  <2> QED
    BY <2>1 DEF LinesIn
<1>4. s[1].line \in LinesIn(s)
  BY <1>1 DEF LinesIn
<1> QED
  BY <1>2, <1>3, <1>4

(* Where a line can be. *)
Accounted(l) == l \in InFlight \/ here[l] > 0 \/ l \in skipped

LEMMA KeptFrame == ReadIsKept /\ UNCHANGED queueVars /\ UNCHANGED histVars
                     => ReadIsKept'
  BY DEF ReadIsKept, InFlight, queueVars, histVars

LEMMA KeptReadLine == TypeInv /\ ReadIsKept /\ ReadLine => ReadIsKept'
<1> SUFFICES ASSUME TypeInv, ReadIsKept, ReadLine PROVE ReadIsKept'
  OBVIOUS
<1> DEFINE new == file[Source.ino][Source.off + 1]
<1>1. readBy' = readBy \cup {new} /\ LinesIn(hand') = {new}
  BY LinesInOne DEF ReadLine
<1>2. LinesIn(hand) = {}
  BY LinesInEmpty DEF ReadLine, TypeInv, Hands, PumpHands
<1>3. UNCHANGED <<lineQ, eventQ, batch, work, here, skipped>>
  BY DEF ReadLine
<1> HIDE DEF new
<1> QED
  BY <1>1, <1>2, <1>3 DEF ReadIsKept, InFlight

LEMMA KeptEnqueueLine == TypeInv /\ ReadIsKept /\ EnqueueLine => ReadIsKept'
<1> SUFFICES ASSUME TypeInv, ReadIsKept, EnqueueLine PROVE ReadIsKept'
  OBVIOUS
<1>1. LinesIn(lineQ') = LinesIn(lineQ) \cup {hand[1].line}
  BY LinesInAppend DEF EnqueueLine, TypeInv, TypeOK, QueueType
<1>2. LinesIn(hand) = {hand[1].line}
  BY LinesInSingle DEF EnqueueLine, TypeInv, TypeOK, QueueType, Hands, PumpHands
<1>3. UNCHANGED <<eventQ, batch, work, histVars>>
  BY DEF EnqueueLine
<1> QED
  BY <1>1, <1>2, <1>3 DEF ReadIsKept, InFlight, histVars

LEMMA KeptDrain == TypeInv /\ ReadIsKept /\ Drain => ReadIsKept'
<1> SUFFICES ASSUME TypeInv, ReadIsKept, Drain PROVE ReadIsKept'
  OBVIOUS
<1>1. batch' = eventQ /\ LinesIn(batch) = {}
  BY LinesInEmpty DEF Drain, CommitsDue, TypeInv, Hands, PumpHands
<1>2. UNCHANGED <<hand, lineQ, work, histVars>>
  BY DEF Drain
<1> QED
  BY <1>1, <1>2 DEF ReadIsKept, InFlight, histVars

LEMMA KeptCommitOne == TypeInv /\ ReadIsKept /\ CommitOne => ReadIsKept'
<1> SUFFICES ASSUME TypeInv, ReadIsKept, CommitOne PROVE ReadIsKept'
  OBVIOUS
<1>1. LinesIn(batch) = {batch[1].line} \cup LinesIn(Tail(batch))
  BY InHandFacts, LinesInTail DEF TypeInv, TypeOK, QueueType
<1>2. UNCHANGED <<hand, lineQ, eventQ, work, readBy, here>>
  BY CommitOneIs
<1>3. CASE batch' = Tail(batch) /\ skipped' = skipped \cup {batch[1].line}
  BY <1>1, <1>2, <1>3 DEF ReadIsKept, InFlight
<1>4. CASE batch' = batch /\ skipped' = skipped
  BY <1>2, <1>4 DEF ReadIsKept, InFlight
<1> QED
  BY <1>3, <1>4, CommitOneIs

LEMMA KeptIngest == TypeInv /\ ReadIsKept /\ Ingest => ReadIsKept'
<1> SUFFICES ASSUME TypeInv, ReadIsKept, Ingest PROVE ReadIsKept'
  OBVIOUS
<1>1. LinesIn(batch) = {batch[1].line} \cup LinesIn(batch') /\ batch[1].line \in Line
  BY InHandFacts, IngestIs, LinesInTail DEF TypeInv, TypeOK, QueueType
<1>2. UNCHANGED <<hand, lineQ, eventQ, work, readBy, skipped>>
  BY IngestIs
<1>3. here \in [Line -> Nat] /\ readBy \subseteq Line
  BY DEF TypeInv, TypeOK, HistType
<1>4. here'[batch[1].line] > 0 /\ \A l \in Line : here[l] > 0 => here'[l] > 0
  BY <1>1, <1>3, IngestIs
<1> QED
  BY <1>1, <1>2, <1>3, <1>4 DEF ReadIsKept, InFlight

LEMMA KeptGetLine ==
  ASSUME TypeInv, ReadIsKept, NEW w \in Workers, GetLine(w)
  PROVE  ReadIsKept'
<1>1. LinesIn(lineQ) = {lineQ[1].line} \cup LinesIn(lineQ')
  BY LinesInTail DEF GetLine, TypeInv, TypeOK, QueueType
<1>2. LinesIn(work[w]) = {} /\ LinesIn(work'[w]) = {lineQ[1].line}
  BY LinesInEmpty, LinesInOne
  DEF GetLine, TypeInv, TypeOK, QueueType, Hands, WorkerHands
<1>3. \A v \in Workers \ {w} : work'[v] = work[v]
  BY DEF GetLine, TypeInv, TypeOK, QueueType
<1>4. UNCHANGED <<hand, eventQ, batch, readBy, here, skipped>>
  BY DEF GetLine, histVars
<1> SUFFICES ASSUME NEW l \in readBy PROVE Accounted(l)'
  BY <1>4 DEF ReadIsKept, Accounted
<1>5. Accounted(l)
  BY DEF ReadIsKept, Accounted
<1>6. l \in InFlight => l \in InFlight'
  BY <1>1, <1>2, <1>3, <1>4 DEF InFlight
<1> QED
  BY <1>4, <1>5, <1>6 DEF Accounted

LEMMA KeptPutEvent ==
  ASSUME TypeInv, ReadIsKept, NEW w \in Workers, PutEvent(w)
  PROVE  ReadIsKept'
<1>1. LinesIn(eventQ') = LinesIn(eventQ) \cup {work[w][1].line}
  BY LinesInAppend DEF PutEvent, TypeInv, TypeOK, QueueType
<1>2. LinesIn(work[w]) = {work[w][1].line}
  BY LinesInSingle DEF PutEvent, TypeInv, TypeOK, QueueType, Hands, WorkerHands
<1>3. \A v \in Workers \ {w} : work'[v] = work[v]
  BY DEF PutEvent, TypeInv, TypeOK, QueueType
<1>4. UNCHANGED <<hand, lineQ, batch, readBy, here, skipped>>
  BY DEF PutEvent, histVars
<1> SUFFICES ASSUME NEW l \in readBy PROVE Accounted(l)'
  BY <1>4 DEF ReadIsKept, Accounted
<1>5. Accounted(l)
  BY DEF ReadIsKept, Accounted
<1>6. l \in InFlight => l \in InFlight'
  BY <1>1, <1>2, <1>3, <1>4 DEF InFlight
<1> QED
  BY <1>4, <1>5, <1>6 DEF Accounted

LEMMA KeptQuit ==
  ASSUME ReadIsKept, NEW w \in Workers, Quit(w)
  PROVE  ReadIsKept'
  BY DEF Quit, ReadIsKept, InFlight, histVars

LEMMA KeptGone == ProcessGone => ReadIsKept'
  BY DEF ProcessGone, ReadIsKept

LEMMA KeptPump == TypeInv /\ ReadIsKept /\ Pump => ReadIsKept'
<1> SUFFICES ASSUME TypeInv, ReadIsKept, Pump PROVE ReadIsKept'
  OBVIOUS
<1>1. CASE ReadLine
  BY <1>1, KeptReadLine
<1>2. CASE EnqueueLine
  BY <1>2, KeptEnqueueLine
<1>3. CASE Drain
  BY <1>3, KeptDrain
<1>4. CASE CommitOne \/ Ingest
  BY <1>4, KeptCommitOne, KeptIngest
<1>5. CASE PollBegin \/ PumpExit \/ BackfillNext \/ Stat \/ Open \/ RetiredNext
           \/ ActiveDone \/ Checkpoint \/ PumpDies \/ CommitDone
  BY <1>5, KeptFrame DEF PollBegin, PumpExit, BackfillNext, Stat, Open, RetiredNext,
     ActiveDone, Checkpoint, PumpDies, CommitDone
<1> QED
  BY <1>1, <1>2, <1>3, <1>4, <1>5 DEF Pump

LEMMA KeptStep == TypeInv /\ ReadIsKept /\ [Next]_vars => ReadIsKept'
<1> SUFFICES ASSUME TypeInv, ReadIsKept, [Next]_vars PROVE ReadIsKept'
  OBVIOUS
<1>1. CASE Write \/ Rename \/ Create \/ Reopen \/ Truncate
  BY <1>1, KeptFrame DEF Write, Rename, Create, Reopen, Truncate, agentVars
<1>2. CASE Pump
  BY <1>2, KeptPump
<1>3. ASSUME NEW w \in Workers, Worker(w) PROVE ReadIsKept'
  BY <1>3, KeptGetLine, KeptPutEvent, KeptQuit DEF Worker
<1>4. CASE RequestStop \/ Main
  <2>1. CASE Exit
    BY <2>1, KeptGone DEF Exit
  <2>2. CASE RequestStop \/ PipelineDied \/ PumpJoined \/ WorkersJoined
             \/ FlushCommits \/ CloseMonitor \/ Start
    BY <2>2, KeptFrame DEF RequestStop, PipelineDied, PumpJoined, WorkersJoined,
       FlushCommits, CloseMonitor, Start
  <2> QED
    BY <1>4, <2>1, <2>2 DEF Main
<1>5. CASE Crash
  BY <1>5, KeptGone DEF Crash
<1>6. CASE UNCHANGED vars
  BY <1>6, KeptFrame DEF vars
<1> QED
  BY <1>1, <1>2, <1>3, <1>4, <1>5, <1>6 DEF Next

(* What a process has read is in a queue, in a worker's hands, ingested or
   suppressed: no stage of the pipeline, under any interleaving with rotations,
   failing saves and a shutdown, lets a line vanish. *)
THEOREM NothingVanishes == Spec => []ReadIsKept
<1>1. Init => ReadIsKept
  BY DEF Init, ReadIsKept
<1>2. Init => TypeInv
  BY InitType
<1>3. TypeInv /\ [Next]_vars => TypeInv'
  BY TypeStep
<1>4. TypeInv /\ ReadIsKept /\ [Next]_vars => ReadIsKept'
  BY KeptStep
<1> QED
  BY <1>1, <1>2, <1>3, <1>4, PTL DEF Spec

-----------------------------------------------------------------------------
(* The durable offsets.                                                    *)

(* What is on disk was in the registry once, and the registry only grows; a
   new process reads back what is on disk. *)
DurableBehind == \A i \in Inode : disk[i] <= reg[i]
Grown == \A i \in Inode : disk'[i] >= disk[i]

LEMMA OffsetsFrame ==
  ASSUME RegType, DurableBehind, UNCHANGED <<disk, reg>>
  PROVE  DurableBehind' /\ Grown
  BY DEF RegType, DurableBehind, Grown

LEMMA SaveGrows ==
  ASSUME RegType, DurableBehind, Save, UNCHANGED reg
  PROVE  DurableBehind' /\ Grown
<1>1. CASE disk' = reg
  BY <1>1 DEF RegType, DurableBehind, Grown
<1>2. CASE UNCHANGED disk
  BY <1>2, OffsetsFrame
<1> QED
  BY <1>1, <1>2 DEF Save

LEMMA AckGrows ==
  ASSUME TypeInv, DurableBehind, CommitOne
  PROVE  DurableBehind' /\ Grown
<1>1. batch[1].off \in Nat
  BY InHandFacts
<1>2. RegType /\ disk' = disk
  BY DEF CommitOne, TypeInv, TypeOK
<1>3. \A i \in Inode : reg'[i] >= reg[i]
  <2>1. CASE UNCHANGED reg
    BY <2>1, <1>2 DEF RegType
  <2>2. CASE reg' = CommitOffset(harv.ino, batch[1].off + 1)
    BY <2>2, <1>1, <1>2 DEF RegType, CommitOffset
  <2> QED
    BY <2>1, <2>2 DEF CommitOne, AckLine
<1>4. reg' \in [Inode -> Nat]
  BY CommitOneType DEF TypeInv, TypeOK, RegType
<1> QED
  BY <1>2, <1>3, <1>4 DEF RegType, DurableBehind, Grown

LEMMA GoneKeepsDisk ==
  ASSUME RegType, ProcessGone
  PROVE  DurableBehind' /\ Grown
  BY DEF ProcessGone, RegType, DurableBehind, Grown

LEMMA OffsetsStep ==
  ASSUME TypeInv, DurableBehind, [Next]_vars
  PROVE  DurableBehind' /\ Grown
<1>0. RegType
  BY DEF TypeInv, TypeOK
<1>1. CASE Write \/ Rename \/ Create \/ Reopen \/ Truncate
  BY <1>0, <1>1, OffsetsFrame
  DEF Write, Rename, Create, Reopen, Truncate, agentVars, regVars
<1>2. CASE Pump
  <2>1. CASE CommitOne
    BY <2>1, AckGrows
  <2>2. CASE Checkpoint
    BY <1>0, <2>2, SaveGrows, OffsetsFrame DEF Checkpoint
  <2>3. CASE \/ PollBegin \/ PumpExit \/ ReadLine \/ BackfillNext \/ Stat \/ Open
             \/ RetiredNext \/ ActiveDone \/ PumpDies \/ EnqueueLine \/ Drain
             \/ Ingest \/ CommitDone
    BY <1>0, <2>3, OffsetsFrame DEF PollBegin, PumpExit, ReadLine, BackfillNext, Stat,
       Open, RetiredNext, ActiveDone, PumpDies, EnqueueLine, Drain, Ingest, CommitDone, regVars
  <2> QED
    BY <1>2, <2>1, <2>2, <2>3 DEF Pump
<1>3. ASSUME NEW w \in Workers, Worker(w) PROVE DurableBehind' /\ Grown
  BY <1>0, <1>3, OffsetsFrame DEF Worker, GetLine, PutEvent, Quit, regVars
<1>4. CASE RequestStop \/ Main \/ Crash
  <2>1. CASE Exit \/ Crash
    BY <1>0, <2>1, GoneKeepsDisk DEF Exit, Crash
  <2>2. CASE FlushCommits
    BY <1>0, <2>2, SaveGrows DEF FlushCommits
  <2>3. CASE CloseMonitor
    BY <1>0, <2>3, SaveGrows, OffsetsFrame DEF CloseMonitor
  <2>4. CASE RequestStop \/ PipelineDied \/ PumpJoined \/ WorkersJoined \/ Start
    BY <1>0, <2>4, OffsetsFrame
    DEF RequestStop, PipelineDied, PumpJoined, WorkersJoined, Start, regVars
  <2> QED
    BY <1>4, <2>1, <2>2, <2>3, <2>4 DEF Main
<1>5. CASE UNCHANGED vars
  BY <1>0, <1>5, OffsetsFrame DEF vars, regVars
<1> QED
  BY <1>1, <1>2, <1>3, <1>4, <1>5 DEF Next

(* FR-PIP-006: the durable offset of a file never moves back, whatever order
   the acknowledgements come in, whichever saves fail and however often the
   process dies. *)
THEOREM OffsetsNeverBack == Spec => DurableMonotone
<1>1. Init => TypeInv
  BY InitType
<1>2. TypeInv /\ [Next]_vars => TypeInv'
  BY TypeStep
<1>3. Init => DurableBehind
  BY DEF Init, DurableBehind
<1>4. TypeInv /\ DurableBehind /\ [Next]_vars => DurableBehind'
  BY OffsetsStep
<1>5. TypeInv /\ DurableBehind /\ [Next]_vars
        => [\A i \in Inode : disk'[i] >= disk[i]]_vars
  BY OffsetsStep DEF Grown
<1> QED
  BY <1>1, <1>2, <1>3, <1>4, <1>5, PTL DEF Spec, DurableMonotone

-----------------------------------------------------------------------------
(***************************************************************************)
(* The duplicate filter of LogPipeline takes nothing that is new for a     *)
(* duplicate, for every number of workers, lines, rotations, crashes and   *)
(* stops and every capacity, as long as no file is truncated in place.     *)
(*                                                                         *)
(* The filter compares positions and the metrics count lines.  What makes  *)
(* the two agree is that a file only grows: the line at a position is the  *)
(* line that was read there.                                               *)
(***************************************************************************)

(* An item is still the line at its position. *)
HasLine(i, k) == k < Len(file[i])
OnFile(e) == HasLine(e.ino, e.off) /\ file[e.ino][e.off + 1] = e.line
AllOnFile(s) == \A n \in DOMAIN s : OnFile(s[n])
Placed ==
  /\ AllOnFile(hand) /\ AllOnFile(lineQ) /\ AllOnFile(eventQ) /\ AllOnFile(batch)
  /\ \A w \in Workers : AllOnFile(work[w])

(* What the filter remembers was ingested, but for the event in hand, whose turn
   is next. *)
IsInHand(p) == act = "ingest" /\ p = Position(batch[1])
Remembers(p) == HasLine(p[1], p[2]) /\ (Ingested(file[p[1]][p[2] + 1]) \/ IsInHand(p))
Remembered == \A n \in DOMAIN seen : Remembers(seen[n])

FilterInv == Placed /\ Remembered /\ SkippedWereIngested

-----------------------------------------------------------------------------
(* A file grows: what is in it stays where it is. *)

LEMMA WriteKeepsLines ==
  ASSUME TypeInv, Write, NEW i \in Inode, NEW k \in Nat, HasLine(i, k)
  PROVE  HasLine(i, k)' /\ file'[i][k + 1] = file[i][k + 1]
<1>1. writer \in Inode /\ file \in [Inode -> Seq(Line)]
  BY DEF TypeInv, TypeOK, LogType
<1>2. CASE i # writer
  BY <1>1, <1>2 DEF Write, HasLine
<1>3. CASE i = writer
  <2>1. file'[i] = Append(file[i], written + 1) /\ file[i] \in Seq(Line)
    BY <1>1, <1>3 DEF Write
  <2>2. Len(file'[i]) = Len(file[i]) + 1 /\ k + 1 \in 1 .. Len(file[i])
    BY <2>1 DEF HasLine
  <2>3. file'[i][k + 1] = file[i][k + 1]
    BY <2>1, <2>2
  <2> QED
    BY <2>2, <2>3 DEF HasLine
<1> QED
  BY <1>2, <1>3

LEMMA WriteKeepsPlaced ==
  ASSUME TypeInv, Write, NEW s \in Seq(Item), AllOnFile(s)
  PROVE  AllOnFile(s)'
<1> SUFFICES ASSUME NEW n \in DOMAIN s PROVE OnFile(s[n])'
  BY DEF AllOnFile
<1>1. s[n] \in Item
  OBVIOUS
<1>2. s[n].ino \in Inode /\ s[n].off \in Nat /\ OnFile(s[n])
  BY <1>1 DEF AllOnFile, Item
<1> QED
  BY <1>2, WriteKeepsLines DEF OnFile

LEMMA FilterWrite ==
  ASSUME TypeInv, FilterInv, Write
  PROVE  FilterInv'
<1>1. UNCHANGED <<hand, lineQ, eventQ, batch, work, seen, here, before, skipped, act>>
  BY DEF Write, agentVars, queueVars, histVars, monitorVars
<1>2. /\ hand \in Seq(Item) /\ lineQ \in Seq(Item) /\ eventQ \in Seq(Item)
      /\ batch \in Seq(Item) /\ \A w \in Workers : work[w] \in Seq(Item)
  BY DEF TypeInv, TypeOK, QueueType
<1>3. Placed'
  <2>1. AllOnFile(hand)' /\ AllOnFile(lineQ)' /\ AllOnFile(eventQ)' /\ AllOnFile(batch)'
    <3>1. \A s \in Seq(Item) : AllOnFile(s) => \A n \in DOMAIN s : OnFile(s[n])'
      BY WriteKeepsPlaced DEF AllOnFile
    <3> QED
      BY <3>1, <1>1, <1>2 DEF FilterInv, Placed, AllOnFile, OnFile, HasLine
  <2>2. \A w \in Workers : AllOnFile(work[w])'
    <3>1. \A s \in Seq(Item) : AllOnFile(s) => \A n \in DOMAIN s : OnFile(s[n])'
      BY WriteKeepsPlaced DEF AllOnFile
    <3> QED
      BY <3>1, <1>1, <1>2 DEF FilterInv, Placed, AllOnFile, OnFile, HasLine
  <2> QED
    BY <2>1, <2>2 DEF Placed
<1>4. Remembered'
  <2> SUFFICES ASSUME NEW n \in DOMAIN seen PROVE Remembers(seen[n])'
    BY <1>1 DEF Remembered
  <2>1. seen[n] \in Inode \X Nat
    BY DEF TypeInv, TypeOK, SeenType
  <2>2. seen[n][1] \in Inode /\ seen[n][2] \in Nat /\ Remembers(seen[n])
    BY <2>1 DEF FilterInv, Remembered
  <2>3. \A i \in Inode, k \in Nat : k < Len(file[i]) =>
          k < Len(file'[i]) /\ file'[i][k + 1] = file[i][k + 1]
    BY WriteKeepsLines DEF HasLine
  <2> QED
    BY <1>1, <2>2, <2>3 DEF Remembers, IsInHand, Ingested, HasLine
<1> QED
  BY <1>1, <1>3, <1>4 DEF FilterInv, SkippedWereIngested, Ingested

-----------------------------------------------------------------------------
(* Items move from place to place. *)

LEMMA FilterFrame ==
  ASSUME FilterInv, UNCHANGED <<file, queueVars, seen, here, before, skipped>>,
         act = "ingest" => UNCHANGED act
  PROVE  FilterInv'
  BY DEF FilterInv, Placed, AllOnFile, OnFile, HasLine, Remembered, Remembers, IsInHand,
     SkippedWereIngested, Ingested, queueVars

LEMMA KnowledgeFrame ==
  ASSUME FilterInv, UNCHANGED <<file, seen, here, before, skipped>>, Placed',
         act = "ingest" => UNCHANGED <<act, batch>>
  PROVE  FilterInv'
  BY DEF FilterInv, HasLine, Remembered, Remembers, IsInHand, SkippedWereIngested, Ingested

LEMMA AppendOnFile ==
  ASSUME NEW s \in Seq(Item), NEW e \in Item, AllOnFile(s), OnFile(e)
  PROVE  AllOnFile(Append(s, e))
  BY DEF AllOnFile

LEMMA TailOnFile ==
  ASSUME NEW s \in Seq(Item), s # <<>>, AllOnFile(s)
  PROVE  s[1] \in Item /\ OnFile(s[1]) /\ AllOnFile(Tail(s))
  BY DEF AllOnFile

LEMMA FilterReadLine ==
  ASSUME TypeInv, FilterInv, ReadLine
  PROVE  FilterInv'
<1>1. Source \in Harvester /\ Source.ino \in Inode
  BY ReadLineFacts
<1>2. Source.off \in Nat /\ file[Source.ino] \in Seq(Line)
  BY <1>1 DEF Harvester, TypeInv, TypeOK, LogType
<1>3. HasLine(Source.ino, Source.off)
  BY <1>2 DEF ReadLine, AtEOF, HasLine
<1>4. AllOnFile(hand')
  BY <1>3 DEF ReadLine, AllOnFile, OnFile
<1>5. UNCHANGED <<file, lineQ, eventQ, batch, work, seen, here, before, skipped>>
  BY DEF ReadLine, logVars
<1>6. Placed'
  BY <1>4, <1>5 DEF FilterInv, Placed, AllOnFile, OnFile, HasLine
<1> QED
  BY <1>5, <1>6, KnowledgeFrame DEF ReadLine

LEMMA FilterEnqueueLine ==
  ASSUME TypeInv, FilterInv, EnqueueLine
  PROVE  FilterInv'
<1>1. hand \in Seq(Item) /\ hand # <<>> /\ lineQ \in Seq(Item)
  BY DEF TypeInv, TypeOK, QueueType, Hands, PumpHands, EnqueueLine
<1>2. hand[1] \in Item /\ OnFile(hand[1]) /\ AllOnFile(lineQ)
  BY <1>1, TailOnFile DEF FilterInv, Placed
<1>3. AllOnFile(lineQ')
  BY <1>1, <1>2, AppendOnFile DEF EnqueueLine
<1>4. UNCHANGED <<file, eventQ, batch, work, seen, here, before, skipped>> /\ hand' = <<>>
  BY DEF EnqueueLine, logVars, histVars
<1>5. Placed'
  BY <1>3, <1>4 DEF FilterInv, Placed, AllOnFile, OnFile, HasLine
<1> QED
  BY <1>4, <1>5, KnowledgeFrame DEF EnqueueLine

LEMMA FilterDrain ==
  ASSUME FilterInv, Drain
  PROVE  FilterInv'
<1>1. UNCHANGED <<file, hand, lineQ, work, seen, here, before, skipped>>
      /\ batch' = eventQ /\ eventQ' = <<>>
  BY DEF Drain, logVars, histVars
<1>2. Placed'
  BY <1>1 DEF FilterInv, Placed, AllOnFile, OnFile, HasLine
<1> QED
  BY <1>1, <1>2, KnowledgeFrame DEF Drain, CommitsDue

LEMMA FilterGetLine ==
  ASSUME TypeInv, FilterInv, NEW w \in Workers, GetLine(w)
  PROVE  FilterInv'
<1>1. lineQ \in Seq(Item) /\ lineQ # <<>> /\ AllOnFile(lineQ)
  BY DEF TypeInv, TypeOK, QueueType, GetLine, FilterInv, Placed
<1>2. OnFile(lineQ[1]) /\ AllOnFile(Tail(lineQ))
  BY <1>1, TailOnFile
<1>3. work' = [work EXCEPT ![w] = <<lineQ[1]>>] /\ work \in [Workers -> Seq(Item)]
  BY DEF GetLine, TypeInv, TypeOK, QueueType
<1>4. UNCHANGED <<file, hand, eventQ, batch, seen, here, before, skipped>>
      /\ lineQ' = Tail(lineQ)
  BY DEF GetLine, logVars, histVars
<1>5. \A v \in Workers : AllOnFile(work'[v])
  <2>1. AllOnFile(work'[w])
    BY <1>2, <1>3 DEF AllOnFile
  <2>2. \A v \in Workers \ {w} : work'[v] = work[v]
    BY <1>3
  <2> QED
    BY <2>1, <2>2 DEF FilterInv, Placed
<1>6. Placed'
  BY <1>2, <1>4, <1>5 DEF FilterInv, Placed, AllOnFile, OnFile, HasLine
<1> QED
  BY <1>4, <1>6, KnowledgeFrame DEF GetLine, monitorVars

LEMMA FilterPutEvent ==
  ASSUME TypeInv, FilterInv, NEW w \in Workers, PutEvent(w)
  PROVE  FilterInv'
<1>1. work[w] \in Seq(Item) /\ work[w] # <<>> /\ eventQ \in Seq(Item)
  BY DEF TypeInv, TypeOK, QueueType, Hands, WorkerHands, PutEvent
<1>2. work[w][1] \in Item /\ OnFile(work[w][1]) /\ AllOnFile(eventQ)
  BY <1>1, TailOnFile DEF FilterInv, Placed
<1>3. AllOnFile(eventQ')
  BY <1>1, <1>2, AppendOnFile DEF PutEvent
<1>4. work' = [work EXCEPT ![w] = <<>>] /\ work \in [Workers -> Seq(Item)]
  BY DEF PutEvent, TypeInv, TypeOK, QueueType
<1>5. UNCHANGED <<file, hand, lineQ, batch, seen, here, before, skipped>>
  BY DEF PutEvent, logVars, histVars
<1>6. \A v \in Workers : AllOnFile(work'[v])
  BY <1>4 DEF FilterInv, Placed, AllOnFile
<1>7. Placed'
  BY <1>3, <1>5, <1>6 DEF FilterInv, Placed, AllOnFile, OnFile, HasLine
<1> QED
  BY <1>5, <1>7, KnowledgeFrame DEF PutEvent, monitorVars

-----------------------------------------------------------------------------
(* The filter.  What it remembers after a step, it remembered before, or it is
   the position just ingested. *)

Among(t, s) == \A m \in DOMAIN t : \E n \in DOMAIN s : t[m] = s[n]

LEMMA SubSeqAmong ==
  ASSUME NEW S, NEW s \in Seq(S), NEW a \in Nat \ {0}, NEW b \in 0 .. Len(s)
  PROVE  SubSeq(s, a, b) \in Seq(S) /\ Among(SubSeq(s, a, b), s)
<1>1. Len(s) \in Nat /\ a \in Int /\ b \in Int /\ \A i \in a .. b : i \in 1 .. Len(s) /\ s[i] \in S
  OBVIOUS
<1> DEFINE t == SubSeq(s, a, b)
<1>2. /\ t \in Seq(S) /\ Len(t) = IF a <= b THEN b - a + 1 ELSE 0
      /\ \A i \in 1 .. b - a + 1 : t[i] = s[a + i - 1]
  BY <1>1, SubSeqProperties
<1> HIDE DEF t
<1>3. ASSUME NEW m \in DOMAIN t PROVE \E p \in DOMAIN s : t[m] = s[p]
  <2>1. m \in 1 .. Len(t) /\ a <= b
    BY <1>1, <1>2
  <2>2. m \in 1 .. b - a + 1 /\ a + m - 1 \in a .. b
    BY <1>1, <1>2, <2>1
  <2>3. t[m] = s[a + m - 1] /\ a + m - 1 \in DOMAIN s
    BY <1>1, <1>2, <2>2
  <2> QED
    BY <2>3
<1> QED
  BY <1>2, <1>3 DEF Among, t

LEMMA ConcatAmong ==
  ASSUME NEW S, NEW s \in Seq(S), NEW t \in Seq(S), NEW u \in Seq(S),
         Among(t, s), Among(u, s)
  PROVE  t \o u \in Seq(S) /\ Among(t \o u, s)
<1>1. /\ t \o u \in Seq(S) /\ Len(t \o u) = Len(t) + Len(u)
      /\ \A i \in 1 .. Len(t) + Len(u) :
           (t \o u)[i] = IF i <= Len(t) THEN t[i] ELSE u[i - Len(t)]
  BY ConcatProperties
<1>2. Len(t) \in Nat /\ Len(u) \in Nat /\ DOMAIN t = 1 .. Len(t) /\ DOMAIN u = 1 .. Len(u)
      /\ DOMAIN (t \o u) = 1 .. Len(t) + Len(u)
  BY <1>1
<1>3. ASSUME NEW m \in 1 .. Len(t) + Len(u) PROVE \E p \in DOMAIN s : (t \o u)[m] = s[p]
  <2>1. CASE m <= Len(t)
    <3>1. m \in DOMAIN t /\ (t \o u)[m] = t[m]
      BY <1>1, <1>2, <2>1
    <3> QED
      BY <3>1 DEF Among
  <2>2. CASE ~(m <= Len(t))
    <3>1. m - Len(t) \in DOMAIN u /\ (t \o u)[m] = u[m - Len(t)]
      BY <1>1, <1>2, <2>2
    <3> QED
      BY <3>1 DEF Among
  <2> QED
    BY <2>1, <2>2
<1> QED
  BY <1>1, <1>2, <1>3 DEF Among

LEMMA AppendAmong ==
  ASSUME NEW S, NEW s \in Seq(S), NEW t \in Seq(S), Among(t, s), NEW n \in DOMAIN s
  PROVE  Among(Append(t, s[n]), s)
<1>1. \A m \in DOMAIN Append(t, s[n]) :
        Append(t, s[n])[m] = s[n] \/ (m \in DOMAIN t /\ Append(t, s[n])[m] = t[m])
  OBVIOUS
<1> QED
  BY <1>1 DEF Among

LEMMA MoveToEndAmong ==
  ASSUME NEW S, NEW s \in Seq(S), NEW n \in 1 .. Len(s)
  PROVE  Among(MoveToEnd(s, n), s)
<1> DEFINE front == SubSeq(s, 1, n - 1)
           back == SubSeq(s, n + 1, Len(s))
<1>1. Len(s) \in Nat /\ n - 1 \in 0 .. Len(s) /\ n + 1 \in Nat \ {0} /\ Len(s) \in 0 .. Len(s)
      /\ n \in DOMAIN s
  OBVIOUS
<1>2. front \in Seq(S) /\ Among(front, s)
  BY <1>1, SubSeqAmong
<1>3. back \in Seq(S) /\ Among(back, s)
  BY <1>1, SubSeqAmong
<1>4. MoveToEnd(s, n) = Append(front \o back, s[n])
  BY DEF MoveToEnd
<1> HIDE DEF front, back
<1>5. front \o back \in Seq(S) /\ Among(front \o back, s)
  BY <1>2, <1>3, ConcatAmong
<1> QED
  BY <1>1, <1>4, <1>5, AppendAmong

LEMMA IngestAmong ==
  ASSUME NEW S, NEW live \in Seq(S), NEW p \in S,
         NEW m \in DOMAIN WithinCapacity(Append(live, p))
  PROVE  \/ WithinCapacity(Append(live, p))[m] = p
         \/ \E n \in DOMAIN live : WithinCapacity(Append(live, p))[m] = live[n]
<1> DEFINE longer == Append(live, p)
<1>1. longer \in Seq(S) /\ Len(longer) = Len(live) + 1 /\ Len(live) \in Nat
      /\ \A n \in DOMAIN longer : longer[n] = p \/ \E q \in DOMAIN live : longer[n] = live[q]
  OBVIOUS
<1> HIDE DEF longer
<1>2. CASE WithinCapacity(longer) = longer
  BY <1>1, <1>2 DEF longer
<1>3. CASE WithinCapacity(longer) = Tail(longer)
  <2>1. m \in DOMAIN Tail(longer)
    BY <1>3 DEF longer
  <2>2. Tail(longer)[m] = longer[m + 1] /\ m + 1 \in DOMAIN longer
    BY <1>1, <2>1
  <2> QED
    BY <1>1, <1>3, <2>2 DEF longer
<1> QED
  BY <1>2, <1>3 DEF WithinCapacity, longer

LEMMA FilterCommitOne ==
  ASSUME TypeInv, FilterInv, CommitOne
  PROVE  FilterInv'
<1> DEFINE e == batch[1]
<1>1. /\ e.ino \in Inode /\ e.off \in Nat /\ e.line \in Line
      /\ Position(e) \in Inode \X Nat
  BY InHandFacts
<1>2. batch \in Seq(Item) /\ batch # <<>> /\ AllOnFile(batch)
  BY DEF CommitOne, TypeInv, TypeOK, QueueType, FilterInv, Placed
<1>3. OnFile(e) /\ AllOnFile(Tail(batch))
  BY <1>2, TailOnFile
<1>4. UNCHANGED <<file, hand, lineQ, eventQ, work, before, here>> /\ act = "commit"
  BY CommitOneIs DEF logVars
<1>5. Placed'
  <2>1. batch' = batch \/ batch' = Tail(batch)
    BY CommitOneIs
  <2>2. AllOnFile(batch')
    BY <1>2, <1>3, <2>1
  <2> QED
    BY <1>4, <2>2 DEF FilterInv, Placed, AllOnFile, OnFile, HasLine
<1>6. seen \in Seq(Inode \X Nat)
  BY DEF TypeInv, TypeOK, SeenType
<1>7. PICK k \in 0 .. Len(seen) :
        \/ SkipDuplicate(e, SubSeq(seen, k + 1, Len(seen)))
        \/ MarkProcessed(e, SubSeq(seen, k + 1, Len(seen)))
  BY DEF CommitOne
<1> DEFINE live == SubSeq(seen, k + 1, Len(seen))
<1>8. live \in Seq(Inode \X Nat) /\ Among(live, seen)
  <2>1. k + 1 \in Nat \ {0} /\ Len(seen) \in 0 .. Len(seen)
    BY <1>6
  <2> QED
    BY <1>6, <2>1, SubSeqAmong
<1>9. \A n \in DOMAIN live : HasLine(live[n][1], live[n][2])
                            /\ Ingested(file[live[n][1]][live[n][2] + 1])
  BY <1>4, <1>8 DEF Among, FilterInv, Remembered, Remembers, IsInHand
<1>10. SkipDuplicate(e, live) \/ MarkProcessed(e, live)
  BY <1>7
<1> HIDE DEF live, e
<1>11. CASE SkipDuplicate(e, live)
  <2>1. PICK n \in DOMAIN live : live[n] = Position(e) /\ seen' = MoveToEnd(live, n)
    BY <1>11 DEF SkipDuplicate
  <2>2. n \in 1 .. Len(live)
    BY <1>8
  <2>3. Among(seen', live)
    BY <1>8, <2>1, <2>2, MoveToEndAmong
  <2>4. skipped' = skipped \cup {e.line}
    BY <1>11 DEF SkipDuplicate
  <2>5. Remembered'
    BY <1>4, <1>9, <2>3 DEF Among, Remembered, Remembers, HasLine, Ingested
  <2>6. Ingested(e.line)
    BY <1>3, <1>9, <2>1 DEF Position, OnFile, HasLine
  <2>7. SkippedWereIngested'
    BY <1>4, <2>4, <2>6 DEF FilterInv, SkippedWereIngested, Ingested
  <2> QED
    BY <1>5, <2>5, <2>7 DEF FilterInv
<1>12. CASE MarkProcessed(e, live)
  <2>1. /\ seen' = WithinCapacity(Append(live, Position(e)))
        /\ UNCHANGED <<batch, skipped>> /\ act' = "ingest"
    BY <1>12 DEF MarkProcessed
  <2>3. ASSUME NEW m \in DOMAIN seen' PROVE Remembers(seen[m])'
    <3>1. Position(e) \in Inode \X Nat
      BY <1>1 DEF e
    <3>2. seen'[m] = Position(e) \/ \E n \in DOMAIN live : seen'[m] = live[n]
      BY <1>8, <2>1, <3>1, IngestAmong
    <3>3. CASE seen'[m] = Position(e)
      BY <1>3, <1>4, <2>1, <3>3 DEF Remembers, IsInHand, Position, OnFile, HasLine, e
    <3>4. CASE \E n \in DOMAIN live : seen'[m] = live[n]
      BY <1>4, <1>9, <3>4 DEF Remembers, HasLine, Ingested
    <3> QED
      BY <3>2, <3>3, <3>4
  <2>4. SkippedWereIngested'
    BY <1>4, <2>1 DEF FilterInv, SkippedWereIngested, Ingested
  <2>5. Remembered'
    BY <2>3 DEF Remembered
  <2> QED
    BY <1>5, <2>4, <2>5 DEF FilterInv
<1> QED
  BY <1>10, <1>11, <1>12

(* The event in hand is ingested: its position is remembered rightly from now on. *)
LEMMA FilterIngest ==
  ASSUME TypeInv, FilterInv, Ingest
  PROVE  FilterInv'
<1> DEFINE e == batch[1]
<1>1. batch \in Seq(Item) /\ batch # <<>> /\ AllOnFile(batch) /\ e.line \in Line
  BY InHandFacts DEF TypeInv, TypeOK, QueueType, FilterInv, Placed
<1>2. OnFile(e) /\ AllOnFile(Tail(batch))
  BY <1>1, TailOnFile
<1>3. /\ UNCHANGED <<file, hand, lineQ, eventQ, work, before, seen, skipped>>
      /\ batch' = Tail(batch) /\ here' = [here EXCEPT ![e.line] = @ + 1]
  BY IngestIs DEF logVars
<1>4. Placed'
  BY <1>2, <1>3 DEF FilterInv, Placed, AllOnFile, OnFile, HasLine
<1>5. here \in [Line -> Nat] /\ skipped \subseteq Line /\ seen \in Seq(Inode \X Nat)
      /\ file \in [Inode -> Seq(Line)]
  BY DEF TypeInv, TypeOK, HistType, SeenType, LogType
<1>6. \A l \in Line : Ingested(l) \/ l = e.line => l \in before' \/ here'[l] > 0
  BY <1>1, <1>3, <1>5 DEF Ingested
<1>7. ASSUME NEW n \in DOMAIN seen PROVE Remembers(seen[n])'
  <2>1. Remembers(seen[n]) /\ seen[n] \in Inode \X Nat
    BY <1>5 DEF FilterInv, Remembered
  <2>2. CASE IsInHand(seen[n])
    <3>1. file[seen[n][1]][seen[n][2] + 1] = e.line
      BY <1>2, <2>2 DEF IsInHand, Position, OnFile
    <3> QED
      BY <1>1, <1>3, <1>6, <2>1, <3>1 DEF Remembers, HasLine, Ingested
  <2>3. CASE Ingested(file[seen[n][1]][seen[n][2] + 1])
    <3>1. seen[n][1] \in Inode /\ seen[n][2] \in Nat /\ HasLine(seen[n][1], seen[n][2])
      BY <2>1 DEF Remembers
    <3>2. file[seen[n][1]][seen[n][2] + 1] \in Line
      BY <1>5, <3>1 DEF HasLine
    <3> QED
      BY <1>3, <1>6, <2>3, <3>1, <3>2 DEF Remembers, HasLine, Ingested
  <2> QED
    BY <2>1, <2>2, <2>3 DEF Remembers
<1>8. Remembered'
  BY <1>3, <1>7 DEF Remembered
<1>9. SkippedWereIngested'
  BY <1>3, <1>5, <1>6 DEF FilterInv, SkippedWereIngested, Ingested
<1> QED
  BY <1>4, <1>8, <1>9 DEF FilterInv

-----------------------------------------------------------------------------
LEMMA FilterGone == ProcessGone => FilterInv'
  BY DEF ProcessGone, FilterInv, Placed, AllOnFile, Remembered, SkippedWereIngested, Empty

LEMMA FilterPump ==
  ASSUME TypeInv, FilterInv, Pump
  PROVE  FilterInv'
<1>1. CASE ReadLine \/ EnqueueLine \/ Drain \/ CommitOne \/ Ingest
  BY <1>1, FilterReadLine, FilterEnqueueLine, FilterDrain, FilterCommitOne, FilterIngest
<1>2. CASE PollBegin \/ PumpExit \/ BackfillNext \/ Stat \/ Open \/ RetiredNext
           \/ ActiveDone \/ Checkpoint \/ PumpDies \/ CommitDone
  BY <1>2, FilterFrame DEF PollBegin, PumpExit, BackfillNext, Stat, Open, RetiredNext,
     ActiveDone, Checkpoint, PumpDies, CommitDone, logVars, histVars
<1> QED
  BY <1>1, <1>2 DEF Pump

LEMMA FilterStep ==
  ASSUME TypeInv, FilterInv, MaxTruncations = 0, [Next]_vars
  PROVE  FilterInv'
<1>1. CASE Rename \/ Create \/ Reopen
  BY <1>1, FilterFrame DEF Rename, Create, Reopen, agentVars, histVars, monitorVars
<1>2. CASE Truncate
  BY <1>2 DEF Truncate, TypeInv, TypeOK, LogType
<1>3. CASE Write
  BY <1>3, FilterWrite
<1>4. CASE Pump
  BY <1>4, FilterPump
<1>5. ASSUME NEW w \in Workers, Worker(w) PROVE FilterInv'
  <2>1. CASE GetLine(w) \/ PutEvent(w)
    BY <2>1, FilterGetLine, FilterPutEvent
  <2>2. CASE Quit(w)
    BY <2>2 DEF Quit, FilterInv, Placed, AllOnFile, OnFile, HasLine, Remembered,
       Remembers, IsInHand, SkippedWereIngested, Ingested, logVars, histVars, monitorVars
  <2> QED
    BY <1>5, <2>1, <2>2 DEF Worker
<1>6. CASE RequestStop \/ Main \/ Crash
  <2>1. CASE Exit \/ Crash
    BY <2>1, FilterGone DEF Exit, Crash
  <2>2. CASE RequestStop \/ PipelineDied \/ PumpJoined \/ WorkersJoined
             \/ FlushCommits \/ CloseMonitor \/ Start
    BY <2>2, FilterFrame DEF RequestStop, PipelineDied, PumpJoined, WorkersJoined,
       FlushCommits, CloseMonitor, Start, logVars, histVars, monitorVars
  <2> QED
    BY <1>6, <2>1, <2>2 DEF Main
<1>7. CASE UNCHANGED vars
  BY <1>7, FilterFrame DEF vars, logVars, histVars, monitorVars
<1> QED
  BY <1>1, <1>2, <1>3, <1>4, <1>5, <1>6, <1>7 DEF Next

(* FR-PIP-007: a line that ProcessedLineDeduper suppresses was ingested, however
   small the filter, however entries expire and however rotations, recovered
   archives, workers and restarts interleave; no file being truncated. *)
THEOREM SuppressedWereIngested ==
  ASSUME MaxTruncations = 0
  PROVE  Spec => []SkippedWereIngested
<1>1. Init => TypeInv
  BY InitType
<1>2. TypeInv /\ [Next]_vars => TypeInv'
  BY TypeStep
<1>3. Init => FilterInv
  BY DEF Init, FilterInv, Placed, AllOnFile, Remembered, SkippedWereIngested, Empty
<1>4. TypeInv /\ FilterInv /\ [Next]_vars => FilterInv'
  BY FilterStep
<1>5. FilterInv => SkippedWereIngested
  BY DEF FilterInv
<1> QED
  BY <1>1, <1>2, <1>3, <1>4, <1>5, PTL DEF Spec

-----------------------------------------------------------------------------
(***************************************************************************)
(* No line counts twice in one life of the process, for every number of    *)
(* workers, lines, rotations, truncations, crashes and stops and every     *)
(* capacity of the queues and of the duplicate filter.                     *)
(*                                                                         *)
(* The duplicate filter has no part in it.  A life opens every file once,  *)
(* a read position only moves over lines not read yet, and a line that was *)
(* read is in one place at a time until it is ingested.  Only the thread   *)
(* that outlives a monitor already closed may read a line again, and by    *)
(* then no worker is left to pass it on.                                   *)
(***************************************************************************)

(* Every line is written once, to one place. *)
Distinct ==
  /\ \A i, j \in Inode : \A k \in 1 .. Len(file[i]), m \in 1 .. Len(file[j]) :
       file[i][k] = file[j][m] => i = j /\ k = m
  /\ \A i \in Inode : \A k \in 1 .. Len(file[i]) : file[i][k] <= written
  /\ \A l \in readBy : l <= written

(* The main thread waits for the workers. *)
AllStopped == \A w \in Workers : wpc[w] = "stopped"
Joined == main \in {"flushing", "closing", "exiting"} => AllStopped

-----------------------------------------------------------------------------
(* The open files. *)

(* Each open file is open once, and all but the active one are archives. *)
OpenOnce ==
  /\ \A m, n \in DOMAIN backfill : backfill[m].ino = backfill[n].ino => m = n
  /\ \A m, n \in DOMAIN retired : retired[m].ino = retired[n].ino => m = n
  /\ \A m \in DOMAIN backfill, n \in DOMAIN retired : backfill[m].ino # retired[n].ino
  /\ \A m \in DOMAIN backfill : /\ backfill[m].ino # harv.ino
                                /\ backfill[m].ino \in Archives
  /\ \A n \in DOMAIN retired : /\ retired[n].ino # harv.ino
                               /\ retired[n].ino \in Archives
  /\ harv.ino <= created

(* Where a file may be opened none is active; before the first poll of a life
   none was, nor read. *)
Opening ==
  /\ stage \in {"open", "openRotated"} => harv.ino = 0
  /\ ~scanned => /\ stage \in {"top", "down", "done"}
                 /\ readBy = {} /\ harv.ino = 0 /\ retired = <<>>

(* What was read of an open file lies before its read position; what is open
   no more is an archive. *)
BehindIn(f, read, h) ==
  \A k \in 1 .. Len(f[h.ino]) :
    f[h.ino][k] \in read => k <= h.off /\ h.off <= Len(f[h.ino])
Behind(h) == BehindIn(file, readBy, h)
ReadElsewhere ==
  \A i \in Inode : \A k \in 1 .. Len(file[i]) :
    file[i][k] \in readBy /\ i # harv.ino => i \in Archives
Cursors ==
  /\ \A m \in DOMAIN backfill : Behind(backfill[m])
  /\ \A n \in DOMAIN retired : Behind(retired[n])
  /\ harv.ino # 0 => Behind(harv)
  /\ ReadElsewhere

Reading == OpenOnce /\ Opening /\ Cursors

-----------------------------------------------------------------------------
(* The places a line can be in. *)

OneEach(s) == \A m, n \in DOMAIN s : s[m].line = s[n].line => m = n

(* Behind the workers: on the way to the metrics once, or there once. *)
Committing ==
  /\ OneEach(eventQ) /\ OneEach(batch)
  /\ LinesIn(eventQ) \cap LinesIn(batch) = {}
  /\ \A l \in LinesIn(eventQ) \cup LinesIn(batch) : here[l] = 0
  /\ \A l \in Line : here[l] <= 1

(* Before them. *)
Waiting == LinesIn(hand) \cup LinesIn(lineQ)
Past == LinesIn(eventQ) \cup LinesIn(batch)
Parsing ==
  /\ OneEach(lineQ)
  /\ LinesIn(hand) \cap LinesIn(lineQ) = {}
  /\ Waiting \cap Past = {}
  /\ \A w \in Workers : LinesIn(work[w]) \cap (Waiting \cup Past) = {}
  /\ \A v, w \in Workers : v # w => LinesIn(work[v]) \cap LinesIn(work[w]) = {}
  /\ \A l \in Waiting : here[l] = 0
  /\ \A w \in Workers : \A l \in LinesIn(work[w]) : here[l] = 0

(* Whatever is in a place, or counted, was read. *)
WasRead ==
  /\ InFlight \subseteq readBy
  /\ \A l \in Line : here[l] > 0 => l \in readBy

OnceInv ==
  /\ Distinct /\ Joined /\ Committing
  /\ main # "exiting" => Reading /\ Parsing /\ WasRead

-----------------------------------------------------------------------------
(* The log. *)

LEMMA ArchivesAre ==
  ASSUME TypeInv
  PROVE  /\ Archives \subseteq Inode /\ 0 \notin Archives
         /\ path # 0 => path \in Inode /\ path = created /\ path \notin Archives
         /\ \A i \in Inode : i <= created /\ i # path => i \in Archives
<1>1. created \in Inode /\ path \in {0, created} /\ MaxRotations \in Nat
  BY ConstantsAssumption DEF TypeInv, TypeOK, LogType
<1> QED
  BY <1>1 DEF Archives, Inode

LEMMA WriterAppends ==
  ASSUME TypeInv, Write
  PROVE  /\ writer \in Inode /\ file \in [Inode -> Seq(Line)] /\ written \in Nat
         /\ written' = written + 1
         /\ \A i \in Inode \ {writer} : file'[i] = file[i]
         /\ Len(file'[writer]) = Len(file[writer]) + 1
         /\ file'[writer][Len(file[writer]) + 1] = written + 1
         /\ \A k \in 1 .. Len(file[writer]) : file'[writer][k] = file[writer][k]
<1>1. writer \in Inode /\ file \in [Inode -> Seq(Line)] /\ written \in Nat
  BY ConstantsAssumption DEF TypeInv, TypeOK, LogType
<1>2. file' = [file EXCEPT ![writer] = Append(@, written + 1)] /\ written' = written + 1
  BY DEF Write
<1>3. file'[writer] = Append(file[writer], written + 1) /\ file[writer] \in Seq(Line)
  BY <1>1, <1>2
<1>4. \A i \in Inode \ {writer} : file'[i] = file[i]
  BY <1>1, <1>2
<1> QED
  BY <1>1, <1>2, <1>3, <1>4

LEMMA FileLens == TypeInv => \A i \in Inode : file[i] \in Seq(Line) /\ Len(file[i]) \in Nat
  BY DEF TypeInv, TypeOK, LogType

(* What is in a file after a write was there before, or is the new line. *)
LEMMA WriteAdds ==
  ASSUME TypeInv, Write, NEW i \in Inode, NEW k \in 1 .. Len(file'[i])
  PROVE  \/ k \in 1 .. Len(file[i]) /\ file'[i][k] = file[i][k]
         \/ i = writer /\ k = Len(file[i]) + 1 /\ file'[i][k] = written + 1
<1>1. Len(file[i]) \in Nat
  BY FileLens
<1>2. CASE i # writer
  BY <1>2, WriterAppends
<1>3. CASE i = writer
  <2>1. k \in 1 .. Len(file[i]) \/ k = Len(file[i]) + 1
    BY <1>1, <1>3, WriterAppends
  <2> QED
    BY <1>3, <2>1, WriterAppends
<1> QED
  BY <1>2, <1>3

LEMMA DistinctWrite ==
  ASSUME TypeInv, Distinct, Write
  PROVE  Distinct'
<1>1. written \in Nat /\ written' = written + 1 /\ UNCHANGED readBy
  BY WriterAppends DEF Write, agentVars, histVars
<1>2. \A l \in readBy' : l <= written'
  <2>1. readBy \subseteq Nat
    BY DEF TypeInv, TypeOK, HistType, Line
  <2> QED
    BY <1>1, <2>1 DEF Distinct
<1>3. ASSUME NEW i \in Inode, NEW k \in 1 .. Len(file[i])
      PROVE  file[i][k] \in Nat /\ file[i][k] <= written
  <2>1. file[i] \in Seq(Line) /\ file[i][k] \in Line
    BY FileLens
  <2>2. file[i][k] \in Nat
    BY <2>1, ConstantsAssumption DEF Line
  <2> QED
    BY <2>2 DEF Distinct
<1>4. ASSUME NEW i \in Inode, NEW k \in 1 .. Len(file'[i])
      PROVE  file'[i][k] <= written'
  BY <1>1, <1>3, WriteAdds
<1>5. ASSUME NEW i \in Inode, NEW j \in Inode, NEW k \in 1 .. Len(file'[i]),
             NEW m \in 1 .. Len(file'[j]), file'[i][k] = file'[j][m]
      PROVE  i = j /\ k = m
  <2>1. /\ \/ k \in 1 .. Len(file[i]) /\ file'[i][k] = file[i][k]
           \/ i = writer /\ k = Len(file[i]) + 1 /\ file'[i][k] = written + 1
        /\ \/ m \in 1 .. Len(file[j]) /\ file'[j][m] = file[j][m]
           \/ j = writer /\ m = Len(file[j]) + 1 /\ file'[j][m] = written + 1
    BY WriteAdds
  <2>2. CASE k \in 1 .. Len(file[i]) /\ m \in 1 .. Len(file[j])
             /\ file'[i][k] = file[i][k] /\ file'[j][m] = file[j][m]
    <3>1. file[i][k] = file[j][m]
      BY <1>5, <2>2
    <3> QED
      BY <2>2, <3>1 DEF Distinct
  <2>3. CASE k \in 1 .. Len(file[i]) /\ file'[i][k] = file[i][k] /\ file'[j][m] = written + 1
    <3>1. file[i][k] = written + 1 /\ file[i][k] <= written
      BY <1>3, <1>5, <2>3
    <3> QED
      BY <1>1, <3>1
  <2>4. CASE m \in 1 .. Len(file[j]) /\ file'[j][m] = file[j][m] /\ file'[i][k] = written + 1
    <3>1. file[j][m] = written + 1 /\ file[j][m] <= written
      BY <1>3, <1>5, <2>4
    <3> QED
      BY <1>1, <3>1
  <2>5. CASE i = writer /\ j = writer /\ k = Len(file[i]) + 1 /\ m = Len(file[j]) + 1
    BY <2>5
  <2> QED
    BY <2>1, <2>2, <2>3, <2>4, <2>5
<1> QED
  BY <1>2, <1>4, <1>5 DEF Distinct

LEMMA DistinctTruncate ==
  ASSUME TypeInv, Distinct, Truncate
  PROVE  Distinct'
<1>1. /\ file' = [file EXCEPT ![path] = <<>>] /\ file \in [Inode -> Seq(Line)]
      /\ UNCHANGED <<written, readBy>>
  BY DEF Truncate, TypeInv, TypeOK, LogType, agentVars, histVars
<1>2. \A i \in Inode : \A k \in 1 .. Len(file'[i]) :
        k \in 1 .. Len(file[i]) /\ file'[i][k] = file[i][k]
  BY <1>1
<1> QED
  BY <1>1, <1>2 DEF Distinct

LEMMA DistinctRead ==
  ASSUME TypeInv, Distinct, ReadLine
  PROVE  Distinct'
<1>1. /\ readBy' = readBy \cup {file[Source.ino][Source.off + 1]}
      /\ UNCHANGED <<file, written>>
  BY DEF ReadLine, logVars
<1>2. Source \in Harvester /\ Source.ino \in Inode /\ Source.off + 1 \in 1 .. Len(file[Source.ino])
  BY ReadLineFacts, FileLens DEF ReadLine, AtEOF, Harvester
<1> QED
  BY <1>1, <1>2 DEF Distinct

LEMMA DistinctFrame ==
  ASSUME Distinct, UNCHANGED <<file, written>>, readBy' \subseteq readBy
  PROVE  Distinct'
  BY DEF Distinct

LEMMA DistinctStep ==
  ASSUME TypeInv, Distinct, [Next]_vars
  PROVE  Distinct'
<1>1. CASE Write \/ Truncate \/ ReadLine
  BY <1>1, DistinctWrite, DistinctTruncate, DistinctRead
<1>2. CASE Rename \/ Create \/ Reopen
  BY <1>2, DistinctFrame DEF Rename, Create, Reopen, agentVars, histVars
<1>3. CASE \/ PollBegin \/ PumpExit \/ BackfillNext \/ Stat \/ Open \/ RetiredNext
           \/ ActiveDone \/ Checkpoint \/ PumpDies \/ EnqueueLine \/ Drain
           \/ CommitOne \/ Ingest \/ CommitDone
  BY <1>3, DistinctFrame DEF PollBegin, PumpExit, BackfillNext, Stat, Open, RetiredNext,
     ActiveDone, Checkpoint, PumpDies, EnqueueLine, Drain, CommitOne,
     Ingest, CommitDone, logVars, histVars
<1>4. ASSUME NEW w \in Workers, Worker(w) PROVE Distinct'
  BY <1>4, DistinctFrame DEF Worker, GetLine, PutEvent, Quit, logVars, histVars
<1>5. CASE \/ RequestStop \/ PipelineDied \/ PumpJoined \/ WorkersJoined
           \/ FlushCommits \/ CloseMonitor \/ Start
  BY <1>5, DistinctFrame DEF RequestStop, PipelineDied, PumpJoined, WorkersJoined,
     FlushCommits, CloseMonitor, Start, logVars, histVars
<1>6. CASE Exit \/ Crash
  BY <1>6, DistinctFrame DEF Exit, Crash, ProcessGone, logVars
<1>7. CASE UNCHANGED vars
  BY <1>7, DistinctFrame DEF vars, logVars, histVars
<1> QED
  BY <1>1, <1>2, <1>3, <1>4, <1>5, <1>6, <1>7 DEF Next, Pump, Main

-----------------------------------------------------------------------------
(* The main thread and the workers. *)

LEMMA JoinedStep ==
  ASSUME TypeInv, Joined, [Next]_vars
  PROVE  Joined'
<1>1. CASE Write \/ Rename \/ Create \/ Reopen \/ Truncate
  BY <1>1 DEF Write, Rename, Create, Reopen, Truncate, agentVars, mainVars, queueVars,
     Joined, AllStopped
<1>2. CASE Pump
  <2>1. UNCHANGED <<main, wpc>>
    BY <1>2 DEF Pump, PollBegin, PumpExit, ReadLine, BackfillNext, Stat, Open, RetiredNext,
       ActiveDone, Checkpoint, PumpDies, EnqueueLine, Drain, CommitOne, Ingest, CommitDone,
       mainVars, queueVars
  <2> QED
    BY <2>1 DEF Joined, AllStopped
<1>3. ASSUME NEW w \in Workers, Worker(w) PROVE Joined'
  <2>1. wpc[w] # "stopped" /\ UNCHANGED main
    BY <1>3 DEF Worker, GetLine, PutEvent, Quit, mainVars
  <2> QED
    BY <2>1 DEF Joined, AllStopped
<1>4. CASE RequestStop \/ PipelineDied \/ PumpJoined
  BY <1>4 DEF RequestStop, PipelineDied, PumpJoined, Joined
<1>5. CASE WorkersJoined \/ FlushCommits \/ CloseMonitor \/ Start
  BY <1>5 DEF WorkersJoined, FlushCommits, CloseMonitor, Start, mainVars, queueVars, Joined,
     AllStopped
<1>6. CASE Exit \/ Crash
  BY <1>6 DEF Exit, Crash, ProcessGone, Joined
<1>7. CASE UNCHANGED vars
  BY <1>7 DEF vars, mainVars, queueVars, Joined, AllStopped
<1> QED
  BY <1>1, <1>2, <1>3, <1>4, <1>5, <1>6, <1>7 DEF Next, Main

-----------------------------------------------------------------------------
(* What is read. *)

LEMMA OpenTypes ==
  ASSUME TypeInv
  PROVE  /\ backfill \in Seq(Harvester) /\ retired \in Seq(Harvester) /\ harv \in Harvester
         /\ \A m \in DOMAIN backfill : backfill[m] \in Harvester
         /\ \A n \in DOMAIN retired : retired[n] \in Harvester
         /\ \A h \in Harvester : h.ino \in Inode \cup {0} /\ h.off \in Nat
<1>1. \A h \in Harvester : h.ino \in Inode \cup {0} /\ h.off \in Nat
  BY DEF Harvester
<1>2. backfill \in Seq(Harvester) /\ retired \in Seq(Harvester) /\ harv \in Harvester
  BY DEF TypeInv, TypeOK, MonitorType
<1> QED
  BY <1>1, <1>2

LEMMA ReadingFrame ==
  ASSUME Reading, UNCHANGED <<file, path, created, backfill, retired, harv, scanned, readBy>>,
         \/ UNCHANGED stage
         \/ stage' \in {"top", "down", "done"}
         \/ scanned /\ stage' \notin {"open", "openRotated"}
  PROVE  Reading'
  BY DEF Reading, OpenOnce, Opening, Cursors, ReadElsewhere, Behind, BehindIn, Archives

LEMMA ReadingArchivesGrow ==
  ASSUME TypeInv, Reading,
         UNCHANGED <<file, backfill, retired, harv, scanned, readBy, stage>>,
         created' \in Nat, created' >= created, Archives \subseteq Archives'
  PROVE  Reading'
<1>1. harv.ino <= created'
  <2>1. harv.ino \in Nat /\ created \in Nat
    BY OpenTypes, ConstantsAssumption DEF TypeInv, TypeOK, LogType, Inode
  <2> QED
    BY <2>1 DEF Reading, OpenOnce
<1>2. OpenOnce'
  BY <1>1 DEF Reading, OpenOnce
<1>3. Opening'
  BY DEF Reading, Opening
<1>4. Cursors'
  BY DEF Reading, Cursors, ReadElsewhere, Behind, BehindIn
<1> QED
  BY <1>2, <1>3, <1>4 DEF Reading

LEMMA ReadingRotates ==
  ASSUME TypeInv, Reading, Rename \/ Create
  PROVE  Reading'
<1>1. created \in Nat
  BY ConstantsAssumption DEF TypeInv, TypeOK, LogType, Inode
<1>2. UNCHANGED <<file, backfill, retired, harv, scanned, readBy, stage>>
  BY DEF Rename, Create, agentVars, monitorVars, histVars
<1>3. created' \in Nat /\ created' >= created /\ Archives \subseteq Archives'
  BY <1>1 DEF Rename, Create, Archives
<1> QED
  BY <1>2, <1>3, ReadingArchivesGrow

(* The contents of the files change under the open ones. *)
LEMMA ReadingContents ==
  ASSUME TypeInv, Reading,
         UNCHANGED <<path, created, backfill, retired, harv, scanned, readBy, stage>>,
         \A i \in Inode : \A k \in 1 .. Len(file'[i]) :
           file'[i][k] \in readBy => /\ k \in 1 .. Len(file[i]) /\ file'[i][k] = file[i][k]
                                     /\ Len(file'[i]) >= Len(file[i]),
         \A i \in Inode : Len(file'[i]) \in Nat
  PROVE  Reading'
<1>1. ASSUME NEW h \in Harvester, h.ino # 0, Behind(h)
      PROVE  BehindIn(file', readBy, h)
  <2>1. h.ino \in Inode /\ h.off \in Nat /\ Len(file[h.ino]) \in Nat /\ Len(file'[h.ino]) \in Nat
    BY <1>1, OpenTypes, FileLens
  <2> SUFFICES ASSUME NEW k \in 1 .. Len(file'[h.ino]), file'[h.ino][k] \in readBy
               PROVE  k <= h.off /\ h.off <= Len(file'[h.ino])
    BY DEF BehindIn
  <2>2. k \in 1 .. Len(file[h.ino]) /\ file[h.ino][k] \in readBy
        /\ Len(file'[h.ino]) >= Len(file[h.ino])
    BY <2>1
  <2>3. k <= h.off /\ h.off <= Len(file[h.ino])
    BY <1>1, <2>2 DEF Behind, BehindIn
  <2> QED
    BY <2>1, <2>2, <2>3
<1>2. Archives' = Archives
  BY DEF Archives
<1>3. OpenOnce' /\ Opening'
  BY <1>2 DEF Reading, OpenOnce, Opening
<1>4. ReadElsewhere'
  BY <1>2 DEF Reading, Cursors, ReadElsewhere
<1>5. /\ \A m \in DOMAIN backfill : backfill[m].ino # 0 /\ backfill[m] \in Harvester
      /\ \A n \in DOMAIN retired : retired[n].ino # 0 /\ retired[n] \in Harvester
      /\ harv \in Harvester
  BY OpenTypes, ArchivesAre DEF Reading, OpenOnce
<1>6. Cursors'
  BY <1>1, <1>4, <1>5 DEF Reading, Cursors, Behind
<1> QED
  BY <1>3, <1>6 DEF Reading

LEMMA ReadingWrite ==
  ASSUME TypeInv, Distinct, Reading, Write
  PROVE  Reading'
<1>1. UNCHANGED <<path, created, backfill, retired, harv, scanned, readBy, stage>>
  BY DEF Write, agentVars, monitorVars, histVars
<1>2. written \in Nat /\ written + 1 \notin readBy
  BY WriterAppends DEF Distinct
<1>3. \A i \in Inode : Len(file'[i]) \in Nat /\ Len(file'[i]) >= Len(file[i])
  BY WriterAppends, FileLens
<1>4. ASSUME NEW i \in Inode, NEW k \in 1 .. Len(file'[i]), file'[i][k] \in readBy
      PROVE  k \in 1 .. Len(file[i]) /\ file'[i][k] = file[i][k]
  BY <1>2, <1>4, WriteAdds
<1> QED
  BY <1>1, <1>3, <1>4, ReadingContents

LEMMA ReadingTruncate ==
  ASSUME TypeInv, Reading, Truncate
  PROVE  Reading'
<1>1. UNCHANGED <<path, created, backfill, retired, harv, scanned, readBy, stage>>
  BY DEF Truncate, agentVars, monitorVars, histVars
<1>2. file' = [file EXCEPT ![path] = <<>>] /\ file \in [Inode -> Seq(Line)]
  BY DEF Truncate, TypeInv, TypeOK, LogType
<1>3. \A i \in Inode : Len(file'[i]) \in Nat
  BY <1>2, FileLens
<1>4. ASSUME NEW i \in Inode, NEW k \in 1 .. Len(file'[i])
      PROVE  /\ k \in 1 .. Len(file[i]) /\ file'[i][k] = file[i][k]
             /\ Len(file'[i]) >= Len(file[i])
  BY <1>2, FileLens
<1> QED
  BY <1>1, <1>3, <1>4, ReadingContents

(* Open files are closed: those that remain are as they were. *)
LEMMA ReadingCloses ==
  ASSUME TypeInv, TypeInv', Reading,
         UNCHANGED <<file, path, created, harv, readBy>>,
         scanned, scanned', stage' \notin {"open", "openRotated"},
         NEW d \in Nat, NEW e \in Nat,
         \A m \in DOMAIN backfill' : m + d \in DOMAIN backfill /\ backfill'[m] = backfill[m + d],
         \A n \in DOMAIN retired' : n + e \in DOMAIN retired /\ retired'[n] = retired[n + e]
  PROVE  Reading'
<1>1. backfill' \in Seq(Harvester) /\ retired' \in Seq(Harvester)
  BY DEF TypeInv, TypeOK, MonitorType
<1>2. (\A m \in DOMAIN backfill' : m \in Nat) /\ (\A n \in DOMAIN retired' : n \in Nat)
  BY <1>1
<1>3. Archives' = Archives
  BY DEF Archives
<1>4. ASSUME NEW m \in DOMAIN backfill', NEW n \in DOMAIN backfill',
             backfill'[m].ino = backfill'[n].ino
      PROVE  m = n
  <2>1. m + d = n + d
    BY <1>4 DEF Reading, OpenOnce
  <2> QED
    BY <1>2, <2>1
<1>5. ASSUME NEW m \in DOMAIN retired', NEW n \in DOMAIN retired',
             retired'[m].ino = retired'[n].ino
      PROVE  m = n
  <2>1. m + e = n + e
    BY <1>5 DEF Reading, OpenOnce
  <2> QED
    BY <1>2, <2>1
<1>6. OpenOnce'
  BY <1>3, <1>4, <1>5 DEF Reading, OpenOnce
<1>7. Opening'
  BY DEF Opening
<1>8. Cursors'
  BY <1>3 DEF Reading, Cursors, ReadElsewhere, Behind, BehindIn
<1> QED
  BY <1>6, <1>7, <1>8 DEF Reading

-----------------------------------------------------------------------------
(* The steps of a poll. *)

LEMMA ReadingPollBegin ==
  ASSUME TypeInv, TypeInv', Reading, PollBegin
  PROVE  Reading'
<1>1. /\ UNCHANGED <<file, path, created, harv, retired, readBy>>
      /\ stage' = "backfill" /\ scanned' = TRUE /\ backfill' = StartupRecovery
  BY DEF PollBegin, logVars, histVars
<1>2. CASE scanned
  <2>1. backfill' = <<>> /\ retired \in Seq(Harvester)
    BY <1>1, <1>2, OpenTypes DEF StartupRecovery
  <2>2. \A m \in DOMAIN backfill' : m + 0 \in DOMAIN backfill /\ backfill'[m] = backfill[m + 0]
    BY <2>1
  <2>3. \A n \in DOMAIN retired' : n + 0 \in DOMAIN retired /\ retired'[n] = retired[n + 0]
    BY <1>1, <2>1
  <2> QED
    BY <1>1, <1>2, <2>2, <2>3, ReadingCloses
<1>3. CASE ~scanned
  <2>1. readBy = {} /\ harv.ino = 0 /\ retired = <<>>
    BY <1>3 DEF Reading, Opening
  <2>2. backfill' = [i \in Archives |-> [ino |-> i, off |-> StartOffset(i)]]
    BY <1>1, <1>3 DEF StartupRecovery
  <2>3. Archives' = Archives /\ 0 \notin Archives
    BY <1>1, ArchivesAre DEF Archives
  <2>4. \A m \in DOMAIN backfill' : backfill'[m].ino = m /\ m \in Archives
    BY <2>2
  <2>5. OpenOnce'
    BY <1>1, <2>1, <2>3, <2>4 DEF Reading, OpenOnce
  <2>6. Opening'
    BY <1>1 DEF Opening
  <2>7. Cursors'
    BY <1>1, <2>1 DEF Cursors, ReadElsewhere, Behind, BehindIn
  <2> QED
    BY <2>5, <2>6, <2>7 DEF Reading
<1> QED
  BY <1>2, <1>3

LEMMA InPoll == Reading /\ stage \notin {"top", "down", "done"} => scanned
  BY DEF Reading, Opening

LEMMA ReadingBackfillNext ==
  ASSUME TypeInv, TypeInv', Reading, BackfillNext
  PROVE  Reading'
<1>1. UNCHANGED <<file, path, created, harv, retired, readBy, scanned>> /\ scanned
  BY InPoll DEF BackfillNext, logVars, histVars
<1>2. CASE backfill = <<>>
  BY <1>1, <1>2, ReadingFrame DEF BackfillNext
<1>3. CASE backfill # <<>>
  <2>1. backfill' = Tail(backfill) /\ stage' = "backfill"
    BY <1>3 DEF BackfillNext
  <2>2. backfill \in Seq(Harvester) /\ retired \in Seq(Harvester)
    BY OpenTypes
  <2>3. \A m \in DOMAIN backfill' : m + 1 \in DOMAIN backfill /\ backfill'[m] = backfill[m + 1]
    BY <1>3, <2>1, <2>2
  <2>4. \A n \in DOMAIN retired' : n + 0 \in DOMAIN retired /\ retired'[n] = retired[n + 0]
    BY <1>1, <2>2
  <2> QED
    BY <1>1, <2>1, <2>3, <2>4, ReadingCloses
<1> QED
  BY <1>2, <1>3

LEMMA ReadingRetiredNext ==
  ASSUME TypeInv, TypeInv', Reading, RetiredNext
  PROVE  Reading'
<1>1. UNCHANGED <<file, path, created, harv, backfill, readBy, scanned>> /\ scanned
      /\ stage' \in {"retired", "checkpoint", "active"}
  BY InPoll DEF RetiredNext, logVars, histVars
<1>2. CASE UNCHANGED retired
  BY <1>1, <1>2, ReadingFrame
<1>3. CASE retired' = SubSeq(retired, due + 1, Len(retired))
  <2>1. backfill \in Seq(Harvester) /\ retired \in Seq(Harvester) /\ due \in Nat
    BY OpenTypes DEF TypeInv, TypeOK, MonitorType
  <2>2. \A n \in DOMAIN retired' : n + due \in DOMAIN retired /\ retired'[n] = retired[n + due]
    <3>1. Len(retired) \in Nat /\ due + 1 \in Int /\ Len(retired) \in Int
          /\ \A i \in due + 1 .. Len(retired) : retired[i] \in Harvester
      BY <2>1
    <3>2. /\ Len(retired') = IF due + 1 <= Len(retired) THEN Len(retired) - (due + 1) + 1 ELSE 0
          /\ \A i \in 1 .. Len(retired) - (due + 1) + 1 : retired'[i] = retired[due + 1 + i - 1]
          /\ retired' \in Seq(Harvester)
      BY <1>3, <3>1, SubSeqProperties
    <3> SUFFICES ASSUME NEW n \in DOMAIN retired'
                 PROVE  n + due \in DOMAIN retired /\ retired'[n] = retired[n + due]
      OBVIOUS
    <3>3. n \in 1 .. Len(retired') /\ due + 1 <= Len(retired)
      BY <3>1, <3>2
    <3>4. n \in 1 .. Len(retired) - (due + 1) + 1 /\ due + 1 + n - 1 = n + due
          /\ n + due \in 1 .. Len(retired)
      BY <2>1, <3>1, <3>2, <3>3
    <3>5. retired'[n] = retired[due + 1 + n - 1]
      BY <3>2, <3>4
    <3> QED
      BY <2>1, <3>4, <3>5
  <2>3. \A m \in DOMAIN backfill' : m + 0 \in DOMAIN backfill /\ backfill'[m] = backfill[m + 0]
    BY <1>1, <2>1
  <2> QED
    BY <1>1, <2>1, <2>2, <2>3, ReadingCloses
<1> QED
  BY <1>2, <1>3 DEF RetiredNext

(* The active file of a rotation becomes the newest of the retired. *)
LEMMA ReadingRetires ==
  ASSUME TypeInv, Reading, Stat, path # 0, harv.ino \notin {0, path},
         retired' = Append(retired, harv), harv' = NoHarvester, stage' = "openRotated"
  PROVE  Reading'
<1>1. UNCHANGED <<file, path, created, backfill, readBy, scanned>> /\ scanned
  BY InPoll DEF Stat, logVars, histVars
<1>2. retired \in Seq(Harvester) /\ harv \in Harvester /\ harv.ino \in Inode
  BY OpenTypes
<1>3. harv.ino \in Archives /\ harv.ino <= created /\ Archives' = Archives
  BY <1>1, <1>2, ArchivesAre DEF Reading, OpenOnce, Archives
<1>4. harv'.ino = 0 /\ 0 \notin Archives /\ 0 <= created
  BY ArchivesAre, ConstantsAssumption DEF NoHarvester, TypeInv, TypeOK, LogType, Inode
<1>5. \A n \in DOMAIN retired' : \/ n \in DOMAIN retired /\ retired'[n] = retired[n]
                                 \/ n = Len(retired) + 1 /\ retired'[n] = harv
  BY <1>2
<1>6. OpenOnce'
  BY <1>1, <1>3, <1>4, <1>5 DEF Reading, OpenOnce
<1>7. Opening'
  BY <1>1, <1>4 DEF Opening
<1>8. ReadElsewhere'
  BY <1>1, <1>3 DEF Reading, Cursors, ReadElsewhere
<1>9. Cursors'
  <2>1. Behind(harv)
    BY <1>2 DEF Reading, Cursors, Inode
  <2> QED
    BY <1>1, <1>4, <1>5, <1>8, <2>1 DEF Reading, Cursors, Behind, BehindIn
<1> QED
  BY <1>6, <1>7, <1>9 DEF Reading

(* A position past the end means that nothing of the present content was read. *)
LEMMA ReadingResets ==
  ASSUME TypeInv, Reading, Stat, path # 0, harv.ino = path, UNCHANGED retired,
         stage' = "retired",
         harv' = IF harv.off > Len(file[path]) THEN [harv EXCEPT !.off = 0] ELSE harv
  PROVE  Reading'
<1>1. UNCHANGED <<file, path, created, backfill, readBy, scanned>> /\ scanned
  BY InPoll DEF Stat, logVars, histVars
<1>2. CASE ~(harv.off > Len(file[path]))
  BY <1>1, <1>2, ReadingFrame
<1>3. CASE harv.off > Len(file[path])
  <2>1. harv \in Harvester /\ path \in Inode /\ harv.off \in Nat /\ Len(file[path]) \in Nat
    BY OpenTypes, ArchivesAre, FileLens
  <2>2. harv' = [harv EXCEPT !.off = 0] /\ harv'.ino = harv.ino
    BY <1>3, <2>1 DEF Harvester
  <2>3. \A k \in 1 .. Len(file[path]) : file[path][k] \notin readBy
    <3>1. Behind(harv) /\ ~(harv.off <= Len(file[path]))
      BY <1>3, <2>1 DEF Reading, Cursors
    <3> QED
      BY <3>1 DEF Behind, BehindIn
  <2>4. Archives' = Archives
    BY <1>1 DEF Archives
  <2>5. OpenOnce' /\ Opening'
    BY <1>1, <2>2, <2>4 DEF Reading, OpenOnce, Opening
  <2>6. ReadElsewhere'
    BY <1>1, <2>2, <2>4 DEF Reading, Cursors, ReadElsewhere
  <2>7. Behind(harv)'
    BY <1>1, <2>2, <2>3 DEF Behind, BehindIn
  <2>8. Cursors'
    BY <1>1, <2>6, <2>7 DEF Reading, Cursors, Behind, BehindIn
  <2> QED
    BY <2>5, <2>8 DEF Reading
<1> QED
  BY <1>2, <1>3

LEMMA ReadingStat ==
  ASSUME TypeInv, Reading, Stat
  PROVE  Reading'
<1>1. UNCHANGED <<file, path, created, backfill, readBy, scanned>> /\ scanned
  BY InPoll DEF Stat, logVars, histVars
<1>2. CASE path # 0 /\ harv.ino = 0 /\ stage' = "open" /\ UNCHANGED <<harv, retired>>
  <2>1. Archives' = Archives
    BY <1>1 DEF Archives
  <2>2. OpenOnce' /\ Opening'
    BY <1>1, <1>2, <2>1 DEF Reading, OpenOnce, Opening
  <2>3. Cursors'
    BY <1>1, <1>2, <2>1 DEF Reading, Cursors, ReadElsewhere, Behind, BehindIn
  <2> QED
    BY <2>2, <2>3 DEF Reading
<1>3. CASE /\ path # 0 /\ harv.ino \notin {0, path} /\ stage' = "openRotated"
           /\ retired' = Retire /\ harv' = NoHarvester
  BY <1>3, ReadingRetires DEF Retire
<1>4. CASE /\ path # 0 /\ harv.ino = path /\ stage' = "retired" /\ UNCHANGED retired
           /\ harv' = IF harv.off > Len(file[path]) THEN [harv EXCEPT !.off = 0] ELSE harv
  BY <1>4, ReadingResets
<1>5. CASE path = 0 /\ stage' = "retired" /\ UNCHANGED <<harv, retired>>
  BY <1>1, <1>5, ReadingFrame
<1> QED
  BY <1>2, <1>3, <1>4, <1>5 DEF Stat

(* The file at the path is no archive, so nothing of it was read before. *)
LEMMA ReadingOpen ==
  ASSUME TypeInv, Reading, Open
  PROVE  Reading'
<1>1. UNCHANGED <<file, path, created, backfill, retired, readBy, scanned>> /\ scanned
      /\ harv.ino = 0
  BY InPoll DEF Open, logVars, histVars, Reading, Opening
<1>2. CASE path = 0
  BY <1>1, <1>2, ReadingFrame DEF Open
<1>3. CASE path # 0
  <2>1. harv'.ino = path /\ stage' = "retired"
    BY <1>3 DEF Open
  <2>2. path \in Inode /\ path = created /\ path \notin Archives /\ Archives' = Archives
    BY <1>1, <1>3, ArchivesAre DEF Archives
  <2>3. created \in Nat
    BY ConstantsAssumption DEF TypeInv, TypeOK, LogType, Inode
  <2>4. OpenOnce' /\ Opening'
    BY <1>1, <2>1, <2>2, <2>3 DEF Reading, OpenOnce, Opening
  <2>5. \A k \in 1 .. Len(file[path]) : file[path][k] \notin readBy
    BY <1>1, <1>3, <2>2 DEF Reading, Cursors, ReadElsewhere
  <2>6. Behind(harv)'
    BY <1>1, <2>1, <2>5 DEF Behind, BehindIn
  <2>7. ReadElsewhere'
    BY <1>1, <2>1, <2>2 DEF Reading, Cursors, ReadElsewhere, Inode
  <2>8. Cursors'
    BY <1>1, <2>6, <2>7 DEF Reading, Cursors, Behind, BehindIn
  <2> QED
    BY <2>4, <2>8 DEF Reading
<1> QED
  BY <1>2, <1>3

-----------------------------------------------------------------------------
(* A line is read. *)

LEMMA SourceIs ==
  ASSUME TypeInv, ReadLine
  PROVE  /\ \/ stage = "backfill" /\ Source = backfill[1] /\ 1 \in DOMAIN backfill
            \/ stage = "retired" /\ Source = retired[at] /\ at \in DOMAIN retired
            \/ stage = "active" /\ Source = harv
         /\ Source \in Harvester /\ Source.ino \in Inode /\ Source.off \in Nat
         /\ Source.off + 1 \in 1 .. Len(file[Source.ino])
<1>1. Source \in Harvester /\ Source.ino \in Inode /\ Source.off \in Nat
  BY ReadLineFacts, OpenTypes
<1>2. Source.off + 1 \in 1 .. Len(file[Source.ino])
  BY <1>1, FileLens DEF ReadLine, AtEOF
<1>3. backfill \in Seq(Harvester) /\ retired \in Seq(Harvester)
      /\ at \in Nat \ {0}
  BY DEF TypeInv, TypeOK, MonitorType
<1>4. \/ stage = "backfill" /\ backfill # <<>> /\ Source = backfill[1]
      \/ stage = "retired" /\ at <= Len(retired) /\ Source = retired[at]
      \/ stage = "active" /\ Source = harv
  BY <1>1 DEF ReadLine, Source, NoHarvester
<1> QED
  BY <1>1, <1>2, <1>3, <1>4

(* The position is over a line that was not read in this life. *)
LEMMA ReadsNew ==
  ASSUME TypeInv, Reading, ReadLine
  PROVE  file[Source.ino][Source.off + 1] \notin readBy
<1>1. Behind(Source)
  BY SourceIs DEF Reading, Cursors, Inode
<1>2. Source.off \in Nat /\ ~(Source.off + 1 <= Source.off)
      /\ Source.off + 1 \in 1 .. Len(file[Source.ino])
  BY SourceIs
<1> QED
  BY <1>1, <1>2 DEF Behind, BehindIn

LEMMA ReadingReadLine ==
  ASSUME TypeInv, Distinct, Reading, ReadLine
  PROVE  Reading'
<1> DEFINE s == Source
           new == file[s.ino][s.off + 1]
           next == [s EXCEPT !.off = @ + 1]
<1>1. /\ UNCHANGED <<file, path, created, scanned, stage>>
      /\ readBy' = readBy \cup {new}
      /\ harv' = IF stage = "active" THEN next ELSE harv
      /\ retired' = IF stage = "retired" THEN [retired EXCEPT ![at] = next] ELSE retired
      /\ backfill' = IF stage = "backfill" THEN [backfill EXCEPT ![1] = next] ELSE backfill
  BY DEF ReadLine, logVars
<1>2. /\ \/ stage = "backfill" /\ s = backfill[1] /\ 1 \in DOMAIN backfill
         \/ stage = "retired" /\ s = retired[at] /\ at \in DOMAIN retired
         \/ stage = "active" /\ s = harv
      /\ s \in Harvester /\ s.ino \in Inode /\ s.off \in Nat
      /\ s.off + 1 \in 1 .. Len(file[s.ino])
  BY SourceIs
<1>3. next.ino = s.ino /\ next.off = s.off + 1
  BY <1>2 DEF Harvester
<1>4. \A i \in Inode : \A k \in 1 .. Len(file[i]) :
        file[i][k] = new => i = s.ino /\ k = s.off + 1
  BY <1>2 DEF Distinct
<1>5. Behind(s)
  BY <1>2 DEF Reading, Cursors, Inode
<1>6. Len(file[s.ino]) \in Nat
  BY <1>2, FileLens
<1> HIDE DEF s, new, next
<1>7. BehindIn(file, readBy', next)
  <2> SUFFICES ASSUME NEW k \in 1 .. Len(file[s.ino]), file[s.ino][k] \in readBy \cup {new}
               PROVE  k <= s.off + 1 /\ s.off + 1 <= Len(file[s.ino])
    BY <1>1, <1>3 DEF BehindIn
  <2>1. file[s.ino][k] \in readBy => k <= s.off
    BY <1>5 DEF Behind, BehindIn
  <2>2. file[s.ino][k] = new => k = s.off + 1
    BY <1>2, <1>4
  <2> QED
    BY <1>2, <1>6, <2>1, <2>2
<1>8. ASSUME NEW h \in Harvester, h.ino \in Inode, h.ino # s.ino, Behind(h)
      PROVE  BehindIn(file, readBy', h)
  BY <1>1, <1>4, <1>8 DEF Behind, BehindIn
<1>9. /\ \A m \in DOMAIN backfill : backfill[m] \in Harvester /\ backfill[m].ino \in Inode
      /\ \A n \in DOMAIN retired : retired[n] \in Harvester /\ retired[n].ino \in Inode
      /\ harv \in Harvester /\ (harv.ino # 0 => harv.ino \in Inode)
      /\ backfill \in Seq(Harvester) /\ retired \in Seq(Harvester)
  BY OpenTypes, ArchivesAre DEF Reading, OpenOnce
<1>10. stage \notin {"open", "openRotated", "top", "down", "done"} /\ Archives' = Archives
       /\ (stage # "active" => s.ino \in Archives)
  BY <1>1, <1>2 DEF Reading, OpenOnce, Archives
<1>11. /\ DOMAIN backfill' = DOMAIN backfill /\ DOMAIN retired' = DOMAIN retired
       /\ \A m \in DOMAIN backfill : backfill'[m].ino = backfill[m].ino
       /\ \A n \in DOMAIN retired : retired'[n].ino = retired[n].ino
       /\ harv'.ino = harv.ino
  BY <1>1, <1>2, <1>3
<1>12. OpenOnce'
  BY <1>1, <1>10, <1>11 DEF Reading, OpenOnce
<1>13. Opening'
  BY <1>1, <1>10 DEF Reading, Opening
<1>14. ReadElsewhere'
  BY <1>1, <1>2, <1>4, <1>10, <1>11 DEF Reading, Cursors, ReadElsewhere
<1>15. ASSUME NEW m \in DOMAIN backfill PROVE BehindIn(file, readBy', backfill'[m])
  <2>1. CASE backfill[m].ino = s.ino
    <3>1. backfill'[m] = next
      BY <1>1, <1>2, <2>1 DEF Reading, OpenOnce
    <3> QED
      BY <1>7, <3>1
  <2>2. CASE backfill[m].ino # s.ino
    <3>1. backfill'[m] = backfill[m] /\ Behind(backfill[m])
      BY <1>1, <1>2, <2>2 DEF Reading, Cursors
    <3> QED
      BY <1>8, <1>9, <2>2, <3>1
  <2> QED
    BY <2>1, <2>2
<1>16. ASSUME NEW n \in DOMAIN retired PROVE BehindIn(file, readBy', retired'[n])
  <2>1. CASE retired[n].ino = s.ino
    <3>1. retired'[n] = next
      BY <1>1, <1>2, <2>1 DEF Reading, OpenOnce
    <3> QED
      BY <1>7, <3>1
  <2>2. CASE retired[n].ino # s.ino
    <3>1. retired'[n] = retired[n] /\ Behind(retired[n])
      BY <1>1, <1>2, <2>2 DEF Reading, Cursors
    <3> QED
      BY <1>8, <1>9, <2>2, <3>1
  <2> QED
    BY <2>1, <2>2
<1>17. harv'.ino # 0 => BehindIn(file, readBy', harv')
  <2>1. CASE stage = "active"
    BY <1>1, <1>7, <2>1
  <2>2. CASE stage # "active"
    <3>1. harv' = harv /\ harv.ino # s.ino
      BY <1>1, <1>2, <2>2 DEF Reading, OpenOnce
    <3> QED
      BY <1>8, <1>9, <3>1 DEF Reading, Cursors
  <2> QED
    BY <2>1, <2>2
<1>18. Cursors'
  BY <1>1, <1>11, <1>14, <1>15, <1>16, <1>17 DEF Cursors, Behind
<1> QED
  BY <1>12, <1>13, <1>18 DEF Reading

-----------------------------------------------------------------------------
(* A life begins with nothing open and nothing read. *)
LEMMA ReadingGone ==
  ASSUME TypeInv, ProcessGone
  PROVE  Reading'
<1>1. created \in Nat /\ UNCHANGED created
  BY ConstantsAssumption DEF ProcessGone, logVars, TypeInv, TypeOK, LogType, Inode
<1> QED
  BY <1>1 DEF ProcessGone, NoHarvester, Reading, OpenOnce, Opening, Cursors, ReadElsewhere

LEMMA ReadingPump ==
  ASSUME TypeInv, TypeInv', Distinct, Reading, Pump
  PROVE  Reading'
<1>1. CASE PollBegin \/ BackfillNext \/ RetiredNext \/ Stat \/ Open \/ ReadLine
  BY <1>1, ReadingPollBegin, ReadingBackfillNext, ReadingRetiredNext, ReadingStat,
     ReadingOpen, ReadingReadLine
<1>2. CASE PumpExit \/ ActiveDone \/ Checkpoint \/ PumpDies
  <2>1. UNCHANGED <<file, path, created, backfill, retired, harv, scanned, readBy>>
    BY <1>2 DEF PumpExit, ActiveDone, Checkpoint, PumpDies, logVars, histVars
  <2>2. stage' = "done" \/ (scanned /\ stage' \in {"checkpoint", "final"})
    BY <1>2, InPoll DEF PumpExit, ActiveDone, Checkpoint, PumpDies
  <2> QED
    BY <2>1, <2>2, ReadingFrame
<1>3. CASE EnqueueLine \/ Drain \/ CommitOne \/ Ingest \/ CommitDone
  <2>1. UNCHANGED <<file, path, created, backfill, retired, harv, scanned, readBy>>
    BY <1>3 DEF EnqueueLine, Drain, CommitOne, Ingest, CommitDone, logVars, histVars, monitorVars
  <2>2. UNCHANGED stage \/ stage' = "top"
    BY <1>3 DEF EnqueueLine, Drain, CommitOne, Ingest, CommitDone, monitorVars
  <2> QED
    BY <2>1, <2>2, ReadingFrame
<1> QED
  BY <1>1, <1>2, <1>3 DEF Pump

LEMMA ReadingStep ==
  ASSUME TypeInv, TypeInv', Distinct, main # "exiting" => Reading, [Next]_vars
  PROVE  main' # "exiting" => Reading'
<1> SUFFICES ASSUME main' # "exiting" PROVE Reading'
  OBVIOUS
<1>1. CASE Exit \/ Crash
  BY <1>1, ReadingGone DEF Exit, Crash
<1>2. CASE CloseMonitor
  BY <1>2 DEF CloseMonitor
<1>3. CASE Write \/ Rename \/ Create \/ Reopen \/ Truncate
  <2>1. UNCHANGED main
    BY <1>3 DEF Write, Rename, Create, Reopen, Truncate, agentVars, mainVars
  <2>2. CASE Reopen
    BY <2>1, <2>2, ReadingFrame DEF Reopen, agentVars, monitorVars, histVars
  <2> QED
    BY <1>3, <2>1, <2>2, ReadingWrite, ReadingRotates, ReadingTruncate
<1>4. CASE Pump
  <2>1. UNCHANGED main
    BY <1>4 DEF Pump, PollBegin, PumpExit, ReadLine, BackfillNext, Stat, Open, RetiredNext,
       ActiveDone, Checkpoint, PumpDies, EnqueueLine, Drain, CommitOne, Ingest, CommitDone,
       mainVars
  <2> QED
    BY <1>4, <2>1, ReadingPump
<1>5. ASSUME NEW w \in Workers, Worker(w) PROVE Reading'
  BY <1>5, ReadingFrame DEF Worker, GetLine, PutEvent, Quit, mainVars, logVars, monitorVars,
     histVars
<1>6. CASE RequestStop \/ PipelineDied \/ PumpJoined \/ WorkersJoined \/ FlushCommits \/ Start
  <2>1. UNCHANGED <<file, path, created, backfill, retired, harv, scanned, readBy>>
        /\ main # "exiting"
    BY <1>6 DEF RequestStop, PipelineDied, PumpJoined, WorkersJoined, FlushCommits, Start,
       mainVars, logVars, monitorVars, histVars
  <2>2. UNCHANGED stage \/ stage' = "top"
    BY <1>6 DEF RequestStop, PipelineDied, PumpJoined, WorkersJoined, FlushCommits, Start,
       monitorVars
  <2> QED
    BY <2>1, <2>2, ReadingFrame
<1>7. CASE UNCHANGED vars
  BY <1>7, ReadingFrame DEF vars, mainVars, logVars, monitorVars, histVars
<1> QED
  BY <1>1, <1>2, <1>3, <1>4, <1>5, <1>6, <1>7 DEF Next, Main

-----------------------------------------------------------------------------
(* Items move from place to place. *)

LEMMA OneEachEmpty == OneEach(<<>>)
  BY DEF OneEach

LEMMA OneEachAppend ==
  ASSUME NEW S, NEW s \in Seq(S), NEW e, OneEach(s), e.line \notin LinesIn(s)
  PROVE  OneEach(Append(s, e))
<1>1. \A n \in DOMAIN Append(s, e) : \/ n \in DOMAIN s /\ Append(s, e)[n] = s[n]
                                     \/ n = Len(s) + 1 /\ Append(s, e)[n] = e
  OBVIOUS
<1> QED
  BY <1>1 DEF OneEach, LinesIn

LEMMA OneEachTail ==
  ASSUME NEW S, NEW s \in Seq(S), s # <<>>, OneEach(s)
  PROVE  OneEach(Tail(s)) /\ s[1].line \notin LinesIn(Tail(s))
<1>1. \A n \in DOMAIN Tail(s) : n \in Nat /\ n # 0 /\ n + 1 \in DOMAIN s /\ Tail(s)[n] = s[n + 1]
  OBVIOUS
<1>2. 1 \in DOMAIN s
  OBVIOUS
<1>3. ASSUME NEW m \in DOMAIN Tail(s), NEW n \in DOMAIN Tail(s),
             Tail(s)[m].line = Tail(s)[n].line
      PROVE  m = n
  <2>1. m + 1 = n + 1
    BY <1>1, <1>3 DEF OneEach
  <2> QED
    BY <1>1, <2>1
<1>4. ASSUME NEW n \in DOMAIN Tail(s), Tail(s)[n].line = s[1].line
      PROVE  FALSE
  <2>1. n + 1 = 1
    BY <1>1, <1>2, <1>4 DEF OneEach
  <2> QED
    BY <1>1, <2>1
<1> QED
  BY <1>3, <1>4 DEF OneEach, LinesIn

LEMMA PlaceTypes ==
  ASSUME TypeInv
  PROVE  /\ hand \in Seq(Item) /\ Len(hand) <= 1 /\ lineQ \in Seq(Item)
         /\ eventQ \in Seq(Item) /\ batch \in Seq(Item)
         /\ work \in [Workers -> Seq(Item)]
         /\ \A w \in Workers : work[w] \in Seq(Item) /\ Len(work[w]) <= 1
         /\ here \in [Line -> Nat]
  BY DEF TypeInv, TypeOK, QueueType, HistType

Places == Committing /\ Parsing /\ WasRead

LEMMA PlacesFrame ==
  ASSUME Places, UNCHANGED <<hand, lineQ, eventQ, batch, work, here, readBy>>
  PROVE  Places'
<1>1. /\ LinesIn(hand)' = LinesIn(hand) /\ LinesIn(lineQ)' = LinesIn(lineQ)
      /\ LinesIn(eventQ)' = LinesIn(eventQ) /\ LinesIn(batch)' = LinesIn(batch)
      /\ \A w \in Workers : LinesIn(work'[w]) = LinesIn(work[w])
  BY DEF LinesIn
<1>2. (OneEach(lineQ) => OneEach(lineQ)') /\ (OneEach(eventQ) => OneEach(eventQ)')
      /\ (OneEach(batch) => OneEach(batch)')
  BY DEF OneEach
<1>3. Committing'
  BY <1>1, <1>2 DEF Places, Committing
<1>4. Parsing'
  BY <1>1, <1>2 DEF Places, Parsing, Waiting, Past
<1>5. WasRead'
  BY <1>1 DEF Places, WasRead, InFlight
<1> QED
  BY <1>3, <1>4, <1>5 DEF Places

LEMMA CommittingFrame ==
  ASSUME Committing, UNCHANGED <<eventQ, batch, here>>
  PROVE  Committing'
  BY DEF Committing, OneEach, LinesIn

LEMMA PlacesReadLine ==
  ASSUME TypeInv, Reading, Places, ReadLine
  PROVE  Places'
<1> DEFINE new == file[Source.ino][Source.off + 1]
<1>1. /\ new \notin readBy /\ new \in Line
      /\ readBy' = readBy \cup {new} /\ LinesIn(hand') = {new}
  BY ReadsNew, ReadLineFacts, LinesInOne DEF ReadLine
<1>2. LinesIn(hand) = {}
  BY LinesInEmpty DEF ReadLine, TypeInv, Hands, PumpHands
<1>3. UNCHANGED <<lineQ, eventQ, batch, work, here>> /\ here \in [Line -> Nat]
  BY PlaceTypes DEF ReadLine
<1>4. new \notin InFlight /\ here[new] = 0
  <2>1. ~(here[new] > 0) /\ here[new] \in Nat
    BY <1>1, <1>3 DEF Places, WasRead
  <2> QED
    BY <1>1, <2>1 DEF Places, WasRead
<1> HIDE DEF new
<1>5. Committing'
  BY <1>3, CommittingFrame DEF Places
<1>6. Parsing'
  BY <1>1, <1>3, <1>4 DEF Places, Parsing, Waiting, Past, InFlight, OneEach
<1>7. WasRead'
  BY <1>1, <1>3 DEF Places, WasRead, InFlight
<1> QED
  BY <1>5, <1>6, <1>7 DEF Places

LEMMA PlacesEnqueueLine ==
  ASSUME TypeInv, Places, EnqueueLine
  PROVE  Places'
<1> DEFINE l == hand[1].line
<1>1. hand # <<>> /\ lineQ' = Append(lineQ, hand[1]) /\ hand' = <<>>
  BY DEF EnqueueLine, TypeInv, Hands, PumpHands
<1>2. LinesIn(hand) = {l} /\ LinesIn(hand') = {}
  BY <1>1, PlaceTypes, LinesInSingle, LinesInEmpty
<1>3. LinesIn(lineQ') = LinesIn(lineQ) \cup {l}
  BY <1>1, PlaceTypes, LinesInAppend
<1>4. OneEach(lineQ')
  BY <1>1, <1>2, PlaceTypes, OneEachAppend DEF Places, Parsing
<1>5. UNCHANGED <<eventQ, batch, work, here, readBy>>
  BY DEF EnqueueLine, histVars
<1> HIDE DEF l
<1>6. Committing'
  BY <1>5, CommittingFrame DEF Places
<1>7. Parsing'
  BY <1>2, <1>3, <1>4, <1>5 DEF Places, Parsing, Waiting, Past
<1>8. WasRead'
  BY <1>2, <1>3, <1>5 DEF Places, WasRead, InFlight
<1> QED
  BY <1>6, <1>7, <1>8 DEF Places

LEMMA PlacesGetLine ==
  ASSUME TypeInv, Places, NEW w \in Workers, GetLine(w)
  PROVE  Places'
<1> DEFINE l == lineQ[1].line
<1>1. lineQ # <<>> /\ lineQ' = Tail(lineQ) /\ work' = [work EXCEPT ![w] = <<lineQ[1]>>]
      /\ work[w] = <<>>
  BY DEF GetLine, TypeInv, Hands, WorkerHands
<1>2. LinesIn(lineQ) = {l} \cup LinesIn(lineQ') /\ OneEach(lineQ') /\ l \notin LinesIn(lineQ')
  BY <1>1, PlaceTypes, LinesInTail, OneEachTail DEF Places, Parsing
<1>3. LinesIn(work'[w]) = {l} /\ \A v \in Workers \ {w} : work'[v] = work[v]
  BY <1>1, PlaceTypes, LinesInOne
<1>4. UNCHANGED <<hand, eventQ, batch, here, readBy>>
  BY DEF GetLine, histVars
<1> HIDE DEF l
<1>5. Committing'
  BY <1>4, CommittingFrame DEF Places
<1>6. Parsing'
  BY <1>2, <1>3, <1>4 DEF Places, Parsing, Waiting, Past
<1>7. WasRead'
  BY <1>2, <1>3, <1>4 DEF Places, WasRead, InFlight
<1> QED
  BY <1>5, <1>6, <1>7 DEF Places

LEMMA PlacesPutEvent ==
  ASSUME TypeInv, Places, NEW w \in Workers, PutEvent(w)
  PROVE  Places'
<1> DEFINE l == work[w][1].line
<1>1. work[w] # <<>> /\ eventQ' = Append(eventQ, work[w][1])
      /\ work' = [work EXCEPT ![w] = <<>>]
  BY DEF PutEvent, TypeInv, Hands, WorkerHands
<1>2. LinesIn(work[w]) = {l}
  BY <1>1, PlaceTypes, LinesInSingle
<1>3. LinesIn(work'[w]) = {} /\ \A v \in Workers \ {w} : work'[v] = work[v]
  BY <1>1, PlaceTypes, LinesInEmpty
<1>4. LinesIn(eventQ') = LinesIn(eventQ) \cup {l}
  BY <1>1, PlaceTypes, LinesInAppend
<1>5. l \notin LinesIn(eventQ) /\ l \notin LinesIn(batch) /\ here[l] = 0
  BY <1>2 DEF Places, Parsing, Past
<1>6. OneEach(eventQ')
  BY <1>1, <1>5, PlaceTypes, OneEachAppend DEF Places, Committing
<1>7. UNCHANGED <<hand, lineQ, batch, here, readBy>>
  BY DEF PutEvent, histVars
<1> HIDE DEF l
<1>8. Committing'
  BY <1>4, <1>5, <1>6, <1>7 DEF Places, Committing
<1>9. Parsing'
  BY <1>2, <1>3, <1>4, <1>7 DEF Places, Parsing, Waiting, Past
<1>10. WasRead'
  BY <1>2, <1>3, <1>4, <1>7 DEF Places, WasRead, InFlight
<1> QED
  BY <1>8, <1>9, <1>10 DEF Places

(* Draining and committing, whatever comes before. *)
LEMMA DrainMoves ==
  ASSUME TypeInv, Drain
  PROVE  /\ batch = <<>> /\ batch' = eventQ /\ eventQ' = <<>>
         /\ UNCHANGED <<hand, lineQ, work, here, readBy>>
  BY DEF Drain, CommitsDue, TypeInv, Hands, PumpHands, histVars

LEMMA CommittingDrain ==
  ASSUME TypeInv, Committing, Drain
  PROVE  Committing'
  BY DrainMoves, LinesInEmpty, OneEachEmpty DEF Committing

LEMMA PlacesDrain ==
  ASSUME TypeInv, Places, Drain
  PROVE  Places'
<1>1. Past' = Past
  BY DrainMoves, LinesInEmpty DEF Past
<1>2. InFlight' = InFlight
  BY DrainMoves, LinesInEmpty DEF InFlight
<1>3. Committing'
  BY CommittingDrain DEF Places
<1> QED
  BY <1>1, <1>2, <1>3, DrainMoves DEF Places, Parsing, WasRead, Waiting

LEMMA CommitMoves ==
  ASSUME TypeInv, CommitOne \/ Ingest
  PROVE  /\ batch # <<>> /\ batch[1].line \in Line
         /\ UNCHANGED <<hand, lineQ, eventQ, work, readBy>>
         /\ \/ batch' = batch /\ here' = here
            \/ batch' = Tail(batch) /\ here' = here
            \/ batch' = Tail(batch) /\ here' = [here EXCEPT ![batch[1].line] = @ + 1]
  BY InHandFacts, CommitOneIs, IngestIs

LEMMA CommittingDone ==
  ASSUME TypeInv, Committing, CommitOne \/ Ingest, batch' = Tail(batch)
  PROVE  Committing'
<1> DEFINE l == batch[1].line
<1>1. LinesIn(batch) = {l} \cup LinesIn(batch') /\ OneEach(batch') /\ l \notin LinesIn(batch')
  <2>1. batch \in Seq(Item) /\ batch # <<>> /\ batch' = Tail(batch) /\ OneEach(batch)
    BY CommitMoves, PlaceTypes DEF Committing
  <2>2. LinesIn(batch) = {l} \cup LinesIn(Tail(batch))
    BY <2>1, LinesInTail
  <2>3. OneEach(Tail(batch)) /\ l \notin LinesIn(Tail(batch))
    BY <2>1, OneEachTail
  <2>4. LinesIn(batch') = LinesIn(Tail(batch)) /\ OneEach(batch') = OneEach(Tail(batch))
    BY <2>1 DEF LinesIn, OneEach
  <2> QED
    BY <2>2, <2>3, <2>4
<1>2. l \in Line /\ here[l] = 0 /\ here \in [Line -> Nat] /\ UNCHANGED eventQ
      /\ (here' = here \/ here' = [here EXCEPT ![l] = @ + 1])
  BY <1>1, CommitMoves, PlaceTypes DEF Committing
<1> HIDE DEF l
<1>3. /\ \A k \in Line : here'[k] <= 1
      /\ \A k \in Line : k # l => here'[k] = here[k]
  BY <1>2 DEF Committing
<1>4. l \notin LinesIn(eventQ)
  BY <1>1 DEF Committing
<1>5. LinesIn(eventQ) \subseteq Line /\ LinesIn(batch') \subseteq Line
  <2>1. \A s \in Seq(Item) : LinesIn(s) \subseteq Line
    <3>1. \A s \in Seq(Item) : \A n \in DOMAIN s : s[n] \in Item
      OBVIOUS
    <3> QED
      BY <3>1 DEF LinesIn, Item
  <2> QED
    BY <1>1, <2>1, PlaceTypes
<1> QED
  BY <1>1, <1>2, <1>3, <1>4, <1>5 DEF Committing

LEMMA PlacesDone ==
  ASSUME TypeInv, Places, CommitOne \/ Ingest, batch' = Tail(batch)
  PROVE  Places'
<1> DEFINE l == batch[1].line
<1>1. LinesIn(batch) = {l} \cup LinesIn(batch')
  BY CommitMoves, PlaceTypes, LinesInTail
<1>2. l \in Line /\ here \in [Line -> Nat] /\ UNCHANGED <<hand, lineQ, eventQ, work, readBy>>
      /\ (here' = here \/ here' = [here EXCEPT ![l] = @ + 1])
  BY CommitMoves, PlaceTypes
<1> HIDE DEF l
<1>3. l \in readBy /\ l \notin Waiting /\ \A w \in Workers : l \notin LinesIn(work[w])
  BY <1>1 DEF Places, Parsing, WasRead, Past, InFlight
<1>4. \A k \in readBy : k # l => here'[k] = here[k]
  BY <1>2 DEF TypeInv, TypeOK, HistType
<1>5. Committing'
  BY CommittingDone DEF Places
<1>6. Parsing'
  <2>1. Waiting \subseteq readBy /\ \A w \in Workers : LinesIn(work[w]) \subseteq readBy
    BY DEF Places, WasRead, InFlight, Waiting
  <2> QED
    BY <1>1, <1>2, <1>3, <1>4, <2>1 DEF Places, Parsing, Waiting, Past
<1>7. WasRead'
  BY <1>1, <1>2, <1>3, <1>4 DEF Places, WasRead, InFlight
<1> QED
  BY <1>5, <1>6, <1>7 DEF Places

(* An event that goes on to be ingested stays where it is. *)
LEMMA CommittingCommits ==
  ASSUME TypeInv, Committing, CommitOne \/ Ingest
  PROVE  Committing'
<1>1. CASE batch' = Tail(batch)
  BY <1>1, CommittingDone
<1>2. CASE batch' = batch /\ here' = here
  BY <1>2, CommitMoves, CommittingFrame
<1> QED
  BY <1>1, <1>2, CommitMoves

LEMMA PlacesCommits ==
  ASSUME TypeInv, Places, CommitOne \/ Ingest
  PROVE  Places'
<1>1. CASE batch' = Tail(batch)
  BY <1>1, PlacesDone
<1>2. CASE batch' = batch /\ here' = here
  BY <1>2, CommitMoves, PlacesFrame
<1> QED
  BY <1>1, <1>2, CommitMoves

LEMMA PlacesGone ==
  ASSUME ProcessGone
  PROVE  Places'
<1>1. /\ hand' = <<>> /\ lineQ' = <<>> /\ eventQ' = <<>> /\ batch' = <<>> /\ work' = Empty
      /\ here' = [l \in Line |-> 0] /\ readBy' = {}
  BY DEF ProcessGone
<1> QED
  BY <1>1, LinesInEmpty, OneEachEmpty
  DEF Places, Committing, Parsing, WasRead, Waiting, Past, InFlight, Empty

-----------------------------------------------------------------------------
(* The steps. *)

LEMMA PlacesPump ==
  ASSUME TypeInv, Reading, Places, Pump
  PROVE  Places'
<1>1. CASE ReadLine \/ EnqueueLine \/ Drain \/ CommitOne \/ Ingest
  BY <1>1, PlacesReadLine, PlacesEnqueueLine, PlacesDrain, PlacesCommits
<1>2. CASE PollBegin \/ PumpExit \/ BackfillNext \/ Stat \/ Open \/ RetiredNext
           \/ ActiveDone \/ Checkpoint \/ PumpDies \/ CommitDone
  BY <1>2, PlacesFrame DEF PollBegin, PumpExit, BackfillNext, Stat, Open, RetiredNext,
     ActiveDone, Checkpoint, PumpDies, CommitDone, queueVars, histVars
<1> QED
  BY <1>1, <1>2 DEF Pump

(* With the monitor closed and the workers gone only draining and committing
   matter. *)
LEMMA CommittingLate ==
  ASSUME TypeInv, Joined, Committing, main = "exiting", [Next]_vars
  PROVE  Committing'
<1>1. CASE Drain \/ CommitOne \/ Ingest
  BY <1>1, CommittingDrain, CommittingCommits
<1>2. CASE \/ PollBegin \/ PumpExit \/ ReadLine \/ BackfillNext \/ Stat \/ Open
           \/ RetiredNext \/ ActiveDone \/ Checkpoint \/ PumpDies \/ EnqueueLine
           \/ CommitDone
  BY <1>2, CommittingFrame DEF PollBegin, PumpExit, ReadLine, BackfillNext, Stat, Open,
     RetiredNext, ActiveDone, Checkpoint, PumpDies, EnqueueLine, CommitDone, queueVars,
     histVars
<1>3. CASE Write \/ Rename \/ Create \/ Reopen \/ Truncate
  BY <1>3, CommittingFrame DEF Write, Rename, Create, Reopen, Truncate, agentVars,
     queueVars, histVars
<1>4. ASSUME NEW w \in Workers, Worker(w) PROVE FALSE
  BY <1>4 DEF Joined, AllStopped, Worker, GetLine, PutEvent, Quit
<1>5. CASE \/ RequestStop \/ PipelineDied \/ PumpJoined \/ WorkersJoined \/ FlushCommits
           \/ CloseMonitor \/ Start
  BY <1>5, CommittingFrame DEF RequestStop, PipelineDied, PumpJoined, WorkersJoined,
     FlushCommits, CloseMonitor, Start, queueVars, histVars
<1>6. CASE Exit \/ Crash
  BY <1>6, PlacesGone DEF Exit, Crash, Places
<1>7. CASE UNCHANGED vars
  BY <1>7, CommittingFrame DEF vars, queueVars, histVars
<1> QED
  BY <1>1, <1>2, <1>3, <1>4, <1>5, <1>6, <1>7 DEF Next, Pump, Main

LEMMA PlacesStep ==
  ASSUME TypeInv, Reading, Places, [Next]_vars
  PROVE  Places'
<1>1. CASE Pump
  BY <1>1, PlacesPump
<1>2. CASE Write \/ Rename \/ Create \/ Reopen \/ Truncate
  BY <1>2, PlacesFrame DEF Write, Rename, Create, Reopen, Truncate, agentVars, queueVars,
     histVars
<1>3. ASSUME NEW w \in Workers, Worker(w) PROVE Places'
  <2>1. CASE GetLine(w) \/ PutEvent(w)
    BY <2>1, PlacesGetLine, PlacesPutEvent
  <2>2. CASE Quit(w)
    BY <2>2, PlacesFrame DEF Quit, histVars
  <2> QED
    BY <1>3, <2>1, <2>2 DEF Worker
<1>4. CASE \/ RequestStop \/ PipelineDied \/ PumpJoined \/ WorkersJoined \/ FlushCommits
           \/ CloseMonitor \/ Start
  BY <1>4, PlacesFrame DEF RequestStop, PipelineDied, PumpJoined, WorkersJoined,
     FlushCommits, CloseMonitor, Start, queueVars, histVars
<1>5. CASE Exit \/ Crash
  BY <1>5, PlacesGone DEF Exit, Crash
<1>6. CASE UNCHANGED vars
  BY <1>6, PlacesFrame DEF vars, queueVars, histVars
<1> QED
  BY <1>1, <1>2, <1>3, <1>4, <1>5, <1>6 DEF Next, Main

(* The process is gone, or what is exiting stays so. *)
LEMMA ExitingEnds ==
  ASSUME [Next]_vars, main = "exiting", main' # "exiting"
  PROVE  ProcessGone
<1>1. CASE Pump
  BY <1>1 DEF Pump, PollBegin, PumpExit, ReadLine, BackfillNext, Stat, Open, RetiredNext,
     ActiveDone, Checkpoint, PumpDies, EnqueueLine, Drain, CommitOne, Ingest, CommitDone, mainVars
<1>2. CASE Write \/ Rename \/ Create \/ Reopen \/ Truncate
  BY <1>2 DEF Write, Rename, Create, Reopen, Truncate, agentVars, mainVars
<1>3. ASSUME NEW w \in Workers, Worker(w) PROVE FALSE
  BY <1>3 DEF Worker, GetLine, PutEvent, Quit, mainVars
<1>4. CASE \/ RequestStop \/ PipelineDied \/ PumpJoined \/ WorkersJoined \/ FlushCommits
           \/ CloseMonitor \/ Start
  BY <1>4 DEF RequestStop, PipelineDied, PumpJoined, WorkersJoined, FlushCommits,
     CloseMonitor, Start, mainVars
<1>5. CASE Exit \/ Crash
  BY <1>5 DEF Exit, Crash
<1>6. CASE UNCHANGED vars
  BY <1>6 DEF vars, mainVars
<1> QED
  BY <1>1, <1>2, <1>3, <1>4, <1>5, <1>6 DEF Next, Main

LEMMA OnceStep ==
  ASSUME TypeInv, TypeInv', OnceInv, [Next]_vars
  PROVE  OnceInv'
<1>1. Distinct' /\ Joined'
  BY DistinctStep, JoinedStep DEF OnceInv
<1>2. main' # "exiting" => Reading'
  BY ReadingStep DEF OnceInv
<1>3. CASE main # "exiting"
  <2>1. Places'
    BY <1>3, PlacesStep DEF OnceInv, Places
  <2> QED
    BY <1>1, <1>2, <2>1 DEF OnceInv, Places
<1>4. CASE main = "exiting"
  <2>1. Committing'
    BY <1>4, CommittingLate DEF OnceInv
  <2>2. main' # "exiting" => Places'
    BY <1>4, ExitingEnds, PlacesGone
  <2> QED
    BY <1>1, <1>2, <2>1, <2>2 DEF OnceInv, Places
<1> QED
  BY <1>3, <1>4

LEMMA OnceAtFirst ==
  ASSUME Init
  PROVE  OnceInv
<1>1. Distinct /\ Joined
  BY DEF Init, Distinct, Joined
<1>2. Reading
  BY ConstantsAssumption
  DEF Init, NoHarvester, Reading, OpenOnce, Opening, Cursors, ReadElsewhere
<1>3. Places
  BY LinesInEmpty, OneEachEmpty
  DEF Init, Places, Committing, Parsing, WasRead, Waiting, Past, InFlight, Empty
<1> QED
  BY <1>1, <1>2, <1>3 DEF OnceInv, Places

(* Within one life of the process no line is ingested twice - however files
   rotate or are cut, archives are recovered, an enqueue is retried, workers
   overtake each other and the shutdown overtakes the poll; whatever the
   duplicate filter has forgotten. *)
THEOREM EachLineOnce == Spec => []AtMostOncePerLife
<1>1. Init => TypeInv
  BY InitType
<1>2. TypeInv /\ [Next]_vars => TypeInv'
  BY TypeStep
<1>3. Init => OnceInv
  BY OnceAtFirst
<1>4. TypeInv /\ TypeInv' /\ OnceInv /\ [Next]_vars => OnceInv'
  BY OnceStep
<1>5. OnceInv => AtMostOncePerLife
  BY DEF OnceInv, Committing, AtMostOncePerLife
<1> QED
  BY <1>1, <1>2, <1>3, <1>4, <1>5, PTL DEF Spec

-----------------------------------------------------------------------------
(***************************************************************************)
(* One growing file read by one worker, the agent's default, for every     *)
(* number of lines, crashes and stops and every capacity, if the grace     *)
(* period suffices: lines stay in the order of the file all the way to the *)
(* metrics, so the offset that is durable never covers a line that was not *)
(* ingested.  The registered offset does, by the one line in hand, from    *)
(* its acknowledgement to its ingest; what makes the difference is that    *)
(* nobody saves the registry in between.                                   *)
(*                                                                         *)
(* Nothing is compared with the file: a chain of offsets runs from the     *)
(* committed offset through the batch, the event queue, the worker, the    *)
(* line queue and the hand to the read position, without a gap.  A monitor *)
(* that is closed cuts the chain behind the event queue; by then the       *)
(* worker has stopped, and what lies before the cut is never joined to     *)
(* what is read after it.                                                  *)
(***************************************************************************)
TheWorker == CHOOSE w \in Workers : TRUE
OneGrowingFile ==
  /\ Workers = {TheWorker}
  /\ MaxRotations = 0 /\ MaxTruncations = 0

(* No file is ever retired or recovered. *)
OnlyActive ==
  /\ backfill = <<>> /\ retired = <<>> /\ stage # "openRotated"
  /\ main # "exiting" /\ stage = "open" => harv.ino = 0

(* The items of s are the lines from offset o on. *)
From(s, o) == \A n \in DOMAIN s : s[n].off = o + n - 1

(* What the worker is done with starts at the offset d; the rest follows. *)
Parsed(d) == From(batch, d) /\ From(eventQ, d + Len(batch))
ParsedEnd(d) == d + Len(batch) + Len(eventQ)
Unparsed(o) ==
  /\ From(work[TheWorker], o)
  /\ From(lineQ, o + Len(work[TheWorker]))
  /\ From(hand, o + Len(work[TheWorker]) + Len(lineQ))
ReadEnd(o) == o + Len(work[TheWorker]) + Len(lineQ) + Len(hand)

(* A line is acknowledged before it is ingested. *)
InHand == act = "ingest"
Acked(d) == IF InHand THEN d + 1 ELSE d

(* Until the monitor is closed the chain ends at the read position, and begins
   at the registered offset. *)
Unbroken(d) ==
  /\ reg[1] = Acked(d)
  /\ Unparsed(ParsedEnd(d))
  /\ IF harv.ino = 0 THEN ReadEnd(ParsedEnd(d)) = d
                     ELSE ReadEnd(ParsedEnd(d)) = harv.off /\ harv.off <= Len(file[1])

IngestedTo(d) == d <= Len(file[1]) /\ \A k \in 1 .. d : Ingested(file[1][k])

InOrder(d) ==
  /\ IngestedTo(d) /\ disk[1] <= d /\ reg[1] <= Acked(d)
  /\ Parsed(d)
  /\ main # "exiting" => Unbroken(d)

(* If the grace period suffices, the main thread waits for the pipeline, so
   nothing is committed, and no line is in hand, once it goes on. *)
Awaited ==
  /\ main \notin {"run", "halting"} => stage = "done"
  /\ act # "read" => stage \in {"active", "final", "closed"}

OrderInv == OnlyActive /\ Awaited /\ \E d \in Nat : InOrder(d)

-----------------------------------------------------------------------------
(* What the types say of one file and one worker. *)

LEMMA OneFile ==
  ASSUME TypeInv, OneGrowingFile
  PROVE  /\ Inode = {1} /\ path = 1 /\ created = 1 /\ writer = 1
         /\ harv.ino \in {0, 1} /\ harv.off \in Nat
         /\ file[1] \in Seq(Line) /\ Len(file[1]) \in Nat
         /\ reg \in [{1} -> Nat] /\ disk \in [{1} -> Nat]
<1>1. Inode = {1}
  BY DEF Inode, OneGrowingFile
<1>2. created = 1 /\ writer = 1 /\ path \in {0, 1} /\ file \in [Inode -> Seq(Line)]
  BY <1>1 DEF TypeInv, TypeOK, LogType
<1>3. path = 1
  BY <1>2 DEF TypeInv, RoomForFile, OneGrowingFile
<1>4. harv.ino \in {0, 1} /\ harv.off \in Nat
  BY <1>1 DEF TypeInv, TypeOK, MonitorType, Harvester
<1>5. file[1] \in Seq(Line)
  BY <1>1, <1>2
<1>6. Len(file[1]) \in Nat
  BY <1>5
<1> QED
  BY <1>1, <1>2, <1>3, <1>4, <1>5, <1>6 DEF TypeInv, TypeOK, RegType

LEMMA QueueTypes ==
  ASSUME TypeInv, OneGrowingFile
  PROVE  /\ hand \in Seq(Item) /\ batch \in Seq(Item) /\ lineQ \in Seq(Item)
         /\ eventQ \in Seq(Item) /\ work[TheWorker] \in Seq(Item)
         /\ Len(hand) \in Nat /\ Len(batch) \in Nat /\ Len(lineQ) \in Nat
         /\ Len(eventQ) \in Nat /\ Len(work[TheWorker]) \in Nat
         /\ work \in [Workers -> Seq(Item)] /\ TheWorker \in Workers
<1>1. TheWorker \in Workers
  BY DEF OneGrowingFile
<1>2. /\ hand \in Seq(Item) /\ batch \in Seq(Item) /\ lineQ \in Seq(Item)
      /\ eventQ \in Seq(Item) /\ work[TheWorker] \in Seq(Item)
      /\ work \in [Workers -> Seq(Item)]
  BY <1>1 DEF TypeInv, TypeOK, QueueType
<1> QED
  BY <1>1, <1>2

LEMMA ExactlyOne ==
  ASSUME NEW S, NEW s \in Seq(S), s # <<>>, Len(s) <= 1
  PROVE  Len(s) = 1
<1>1. Len(s) \in Nat \ {0}
  BY EmptySeq
<1> QED
  BY <1>1

LEMMA FromNothing == \A o : From(<<>>, o)
  BY DEF From

LEMMA FromAppend ==
  ASSUME NEW S, NEW s \in Seq(S), NEW e, NEW o \in Nat, From(s, o), e.off = o + Len(s)
  PROVE  From(Append(s, e), o) /\ Len(Append(s, e)) = Len(s) + 1
<1>1. \A n \in DOMAIN Append(s, e) :
        \/ n = Len(s) + 1 /\ Append(s, e)[n] = e
        \/ n \in DOMAIN s /\ Append(s, e)[n] = s[n]
  OBVIOUS
<1>2. Len(s) \in Nat /\ Len(Append(s, e)) = Len(s) + 1
  OBVIOUS
<1> QED
  BY <1>1, <1>2 DEF From

LEMMA FromTail ==
  ASSUME NEW S, NEW s \in Seq(S), NEW o \in Nat, From(s, o), s # <<>>
  PROVE  s[1].off = o /\ From(Tail(s), o + 1) /\ Len(Tail(s)) = Len(s) - 1 /\ Len(s) > 0
<1>1. /\ 1 \in DOMAIN s /\ Len(Tail(s)) = Len(s) - 1 /\ Len(s) \in Nat \ {0}
      /\ \A n \in DOMAIN Tail(s) : n \in Nat /\ n + 1 \in DOMAIN s /\ Tail(s)[n] = s[n + 1]
  OBVIOUS
<1> QED
  BY <1>1 DEF From

LEMMA FromOne ==
  ASSUME NEW e, NEW o \in Nat, e.off = o
  PROVE  From(<<e>>, o) /\ Len(<<e>>) = 1
  BY DEF From

-----------------------------------------------------------------------------
(* Steps that move no line. *)

LEMMA InOrderFrame ==
  ASSUME NEW d \in Nat, InOrder(d), UNCHANGED <<file, reg, queueVars, before, here>>,
         disk'[1] <= d, InHand' = InHand,
         main' # "exiting" => main # "exiting" /\ harv' = harv
  PROVE  InOrder(d)'
  BY DEF InOrder, IngestedTo, Ingested, Parsed, From, Unbroken, Unparsed, ParsedEnd, ReadEnd,
     Acked, queueVars

LEMMA InOrderKeeps ==
  ASSUME NEW d \in Nat, InOrder(d), UNCHANGED <<file, regVars, queueVars, before, here>>,
         InHand' = InHand, main' # "exiting" => main # "exiting" /\ harv' = harv
  PROVE  InOrder(d)'
  BY InOrderFrame DEF InOrder, regVars

(* The registry is saved only while no line is in hand. *)
LEMMA InOrderSave ==
  ASSUME TypeInv, OneGrowingFile, NEW d \in Nat, InOrder(d),
         UNCHANGED <<file, reg, queueVars, before, here, act>>,
         UNCHANGED disk \/ Save, ~InHand,
         main' # "exiting" => main # "exiting" /\ harv' = harv
  PROVE  InOrder(d)'
<1>1. disk'[1] <= d
  BY DEF InOrder, Acked, Save
<1> QED
  BY <1>1, InOrderFrame DEF InHand

(* The file only grows. *)
LEMMA FileGrows ==
  ASSUME TypeInv, OneGrowingFile, Write
  PROVE  /\ Len(file'[1]) = Len(file[1]) + 1
         /\ file'[1][Len(file[1]) + 1] = written + 1
         /\ \A k \in 1 .. Len(file[1]) : file'[1][k] = file[1][k]
<1>1. file[1] \in Seq(Line) /\ file \in [{1} -> Seq(Line)] /\ writer = 1
  BY OneFile DEF TypeInv, TypeOK, LogType
<1>2. file'[1] = Append(file[1], written + 1)
  BY <1>1 DEF Write
<1> QED
  BY <1>1, <1>2

LEMMA InOrderWrite ==
  ASSUME TypeInv, OneGrowingFile, NEW d \in Nat, InOrder(d), Write
  PROVE  InOrder(d)'
<1>1. Len(file[1]) \in Nat
  BY OneFile
<1>2. /\ Len(file'[1]) = Len(file[1]) + 1
      /\ \A k \in 1 .. Len(file[1]) : file'[1][k] = file[1][k]
  BY FileGrows
<1>3. UNCHANGED <<reg, disk, act, queueVars, before, here, main, harv>>
  BY DEF Write, agentVars, regVars, monitorVars, mainVars, histVars
<1>4. IngestedTo(d)'
  <2>1. \A k \in 1 .. d : k \in 1 .. Len(file[1])
    BY <1>1 DEF InOrder, IngestedTo
  <2> QED
    BY <1>1, <1>2, <1>3, <2>1 DEF InOrder, IngestedTo, Ingested
<1>5. harv.off \in Nat /\ harv.off <= Len(file[1]) => harv.off <= Len(file'[1])
  BY <1>1, <1>2
<1>6. harv.off \in Nat
  BY OneFile
<1> QED
  BY <1>3, <1>4, <1>5, <1>6 DEF InOrder, Parsed, From, Unbroken, Unparsed, ParsedEnd, ReadEnd,
     Acked, InHand, queueVars

-----------------------------------------------------------------------------
(* Steps that move a line along the chain. *)

LEMMA SourceIsActive ==
  ASSUME OnlyActive, ReadLine, TypeInv
  PROVE  stage = "active" /\ Source = harv
  BY DEF OnlyActive, ReadLine, Source, NoHarvester, TypeInv, TypeOK, MonitorType

LEMMA InOrderReadLine ==
  ASSUME TypeInv, OneGrowingFile, OnlyActive, NEW d \in Nat, InOrder(d), ReadLine
  PROVE  InOrder(d)'
<1>1. stage = "active" /\ Source = harv
  BY SourceIsActive
<1>2. harv.ino = 1 /\ harv.off \in Nat /\ Len(file[1]) \in Nat
  BY <1>1, OneFile DEF ReadLine
<1>3. harv' = [harv EXCEPT !.off = @ + 1] /\ harv \in Harvester
  BY <1>1 DEF ReadLine, TypeInv, TypeOK, MonitorType
<1>4. harv'.ino = 1 /\ harv'.off = harv.off + 1 /\ harv.off < Len(file[1])
  BY <1>1, <1>2, <1>3 DEF ReadLine, AtEOF, Harvester
<1> DEFINE e == [ino |-> Source.ino, off |-> Source.off,
                 line |-> file[Source.ino][Source.off + 1]]
<1>5. hand' = <<e>> /\ e.off = harv.off /\ hand = <<>>
  BY <1>1 DEF ReadLine, TypeInv, Hands, PumpHands
<1>6. /\ UNCHANGED <<file, reg, disk, before, here, main, batch, lineQ, eventQ, work>>
      /\ ~InHand /\ ~InHand'
  BY DEF ReadLine, logVars, regVars, mainVars, InHand
<1> HIDE DEF e
<1>7. ASSUME main # "exiting" PROVE Unbroken(d)'
  <2> DEFINE o == ParsedEnd(d)
             b == o + Len(work[TheWorker]) + Len(lineQ)
  <2>1. Unbroken(d) /\ Len(hand) = 0
    BY <1>5, <1>7 DEF InOrder
  <2>2. o \in Nat /\ b \in Nat /\ harv.off = b
    BY <1>2, <2>1, QueueTypes DEF Unbroken, ReadEnd, ParsedEnd
  <2>3. From(hand', b) /\ Len(hand') = 1
    BY <1>5, <2>2, FromOne
  <2>4. ReadEnd(ParsedEnd(d))' = harv'.off
    BY <1>4, <1>6, <2>2, <2>3 DEF ReadEnd, ParsedEnd
  <2>5. Unparsed(ParsedEnd(d))'
    BY <1>6, <2>1, <2>3 DEF Unbroken, Unparsed, ParsedEnd, From
  <2> QED
    BY <1>2, <1>4, <1>6, <2>1, <2>4, <2>5 DEF Unbroken, Acked
<1>8. IngestedTo(d)' /\ Parsed(d)' /\ disk'[1] <= d /\ reg'[1] <= Acked(d)'
  BY <1>6 DEF InOrder, IngestedTo, Ingested, Parsed, From, Acked
<1> QED
  BY <1>6, <1>7, <1>8 DEF InOrder

LEMMA InOrderEnqueueLine ==
  ASSUME TypeInv, OneGrowingFile, NEW d \in Nat, InOrder(d), EnqueueLine
  PROVE  InOrder(d)'
<1>1. /\ UNCHANGED <<file, reg, disk, before, here, main, harv, batch, eventQ, work>>
      /\ lineQ' = Append(lineQ, hand[1]) /\ hand' = <<>>
      /\ ~InHand /\ ~InHand'
  BY DEF EnqueueLine, logVars, regVars, mainVars, histVars, InHand
<1>0. hand \in Seq(Item) /\ hand # <<>> /\ Len(hand) <= 1
  BY DEF EnqueueLine, TypeInv, TypeOK, QueueType, Hands, PumpHands
<1>2. hand \in Seq(Item) /\ hand # <<>> /\ Len(hand) = 1
  BY <1>0, ExactlyOne
<1>3. ASSUME main # "exiting" PROVE Unbroken(d)'
  <2> DEFINE o == ParsedEnd(d)
             a == o + Len(work[TheWorker])
  <2>1. Unbroken(d)
    BY <1>3 DEF InOrder
  <2>2. o \in Nat /\ a \in Nat /\ a + Len(lineQ) \in Nat /\ lineQ \in Seq(Item)
    BY QueueTypes DEF ParsedEnd
  <2>3. hand[1].off = a + Len(lineQ) /\ From(lineQ, a)
    BY <1>2, <2>1, <2>2, FromTail DEF Unbroken, Unparsed
  <2>4. From(lineQ', a) /\ Len(lineQ') = Len(lineQ) + 1
    BY <1>1, <2>2, <2>3, FromAppend
  <2>5. From(hand', a + Len(lineQ')) /\ Len(hand') = 0
    BY <1>1, FromNothing
  <2>6. ReadEnd(ParsedEnd(d))' = ReadEnd(ParsedEnd(d))
    <3>1. ParsedEnd(d)' = o /\ Len(hand) = 1 /\ Len(lineQ) \in Nat
          /\ Len(work'[TheWorker]) = Len(work[TheWorker]) /\ Len(work[TheWorker]) \in Nat
      BY <1>1, <1>2, QueueTypes DEF ParsedEnd
    <3> HIDE DEF o
    <3> QED
      BY <1>1, <2>2, <2>4, <2>5, <3>1 DEF ReadEnd, o
  <2>7. Unparsed(ParsedEnd(d))'
    BY <1>1, <2>1, <2>4, <2>5 DEF Unbroken, Unparsed, ParsedEnd, From
  <2> QED
    BY <1>1, <2>1, <2>6, <2>7 DEF Unbroken, Acked
<1>4. IngestedTo(d)' /\ Parsed(d)' /\ disk'[1] <= d /\ reg'[1] <= Acked(d)'
  BY <1>1 DEF InOrder, IngestedTo, Ingested, Parsed, From, Acked
<1> QED
  BY <1>1, <1>3, <1>4 DEF InOrder

LEMMA InOrderDrain ==
  ASSUME TypeInv, OneGrowingFile, NEW d \in Nat, InOrder(d), Drain
  PROVE  InOrder(d)'
<1>1. /\ UNCHANGED <<file, reg, disk, before, here, main, harv, lineQ, hand, work>>
      /\ batch' = eventQ /\ eventQ' = <<>>
      /\ ~InHand /\ ~InHand'
  BY DEF Drain, CommitsDue, logVars, regVars, mainVars, histVars, InHand
<1>2. batch = <<>>
  BY DEF Drain, CommitsDue, TypeInv, Hands, PumpHands
<1>3. Len(eventQ) \in Nat /\ Len(batch) = 0 /\ Len(eventQ') = 0 /\ Len(batch') = Len(eventQ)
  BY <1>1, <1>2, QueueTypes
<1>4. ParsedEnd(d)' = ParsedEnd(d)
  BY <1>3 DEF ParsedEnd
<1>5. Parsed(d)'
  BY <1>1, <1>3, FromNothing DEF InOrder, Parsed
<1>6. IngestedTo(d)' /\ disk'[1] <= d /\ reg'[1] <= Acked(d)'
  BY <1>1 DEF InOrder, IngestedTo, Ingested, Acked
<1> QED
  BY <1>1, <1>4, <1>5, <1>6 DEF InOrder, Unbroken, Unparsed, From, ReadEnd, Acked

LEMMA InOrderGetLine ==
  ASSUME TypeInv, OneGrowingFile, NEW d \in Nat, InOrder(d), GetLine(TheWorker)
  PROVE  InOrder(d)'
<1>1. /\ UNCHANGED <<file, reg, disk, act, before, here, main, harv, batch, eventQ, hand>>
      /\ lineQ' = Tail(lineQ) /\ lineQ # <<>>
      /\ work' = [work EXCEPT ![TheWorker] = <<lineQ[1]>>]
  BY DEF GetLine, logVars, regVars, mainVars, monitorVars, histVars
<1>2. work'[TheWorker] = <<lineQ[1]>> /\ work[TheWorker] = <<>>
  BY <1>1, QueueTypes DEF GetLine, TypeInv, Hands, WorkerHands
<1>3. ASSUME main # "exiting" PROVE Unbroken(d)'
  <2> DEFINE o == ParsedEnd(d)
  <2>1. Unbroken(d) /\ Len(work[TheWorker]) = 0
    BY <1>2, <1>3 DEF InOrder
  <2>2. o \in Nat /\ lineQ \in Seq(Item) /\ Len(lineQ) \in Nat /\ Len(hand) \in Nat
    BY QueueTypes DEF ParsedEnd
  <2>3. From(lineQ, o) /\ From(hand, o + Len(lineQ))
    BY <2>1, <2>2 DEF Unbroken, Unparsed
  <2>4. lineQ[1].off = o /\ From(lineQ', o + 1) /\ Len(lineQ') = Len(lineQ) - 1
    BY <1>1, <2>2, <2>3, FromTail
  <2>5. From(work'[TheWorker], o) /\ Len(work'[TheWorker]) = 1
    BY <1>2, <2>2, <2>4, FromOne
  <2>6. ParsedEnd(d)' = o
    BY <1>1 DEF ParsedEnd
  <2>7. o + 1 + Len(lineQ') = o + Len(lineQ)
    BY <2>2, <2>4
  <2> HIDE DEF o
  <2>8. Unparsed(ParsedEnd(d))'
    BY <1>1, <2>3, <2>4, <2>5, <2>6, <2>7 DEF Unparsed, From
  <2>9. ReadEnd(ParsedEnd(d))' = ReadEnd(ParsedEnd(d))
    <3>1. ParsedEnd(d) \in Nat /\ ParsedEnd(d)' = ParsedEnd(d) /\ hand' = hand
      BY <1>1, <2>2, <2>6 DEF o
    <3> QED
      BY <2>1, <2>2, <2>4, <2>5, <3>1 DEF ReadEnd
  <2> QED
    BY <1>1, <2>1, <2>8, <2>9 DEF Unbroken, Acked, InHand
<1>4. IngestedTo(d)' /\ Parsed(d)' /\ disk'[1] <= d /\ reg'[1] <= Acked(d)'
  BY <1>1 DEF InOrder, IngestedTo, Ingested, Parsed, From, Acked, InHand
<1> QED
  BY <1>1, <1>3, <1>4 DEF InOrder

(* A worker that still puts has not been waited for yet. *)
LEMMA InOrderPutEvent ==
  ASSUME TypeInv, OneGrowingFile, Joined, NEW d \in Nat, InOrder(d), PutEvent(TheWorker)
  PROVE  InOrder(d)'
<1> DEFINE e == work[TheWorker][1]
<1>1. /\ UNCHANGED <<file, reg, disk, act, before, here, main, harv, batch, lineQ, hand>>
      /\ eventQ' = Append(eventQ, e)
      /\ work' = [work EXCEPT ![TheWorker] = <<>>]
  BY DEF PutEvent, logVars, regVars, mainVars, monitorVars, histVars
<1>0. /\ work[TheWorker] \in Seq(Item) /\ work[TheWorker] # <<>>
      /\ Len(work[TheWorker]) <= 1
  BY QueueTypes DEF PutEvent, TypeInv, TypeOK, QueueType, Hands, WorkerHands
<1>2. work'[TheWorker] = <<>> /\ work[TheWorker] # <<>> /\ Len(work[TheWorker]) = 1
  BY <1>0, <1>1, ExactlyOne, QueueTypes
<1>3. main # "exiting" /\ Unbroken(d)
  BY QueueTypes DEF Joined, AllStopped, PutEvent, InOrder
<1> DEFINE o == ParsedEnd(d)
<1>4. /\ o \in Nat /\ d + Len(batch) \in Nat /\ o = d + Len(batch) + Len(eventQ)
      /\ eventQ \in Seq(Item) /\ work[TheWorker] \in Seq(Item)
      /\ Len(lineQ) \in Nat /\ Len(hand) \in Nat
  BY QueueTypes DEF ParsedEnd
<1>5. e.off = o
  BY <1>2, <1>3, <1>4, FromTail DEF Unbroken, Unparsed
<1> HIDE DEF e
<1>6. From(eventQ', d + Len(batch)) /\ Len(eventQ') = Len(eventQ) + 1
  BY <1>1, <1>4, <1>5, FromAppend DEF InOrder, Parsed
<1>7. ParsedEnd(d)' = o + 1
  BY <1>1, <1>4, <1>6 DEF ParsedEnd
<1>8. Len(work'[TheWorker]) = 0
  BY <1>2
<1> HIDE DEF o
<1>9. From(lineQ, o + 1) /\ From(hand, o + 1 + Len(lineQ))
  BY <1>2, <1>3, <1>4 DEF Unbroken, Unparsed, o
<1>13. o + 1 + Len(work'[TheWorker]) = o + 1
  BY <1>4, <1>8
<1>10. Unparsed(ParsedEnd(d))'
  <2>1. From(work'[TheWorker], o + 1)
    BY <1>2, FromNothing
  <2>2. /\ From(lineQ', o + 1 + Len(work'[TheWorker]))
        /\ From(hand', o + 1 + Len(work'[TheWorker]) + Len(lineQ'))
    BY <1>1, <1>9, <1>13
  <2> QED
    BY <1>7, <2>1, <2>2 DEF Unparsed, From
<1>11. ReadEnd(ParsedEnd(d))' = ReadEnd(ParsedEnd(d))
  BY <1>1, <1>2, <1>4, <1>7, <1>13 DEF ReadEnd, o
<1>12. IngestedTo(d)' /\ Parsed(d)' /\ disk'[1] <= d /\ reg'[1] <= Acked(d)'
  BY <1>1, <1>6 DEF InOrder, IngestedTo, Ingested, Parsed, From, Acked, InHand
<1> QED
  BY <1>1, <1>3, <1>10, <1>11, <1>12 DEF InOrder, Unbroken, Acked, InHand

(* The line in hand is the next one. *)
LEMMA CommitIsNext ==
  ASSUME TypeInv, OneGrowingFile, FilterInv, NEW d \in Nat, InOrder(d), CommitOne \/ Ingest
  PROVE  /\ batch[1].ino = 1 /\ batch[1].off = d /\ batch[1].line \in Line
         /\ d < Len(file[1]) /\ file[1][d + 1] = batch[1].line
         /\ From(Tail(batch), d + 1) /\ Len(Tail(batch)) = Len(batch) - 1
         /\ Len(batch) > 0
<1>1. batch \in Seq(Item) /\ batch # <<>>
  BY QueueTypes, InHandFacts
<1>2. /\ batch[1].off = d /\ From(Tail(batch), d + 1)
      /\ Len(Tail(batch)) = Len(batch) - 1 /\ Len(batch) > 0
  BY <1>1, FromTail DEF InOrder, Parsed
<1>3. batch[1] \in Item /\ OnFile(batch[1])
  BY <1>1, TailOnFile DEF FilterInv, Placed
<1>4. batch[1].ino = 1 /\ batch[1].line \in Line
  BY <1>3, OneFile DEF Item
<1> QED
  BY <1>2, <1>3, <1>4 DEF OnFile, HasLine

(* While there is a line in hand and the monitor is not closed, a file is open. *)
LEMMA CommitOnOpenFile ==
  ASSUME TypeInv, OneGrowingFile, FilterInv, NEW d \in Nat, InOrder(d), CommitOne \/ Ingest,
         main # "exiting"
  PROVE  harv.ino = 1
<1>1. Len(batch) > 0 /\ harv.ino \in {0, 1}
  BY CommitIsNext, OneFile
<1> SUFFICES ASSUME harv.ino = 0 PROVE FALSE
  BY <1>1
<1>2. ReadEnd(ParsedEnd(d)) = d
  BY DEF InOrder, Unbroken
<1> QED
  BY <1>1, <1>2, QueueTypes DEF ReadEnd, ParsedEnd

LEMMA CommitAcks ==
  ASSUME TypeInv, OneGrowingFile, FilterInv, NEW d \in Nat, InOrder(d), CommitOne
  PROVE  reg[1] <= reg'[1] /\ reg'[1] <= d + 1 /\ (main # "exiting" => reg'[1] = d + 1)
<1>1. batch[1].off = d
  BY CommitIsNext
<1>2. reg \in [{1} -> Nat] /\ reg[1] <= d /\ harv.ino \in {0, 1}
  BY OneFile DEF InOrder, Acked, InHand, CommitOne
<1>3. harv.ino = 0 => UNCHANGED reg
  BY DEF CommitOne, AckLine
<1>4. harv.ino = 1 => reg'[1] = d + 1
  BY <1>1, <1>2 DEF CommitOne, AckLine, CommitOffset
<1> QED
  BY <1>2, <1>3, <1>4, CommitOnOpenFile

(* The line in hand has been ingested and is let go. *)
LEMMA InOrderDone ==
  ASSUME TypeInv, OneGrowingFile, FilterInv, NEW d \in Nat, InOrder(d), CommitOne \/ Ingest,
         UNCHANGED <<file, main, harv, hand, lineQ, eventQ, work, disk>>,
         batch' = Tail(batch), ~InHand',
         \A l \in Line : Ingested(l) \/ l = batch[1].line => Ingested(l)',
         reg'[1] <= d + 1, main # "exiting" => reg'[1] = d + 1
  PROVE  InOrder(d + 1)'
<1>1. UNCHANGED <<file, main, harv, hand, lineQ, eventQ, work, disk>> /\ batch' = Tail(batch)
  OBVIOUS
<1>2. /\ d < Len(file[1]) /\ file[1][d + 1] = batch[1].line
      /\ From(batch', d + 1) /\ Len(batch') = Len(batch) - 1
  BY <1>1, CommitIsNext
<1>3. Len(file[1]) \in Nat /\ Len(batch) \in Nat /\ Len(eventQ) \in Nat
      /\ file[1] \in Seq(Line) /\ disk \in [{1} -> Nat]
  BY OneFile, QueueTypes
<1>4. IngestedTo(d + 1)'
  <2>1. \A k \in 1 .. d : file[1][k] \in Line /\ Ingested(file[1][k])
    BY <1>3 DEF InOrder, IngestedTo
  <2>2. \A k \in 1 .. d + 1 : Ingested(file[1][k])'
    <3> SUFFICES ASSUME NEW k \in 1 .. d + 1 PROVE Ingested(file[1][k])'
      OBVIOUS
    <3>1. k = d + 1 \/ k \in 1 .. d
      OBVIOUS
    <3> QED
      BY <1>1, <1>2, <2>1, <3>1, CommitIsNext DEF Ingested
  <2>3. d + 1 <= Len(file[1])
    BY <1>2, <1>3
  <2> QED
    BY <1>1, <2>2, <2>3 DEF IngestedTo, Ingested
<1>5. d + 1 + Len(batch') = d + Len(batch)
  <2>1. \A c, m \in Nat : \A n : n = m - 1 => c + 1 + n = c + m
    OBVIOUS
  <2>2. Len(batch) \in Nat /\ Len(batch') = Len(batch) - 1 /\ d \in Nat
    BY <1>2, <1>3
  <2> QED
    BY <2>1, <2>2
<1>6. Parsed(d + 1)'
  <2>1. From(eventQ', d + 1 + Len(batch'))
    BY <1>1, <1>5 DEF InOrder, Parsed
  <2> QED
    BY <1>2, <2>1 DEF Parsed, From
<1>7. ParsedEnd(d + 1)' = ParsedEnd(d)
  BY <1>1, <1>5 DEF ParsedEnd
<1>8. reg'[1] <= Acked(d + 1)' /\ disk'[1] <= d + 1
      /\ (main # "exiting" => reg'[1] = Acked(d + 1)')
  BY <1>1, <1>3 DEF Acked, InOrder
<1>9. ASSUME main # "exiting" PROVE Unbroken(d + 1)'
  <2>1. Unbroken(d) /\ harv.ino = 1
    BY <1>9, CommitOnOpenFile DEF InOrder
  <2>2. Unparsed(ParsedEnd(d + 1))'
    BY <1>1, <1>7, <2>1 DEF Unbroken, Unparsed, From
  <2>3. ReadEnd(ParsedEnd(d + 1))' = ReadEnd(ParsedEnd(d))
    BY <1>1, <1>7 DEF ReadEnd
  <2> QED
    BY <1>1, <1>8, <1>9, <2>1, <2>2, <2>3 DEF Unbroken
<1> QED
  BY <1>1, <1>4, <1>6, <1>8, <1>9 DEF InOrder

(* A duplicate was ingested before. *)
LEMMA InOrderSkips ==
  ASSUME TypeInv, OneGrowingFile, FilterInv, FilterInv', NEW d \in Nat, InOrder(d),
         CommitOne, batch' = Tail(batch), act' = "commit",
         skipped' = skipped \cup {batch[1].line}
  PROVE  InOrder(d + 1)'
<1>1. UNCHANGED <<file, main, harv, hand, lineQ, eventQ, work, disk, here, before>>
  BY CommitOneIs DEF logVars, mainVars
<1>2. \A l \in Line : Ingested(l) \/ l = batch[1].line => Ingested(l)'
  BY <1>1 DEF FilterInv, SkippedWereIngested, Ingested
<1>3. ~InHand'
  BY DEF InHand
<1> QED
  BY <1>1, <1>2, <1>3, CommitAcks, InOrderDone

(* A new line is acknowledged, and only then ingested. *)
LEMMA InOrderMarks ==
  ASSUME TypeInv, OneGrowingFile, FilterInv, NEW d \in Nat, InOrder(d),
         CommitOne, batch' = batch, act' = "ingest"
  PROVE  InOrder(d)'
<1>1. UNCHANGED <<file, main, harv, hand, lineQ, eventQ, work, disk, here, before, batch>>
  BY CommitOneIs DEF logVars, mainVars
<1>2. reg'[1] <= d + 1 /\ (main # "exiting" => reg'[1] = d + 1)
  BY CommitAcks
<1>3. IngestedTo(d)' /\ Parsed(d)'
  BY <1>1 DEF InOrder, IngestedTo, Ingested, Parsed, From
<1>4. Acked(d)' = d + 1
  BY DEF Acked, InHand
<1>5. main # "exiting" => Unbroken(d)'
  BY <1>1, <1>2, <1>4 DEF InOrder, Unbroken, Unparsed, ParsedEnd, ReadEnd, From
<1> QED
  BY <1>1, <1>2, <1>3, <1>4, <1>5 DEF InOrder

LEMMA InOrderIngest ==
  ASSUME TypeInv, OneGrowingFile, FilterInv, NEW d \in Nat, InOrder(d), Ingest
  PROVE  InOrder(d + 1)'
<1>1. /\ UNCHANGED <<file, main, harv, hand, lineQ, eventQ, work, disk, reg, before>>
      /\ batch' = Tail(batch) /\ act = "ingest" /\ act' = "commit"
      /\ here' = [here EXCEPT ![batch[1].line] = @ + 1]
  BY IngestIs DEF logVars, regVars, mainVars
<1>2. here \in [Line -> Nat] /\ batch[1].line \in Line
  BY InHandFacts DEF TypeInv, TypeOK, HistType
<1>3. \A l \in Line : Ingested(l) \/ l = batch[1].line => Ingested(l)'
  BY <1>1, <1>2 DEF Ingested
<1>4. ~InHand' /\ Acked(d) = d + 1
  BY <1>1 DEF InHand, Acked
<1>5. reg'[1] <= d + 1 /\ (main # "exiting" => reg'[1] = d + 1)
  BY <1>1, <1>4 DEF InOrder, Unbroken
<1> QED
  BY <1>1, <1>3, <1>4, <1>5, InOrderDone

-----------------------------------------------------------------------------
(* Steps that open and close files, and the end of a process. *)

LEMMA InOrderStat ==
  ASSUME TypeInv, OneGrowingFile, NEW d \in Nat, InOrder(d), Stat
  PROVE  InOrder(d)' /\ (main # "exiting" => UNCHANGED harv)
<1>1. path = 1 /\ harv.ino \in {0, 1} /\ harv.off \in Nat /\ Len(file[1]) \in Nat
  BY OneFile
<1>2. UNCHANGED <<file, regVars, queueVars, before, here, main, act>>
  BY DEF Stat, logVars, regVars, mainVars, histVars
<1>3. main # "exiting" /\ harv.ino # 0 => ~(harv.off > Len(file[1]))
  BY <1>1 DEF InOrder, Unbroken
<1>4. main # "exiting" => harv' = harv
  BY <1>1, <1>3 DEF Stat
<1> QED
  BY <1>2, <1>4, InOrderKeeps DEF InHand

LEMMA InOrderOpen ==
  ASSUME TypeInv, OneGrowingFile, OnlyActive, Awaited, NEW d \in Nat, InOrder(d), Open
  PROVE  InOrder(d)'
<1>1. path = 1 /\ reg[1] \in Nat /\ Len(file[1]) \in Nat
  BY OneFile
<1>2. stage = "open" /\ UNCHANGED <<file, regVars, queueVars, before, here, main, act>>
  BY DEF OnlyActive, Open, logVars, mainVars, histVars
<1>3. CASE main = "exiting"
  BY <1>2, <1>3, InOrderKeeps DEF InHand
<1>4. CASE main # "exiting"
  <2>1. harv.ino = 0 /\ Unbroken(d)
    BY <1>2, <1>4 DEF OnlyActive, InOrder
  <2>5. UNCHANGED <<reg, disk>> /\ Acked(d) = d /\ Acked(d)' = d
    BY <1>2 DEF Awaited, Acked, InHand, regVars
  <2>2. harv' = [ino |-> 1, off |-> d] /\ d <= Len(file[1])
    BY <1>1, <1>2, <2>1, <2>5 DEF Open, StartOffset, Unbroken, InOrder, IngestedTo
  <2>3. IngestedTo(d)' /\ Parsed(d)' /\ disk'[1] <= d /\ reg'[1] <= Acked(d)'
    BY <1>2, <2>5 DEF InOrder, IngestedTo, Ingested, Parsed, From, queueVars
  <2>4. Unbroken(d)'
    BY <1>2, <2>1, <2>2, <2>5 DEF Unbroken, Unparsed, ParsedEnd, ReadEnd, From, queueVars
  <2> QED
    BY <2>3, <2>4 DEF InOrder
<1> QED
  BY <1>3, <1>4

LEMMA InOrderGone ==
  ASSUME TypeInv, OneGrowingFile, NEW d \in Nat, InOrder(d), ProcessGone
  PROVE  disk[1] \in Nat /\ InOrder(disk[1])'
<1>1. /\ Inode = {1} /\ disk[1] \in Nat /\ reg[1] \in Nat /\ file[1] \in Seq(Line)
      /\ TheWorker \in Workers /\ Len(file[1]) \in Nat
  BY OneFile, QueueTypes
<1>2. disk[1] <= d
  BY DEF InOrder
<1>3. UNCHANGED <<file, disk>> /\ reg' = disk /\ before' = IngestedSet /\ main' = "run"
      /\ hand' = <<>> /\ batch' = <<>> /\ lineQ' = <<>> /\ eventQ' = <<>> /\ harv'.ino = 0
      /\ work' = Empty /\ ~InHand'
  BY DEF ProcessGone, logVars, NoHarvester, InHand
<1>4. work'[TheWorker] = <<>>
  BY <1>1, <1>3 DEF Empty
<1>5. IngestedTo(disk[1])'
  <2>1. \A k \in 1 .. disk[1] : k \in 1 .. d /\ file[1][k] \in Line
    BY <1>1, <1>2 DEF InOrder, IngestedTo
  <2>2. \A k \in 1 .. disk[1] : file[1][k] \in before'
    BY <1>3, <2>1 DEF InOrder, IngestedTo, IngestedSet
  <2> QED
    BY <1>1, <1>2, <1>3, <2>2 DEF InOrder, IngestedTo, Ingested
<1>6. Parsed(disk[1])'
  BY <1>3, FromNothing DEF Parsed
<1>7. Unbroken(disk[1])'
  <2>1. Unparsed(ParsedEnd(disk[1]))'
    BY <1>3, <1>4, FromNothing DEF Unparsed
  <2>2. ReadEnd(ParsedEnd(disk[1]))' = disk[1]
    BY <1>1, <1>3, <1>4 DEF ReadEnd, ParsedEnd
  <2> QED
    BY <1>3, <2>1, <2>2 DEF Unbroken, Acked
<1> QED
  BY <1>1, <1>3, <1>5, <1>6, <1>7 DEF InOrder, Acked
-----------------------------------------------------------------------------
(* Every step. *)

LEMMA OnlyActivePollBegin ==
  ASSUME TypeInv, OneGrowingFile, OnlyActive, PollBegin
  PROVE  OnlyActive'
<1>1. Archives = 1 .. 0
  BY OneFile DEF Archives
<1>2. StartupRecovery = <<>>
  BY <1>1 DEF StartupRecovery
<1> QED
  BY <1>2 DEF PollBegin, OnlyActive

LEMMA OnlyActiveGone == ProcessGone => OnlyActive'
  BY DEF ProcessGone, OnlyActive

LEMMA OnlyActivePump ==
  ASSUME TypeInv, OneGrowingFile, OnlyActive, Pump
  PROVE  OnlyActive'
<1>1. CASE PollBegin
  BY <1>1, OnlyActivePollBegin
<1>2. CASE Stat
  <2>1. path = 1 /\ harv.ino \in {0, 1}
    BY OneFile
  <2> QED
    BY <1>2, <2>1 DEF Stat, OnlyActive, mainVars
<1>3. CASE ReadLine
  BY <1>3, SourceIsActive DEF ReadLine, OnlyActive, mainVars
<1>4. CASE RetiredNext
  <2>1. retired' = <<>>
    <3>1. due + 1 > Len(retired) /\ Len(retired) = 0 /\ due \in Nat
      BY DEF OnlyActive, TypeInv, TypeOK, MonitorType
    <3>2. SubSeq(retired, due + 1, Len(retired)) = <<>>
      BY <3>1, SubSeqEmpty
    <3> QED
      BY <1>4, <3>2 DEF RetiredNext, OnlyActive
  <2> QED
    BY <1>4, <2>1 DEF RetiredNext, OnlyActive, mainVars
<1>5. CASE BackfillNext
  BY <1>5 DEF BackfillNext, OnlyActive, AtEOF, mainVars
<1>6. CASE PumpExit \/ Open \/ ActiveDone \/ Checkpoint \/ PumpDies \/ EnqueueLine \/ Drain
           \/ CommitOne \/ Ingest \/ CommitDone
  BY <1>6 DEF PumpExit, Open, ActiveDone, Checkpoint, PumpDies, EnqueueLine, Drain, CommitOne,
     Ingest, CommitDone, OnlyActive, mainVars, monitorVars
<1> QED
  BY <1>1, <1>2, <1>3, <1>4, <1>5, <1>6 DEF Pump

LEMMA OnlyActiveStep ==
  ASSUME TypeInv, OneGrowingFile, OnlyActive, [Next]_vars
  PROVE  OnlyActive'
<1>1. CASE Pump
  BY <1>1, OnlyActivePump
<1>2. CASE Write \/ Rename \/ Create \/ Reopen \/ Truncate
  BY <1>2 DEF Write, Rename, Create, Reopen, Truncate, agentVars, mainVars, monitorVars, OnlyActive
<1>3. ASSUME NEW w \in Workers, Worker(w) PROVE OnlyActive'
  BY <1>3 DEF Worker, GetLine, PutEvent, Quit, mainVars, monitorVars, OnlyActive
<1>4. CASE RequestStop \/ PipelineDied \/ PumpJoined \/ WorkersJoined \/ FlushCommits
           \/ CloseMonitor \/ Start
  BY <1>4 DEF RequestStop, PipelineDied, PumpJoined, WorkersJoined, FlushCommits, CloseMonitor,
     Start, mainVars, monitorVars, OnlyActive
<1>5. CASE Exit \/ Crash
  BY <1>5, OnlyActiveGone DEF Exit, Crash
<1>6. CASE UNCHANGED vars
  BY <1>6 DEF vars, mainVars, monitorVars, OnlyActive
<1> QED
  BY <1>1, <1>2, <1>3, <1>4, <1>5, <1>6 DEF Next, Main

LEMMA AwaitedPump ==
  ASSUME TypeInv, OnlyActive, Awaited, Pump
  PROVE  Awaited'
<1>1. CASE ReadLine
  BY <1>1, SourceIsActive DEF ReadLine, Awaited, mainVars
<1>2. CASE PollBegin \/ PumpExit \/ BackfillNext \/ Stat \/ Open \/ RetiredNext \/ ActiveDone
           \/ Checkpoint \/ PumpDies
  BY <1>2 DEF PollBegin, PumpExit, BackfillNext, Stat, Open, RetiredNext, ActiveDone, Checkpoint,
     PumpDies, Awaited, mainVars
<1>3. CASE EnqueueLine \/ Drain \/ CommitOne \/ Ingest \/ CommitDone
  BY <1>3 DEF EnqueueLine, Drain, CommitsDue, CommitOne, Ingest, CommitDone, Awaited,
     mainVars, monitorVars
<1> QED
  BY <1>1, <1>2, <1>3 DEF Pump

LEMMA AwaitedStep ==
  ASSUME TypeInv, OnlyActive, GraceExpires = FALSE, Awaited, [Next]_vars
  PROVE  Awaited'
<1>1. CASE Pump
  BY <1>1, AwaitedPump
<1>2. CASE Write \/ Rename \/ Create \/ Reopen \/ Truncate
  BY <1>2 DEF Write, Rename, Create, Reopen, Truncate, agentVars, mainVars, monitorVars, Awaited
<1>3. ASSUME NEW w \in Workers, Worker(w) PROVE Awaited'
  BY <1>3 DEF Worker, GetLine, PutEvent, Quit, mainVars, monitorVars, Awaited
<1>4. CASE RequestStop \/ PipelineDied \/ PumpJoined \/ WorkersJoined \/ FlushCommits
  BY <1>4 DEF RequestStop, PipelineDied, PumpJoined, WorkersJoined, FlushCommits,
     mainVars, monitorVars, Awaited
<1>5. CASE CloseMonitor
  BY <1>5 DEF CloseMonitor, Awaited, Source, NoHarvester
<1>6. CASE Exit \/ Crash \/ Start
  BY <1>6 DEF Exit, Crash, ProcessGone, Start, Awaited, mainVars
<1>7. CASE UNCHANGED vars
  BY <1>7 DEF vars, mainVars, monitorVars, Awaited
<1> QED
  BY <1>1, <1>2, <1>3, <1>4, <1>5, <1>6, <1>7 DEF Next, Main

LEMMA InOrderPump ==
  ASSUME TypeInv, TypeInv', OneGrowingFile, FilterInv, FilterInv', OnlyActive, Awaited,
         NEW d \in Nat, InOrder(d), Pump
  PROVE  \E c \in Nat : InOrder(c)'
<1>1. CASE ReadLine \/ EnqueueLine \/ Drain \/ Stat \/ Open
  BY <1>1, InOrderReadLine, InOrderEnqueueLine, InOrderDrain, InOrderStat, InOrderOpen
<1>2. CASE CommitOne \/ Ingest
  <2>1. d + 1 \in Nat
    OBVIOUS
  <2>2. InOrder(d)' \/ InOrder(d + 1)'
    BY <1>2, CommitOneIs, InOrderSkips, InOrderMarks, InOrderIngest
  <2> QED
    BY <2>1, <2>2
<1>3. CASE PollBegin \/ PumpExit \/ BackfillNext \/ RetiredNext \/ ActiveDone \/ PumpDies
           \/ CommitDone
  BY <1>3, InOrderKeeps DEF PollBegin, PumpExit, BackfillNext, RetiredNext, ActiveDone,
     PumpDies, CommitDone, InHand, logVars, mainVars, histVars
<1>4. CASE Checkpoint
  BY <1>4, InOrderSave DEF Checkpoint, Awaited, InHand, logVars, mainVars, histVars
<1> QED
  BY <1>1, <1>2, <1>3, <1>4 DEF Pump

LEMMA InOrderStep ==
  ASSUME TypeInv, TypeInv', OneGrowingFile, FilterInv, FilterInv', OnlyActive, Awaited,
         Joined, NEW d \in Nat, InOrder(d), [Next]_vars
  PROVE  \E c \in Nat : InOrder(c)'
<1>1. CASE Pump
  BY <1>1, InOrderPump
<1>2. CASE Write
  BY <1>2, InOrderWrite
<1>3. CASE Rename \/ Create \/ Reopen
  BY <1>3, InOrderKeeps DEF Rename, Create, Reopen, agentVars, mainVars, monitorVars,
     histVars, InHand
<1>4. CASE Truncate
  BY <1>4 DEF Truncate, OneGrowingFile, TypeInv, TypeOK, LogType
<1>5. ASSUME NEW w \in Workers, Worker(w) PROVE InOrder(d)'
  <2>1. w = TheWorker
    BY DEF OneGrowingFile
  <2>2. CASE GetLine(w) \/ PutEvent(w)
    BY <2>1, <2>2, InOrderGetLine, InOrderPutEvent
  <2>3. CASE Quit(w)
    BY <2>3 DEF Quit, InOrder, IngestedTo, Ingested, Parsed, From, Unbroken, Unparsed,
       ParsedEnd, ReadEnd, Acked, InHand, logVars, regVars, monitorVars, mainVars, histVars
  <2> QED
    BY <1>5, <2>2, <2>3 DEF Worker
<1>6. CASE RequestStop \/ PipelineDied \/ PumpJoined \/ WorkersJoined \/ Start
  BY <1>6, InOrderKeeps DEF RequestStop, PipelineDied, PumpJoined, WorkersJoined,
     Start, logVars, mainVars, monitorVars, histVars, InHand
<1>9. CASE FlushCommits \/ CloseMonitor
  <2>1. act = "read"
    BY <1>9 DEF FlushCommits, CloseMonitor, Awaited
  <2> QED
    BY <1>9, <2>1, InOrderSave DEF FlushCommits, CloseMonitor, InHand, logVars, monitorVars,
       histVars
<1>7. CASE Exit \/ Crash
  <2>1. ProcessGone /\ disk' = disk
    BY <1>7 DEF Exit, Crash, ProcessGone
  <2>2. disk'[1] \in Nat /\ InOrder(disk[1])'
    BY <2>1, InOrderGone
  <2> QED
    BY <2>2
<1>8. CASE UNCHANGED vars
  BY <1>8, InOrderKeeps DEF vars, logVars, mainVars, monitorVars, histVars, InHand
<1> QED
  BY <1>1, <1>2, <1>3, <1>4, <1>5, <1>6, <1>7, <1>8, <1>9 DEF Next, Main

LEMMA OrderStep ==
  ASSUME TypeInv, TypeInv', OneGrowingFile, FilterInv, FilterInv', Joined,
         GraceExpires = FALSE, OrderInv, [Next]_vars
  PROVE  OrderInv'
<1>1. OnlyActive' /\ Awaited'
  BY OnlyActiveStep, AwaitedStep DEF OrderInv
<1>2. PICK d \in Nat : InOrder(d)
  BY DEF OrderInv
<1>3. \E c \in Nat : InOrder(c)'
  BY <1>2, InOrderStep DEF OrderInv
<1> QED
  BY <1>1, <1>3 DEF OrderInv

LEMMA OrderAtFirst ==
  ASSUME Init, TypeInv, OneGrowingFile
  PROVE  OrderInv
<1>1. Inode = {1} /\ TheWorker \in Workers
  BY OneFile, QueueTypes
<1>2. reg[1] = 0 /\ disk[1] = 0 /\ Acked(0) = 0 /\ file[1] = <<>> /\ work[TheWorker] = <<>>
  BY <1>1 DEF Init, Empty, Acked, InHand
<1>3. Unbroken(0)
  BY <1>2, FromNothing DEF Init, Unbroken, Unparsed, ReadEnd, ParsedEnd, NoHarvester
<1>4. InOrder(0)
  BY <1>2, <1>3, FromNothing DEF Init, InOrder, IngestedTo, Parsed
<1> QED
  BY <1>4 DEF Init, OrderInv, OnlyActive, Awaited

(* All the invariants together. *)
DeliveryInv ==
  /\ TypeInv /\ FilterInv /\ OnceInv /\ DurableBehind /\ OrderInv

LEMMA DeliveryAlways ==
  ASSUME OneGrowingFile, GraceExpires = FALSE
  PROVE  Spec => []DeliveryInv
<1>1. Init => DeliveryInv
  <2> SUFFICES ASSUME Init PROVE DeliveryInv
    OBVIOUS
  <2>1. TypeInv /\ OnceInv
    BY InitType, OnceAtFirst
  <2>2. FilterInv /\ DurableBehind
    BY DEF Init, FilterInv, Placed, AllOnFile, Remembered, SkippedWereIngested, Empty,
       DurableBehind
  <2> QED
    BY <2>1, <2>2, OrderAtFirst DEF DeliveryInv
<1>2. DeliveryInv /\ [Next]_vars => DeliveryInv'
  <2> SUFFICES ASSUME DeliveryInv, [Next]_vars PROVE DeliveryInv'
    OBVIOUS
  <2>1. TypeInv'
    BY TypeStep DEF DeliveryInv
  <2>2. FilterInv'
    BY FilterStep DEF DeliveryInv, OneGrowingFile
  <2>3. OnceInv'
    BY <2>1, OnceStep DEF DeliveryInv
  <2>4. DurableBehind'
    BY OffsetsStep DEF DeliveryInv
  <2>5. OrderInv'
    BY <2>1, <2>2, OrderStep DEF DeliveryInv, OnceInv
  <2> QED
    BY <2>1, <2>2, <2>3, <2>4, <2>5 DEF DeliveryInv
<1> QED
  BY <1>1, <1>2, PTL DEF Spec

LEMMA DurableWasIngested ==
  ASSUME OneGrowingFile, DeliveryInv
  PROVE  CommittedIngested
<1>1. PICK d \in Nat : InOrder(d)
  BY DEF DeliveryInv, OrderInv
<1>2. Inode = {1} /\ disk[1] \in Nat /\ disk[1] <= d
  BY <1>1, OneFile DEF DeliveryInv, InOrder
<1>3. \A k \in 1 .. Len(file[1]) : k <= disk[1] => k \in 1 .. d
  BY <1>2
<1> QED
  BY <1>1, <1>2, <1>3 DEF CommittedIngested, InOrder, IngestedTo

(* FR-PIP-006, for the agent's default of one worker, a file that is neither
   rotated nor truncated and a shutdown that leaves the pipeline the time it
   takes: every line the durable offset covers was ingested, whenever the
   process dies, whatever the duplicate filter suppresses and whichever saves
   fail - although PipelineCommitter acknowledges a line before on_event.  With a
   grace period that expires it does not hold: the last flush may come between. *)
THEOREM DurableIsIngested ==
  ASSUME NEW w, Workers = {w}, MaxRotations = 0, MaxTruncations = 0, GraceExpires = FALSE
  PROVE  Spec => []CommittedIngested
<1>1. OneGrowingFile
  BY DEF OneGrowingFile, TheWorker
<1>2. Spec => []DeliveryInv
  BY <1>1, DeliveryAlways
<1>3. DeliveryInv => CommittedIngested
  BY <1>1, DurableWasIngested
<1> QED
  BY <1>2, <1>3, PTL

-----------------------------------------------------------------------------
(* An orderly exit. *)

(* Only what was written was ingested, and this process ingested only what its
   registry covers. *)
Known == \A l \in Line : Ingested(l) => l <= written
Covered == \A k \in 1 .. Len(file[1]) : here[file[1][k]] > 0 => k <= reg[1]

OrderlyInv == Known /\ Covered

(* The line in hand is the only one that becomes ingested. *)
LEMMA IngestsOne ==
  ASSUME TypeInv, Ingest
  PROVE  \A l \in Line : /\ Ingested(l)' <=> Ingested(l) \/ l = batch[1].line
                         /\ here'[l] > 0 => here[l] > 0 \/ l = batch[1].line
<1>1. here \in [Line -> Nat] /\ batch[1].line \in Line
  BY InHandFacts DEF TypeInv, TypeOK, HistType
<1> QED
  BY <1>1, IngestIs DEF Ingested

LEMMA CommitWhileOpen ==
  ASSUME Awaited, CommitOne \/ Ingest
  PROVE  main # "exiting"
  BY DEF Awaited, CommitOne, Ingest

LEMMA AckOrderly ==
  ASSUME TypeInv, OneGrowingFile, FilterInv, Known, Covered,
         NEW d \in Nat, InOrder(d), CommitOne
  PROVE  Known' /\ Covered'
<1>1. reg[1] \in Nat /\ reg[1] <= reg'[1] /\ reg'[1] <= d + 1 /\ Len(file[1]) \in Nat
  BY OneFile, CommitAcks
<1>2. UNCHANGED <<file, written, here, before>>
  BY CommitOneIs DEF logVars
<1>3. TypeInv'
  BY CommitOneType
<1>4. reg'[1] \in Nat
  BY <1>3, OneFile DEF TypeInv, TypeOK, RegType
<1> QED
  BY <1>1, <1>2, <1>4 DEF Known, Covered, Ingested

LEMMA IngestOrderly ==
  ASSUME TypeInv, OneGrowingFile, FilterInv, Distinct, Awaited, Known, Covered,
         NEW d \in Nat, InOrder(d), Ingest
  PROVE  Known' /\ Covered'
<1>1. /\ batch[1].line \in Line /\ d < Len(file[1]) /\ file[1][d + 1] = batch[1].line
  BY CommitIsNext
<1>2. reg[1] = d + 1
  BY CommitWhileOpen DEF InOrder, Unbroken, Acked, InHand, Ingest
<1>3. Inode = {1} /\ file[1] \in Seq(Line) /\ Len(file[1]) \in Nat
  BY OneFile
<1>4. d + 1 \in 1 .. Len(file[1]) /\ \A k \in 1 .. Len(file[1]) : file[1][k] \in Line
  BY <1>1, <1>3
<1>5. UNCHANGED <<file, written, reg>>
  BY IngestIs DEF logVars, regVars
<1>6. batch[1].line <= written
  BY <1>1, <1>3, <1>4 DEF Distinct
<1>7. Known'
  BY <1>5, <1>6, IngestsOne DEF Known
<1>8. \A k \in 1 .. Len(file[1]) : file[1][k] = batch[1].line => k = d + 1
  BY <1>1, <1>3, <1>4 DEF Distinct
<1>9. Covered'
  <2> SUFFICES ASSUME NEW k \in 1 .. Len(file[1]), here'[file[1][k]] > 0
               PROVE  k <= d + 1
    BY <1>2, <1>5 DEF Covered
  <2>1. here[file[1][k]] > 0 \/ k = d + 1
    BY <1>4, <1>8, IngestsOne
  <2> QED
    BY <1>2, <2>1 DEF Covered
<1> QED
  BY <1>7, <1>9

LEMMA OrderlyFrame ==
  ASSUME Known, Covered, UNCHANGED <<file, written, reg, here, before>>
  PROVE  Known' /\ Covered'
  BY DEF Known, Covered, Ingested

LEMMA NewLine ==
  ASSUME TypeInv, TypeInv', OneGrowingFile, Known, Write
  PROVE  ~Ingested(written + 1) /\ written + 1 \in Line /\ written \in Nat
<1>1. written \in Nat /\ written + 1 \in Line
  BY ConstantsAssumption DEF TypeInv, TypeOK, LogType, Write, Line
<1> QED
  BY <1>1 DEF Known

LEMMA OrderlyWrite ==
  ASSUME TypeInv, TypeInv', OneGrowingFile, Known, Covered, Write
  PROVE  Known' /\ Covered'
<1>1. /\ Len(file'[1]) = Len(file[1]) + 1
      /\ file'[1][Len(file[1]) + 1] = written + 1
      /\ \A k \in 1 .. Len(file[1]) : file'[1][k] = file[1][k]
  BY FileGrows
<1>2. ~Ingested(written + 1) /\ written + 1 \in Line /\ written \in Nat
  BY NewLine
<1>3. UNCHANGED <<reg, here, before>> /\ written' = written + 1 /\ Len(file[1]) \in Nat
  BY OneFile DEF Write, agentVars, regVars, histVars
<1>4. Known'
  <2>1. \A l \in Line : l \in Nat
    BY DEF Line
  <2> QED
    BY <1>2, <1>3, <2>1 DEF Known, Ingested
<1>5. Covered'
  <2> SUFFICES ASSUME NEW k \in 1 .. Len(file[1]) + 1, here[file'[1][k]] > 0
               PROVE  k <= reg[1]
    BY <1>1, <1>3 DEF Covered
  <2>1. k \in 1 .. Len(file[1])
    BY <1>1, <1>2, <1>3 DEF Ingested
  <2> QED
    BY <1>1, <2>1 DEF Covered
<1> QED
  BY <1>4, <1>5

LEMMA OrderlyGone ==
  ASSUME TypeInv, OneGrowingFile, Known, ProcessGone
  PROVE  Known' /\ Covered'
<1>1. UNCHANGED <<file, written>> /\ before' = IngestedSet /\ here' = [l \in Line |-> 0]
  BY DEF ProcessGone, logVars
<1>2. \A k \in 1 .. Len(file[1]) : file[1][k] \in Line
  BY OneFile
<1> QED
  BY <1>1, <1>2 DEF Known, Covered, Ingested, IngestedSet

LEMMA OrderlyStep ==
  ASSUME OneGrowingFile, DeliveryInv, DeliveryInv', OrderlyInv,
         [Next]_vars
  PROVE  OrderlyInv'
<1>0. TypeInv /\ TypeInv' /\ OnlyActive /\ Awaited /\ Known /\ Covered
  BY DEF DeliveryInv, OrderInv, OrderlyInv
<1>1. Known' /\ Covered'
  <2>1. CASE Write
    BY <1>0, <2>1, OrderlyWrite
  <2>2. CASE CommitOne \/ Ingest
    <3>1. PICK d \in Nat : InOrder(d)
      BY DEF DeliveryInv, OrderInv
    <3>2. FilterInv /\ Distinct
      BY DEF DeliveryInv, OnceInv
    <3> QED
      BY <1>0, <2>2, <3>1, <3>2, AckOrderly, IngestOrderly
  <2>3. CASE Exit \/ Crash
    BY <1>0, <2>3, OrderlyGone DEF Exit, Crash
  <2>4. CASE Truncate
    BY <1>0, <2>4 DEF Truncate, OneGrowingFile, TypeInv, TypeOK, LogType
  <2>5. CASE Rename \/ Create \/ Reopen
    BY <1>0, <2>5, OrderlyFrame DEF Rename, Create, Reopen, agentVars, regVars, histVars
  <2>6. CASE PollBegin \/ PumpExit \/ ReadLine \/ BackfillNext \/ Stat \/ Open \/ RetiredNext
             \/ ActiveDone \/ Checkpoint \/ PumpDies \/ EnqueueLine \/ Drain \/ CommitDone
    BY <1>0, <2>6, OrderlyFrame DEF PollBegin, PumpExit, ReadLine, BackfillNext, Stat, Open,
       RetiredNext, ActiveDone, Checkpoint, PumpDies, EnqueueLine, Drain, CommitDone, logVars,
       regVars, histVars
  <2>7. ASSUME NEW w \in Workers, Worker(w) PROVE Known' /\ Covered'
    BY <1>0, <2>7, OrderlyFrame DEF Worker, GetLine, PutEvent, Quit, logVars, regVars, histVars
  <2>8. CASE RequestStop \/ PipelineDied \/ PumpJoined \/ WorkersJoined \/ FlushCommits
             \/ CloseMonitor \/ Start
    BY <1>0, <2>8, OrderlyFrame DEF RequestStop, PipelineDied, PumpJoined, WorkersJoined,
       FlushCommits, CloseMonitor, Start, logVars, regVars, histVars
  <2>9. CASE UNCHANGED vars
    BY <1>0, <2>9, OrderlyFrame DEF vars, logVars, regVars, histVars
  <2> QED
    BY <2>1, <2>2, <2>3, <2>4, <2>5, <2>6, <2>7, <2>8, <2>9 DEF Next, Pump, Main
<1> QED
  BY <1>1 DEF OrderlyInv

LEMMA OrderlyAtFirst ==
  ASSUME Init, OneGrowingFile
  PROVE  OrderlyInv
<1>1. file[1] = <<>>
  BY InitType, OneFile DEF Init
<1>2. Covered
  BY <1>1 DEF Covered
<1> QED
  BY <1>2 DEF Init, OrderlyInv, Known, Ingested

LEMMA OrderlyAlways ==
  ASSUME OneGrowingFile, GraceExpires = FALSE
  PROVE  Spec => []OrderlyInv
<1>1. Spec => []DeliveryInv
  BY DeliveryAlways
<1>2. Init => OrderlyInv
  BY OrderlyAtFirst
<1>3. DeliveryInv /\ DeliveryInv' /\ OrderlyInv /\ [Next]_vars => OrderlyInv'
  BY OrderlyStep
<1> QED
  BY <1>1, <1>2, <1>3, PTL DEF Spec

(* What is registered but not on disk is known to be so. *)
Saved ==
  /\ ~dirty => disk[1] = reg[1]
  /\ main = "exiting" => disk[1] = reg[1]

LEMMA SavedStep ==
  ASSUME TypeInv, SaveMayFail = FALSE, Awaited, Saved, [Next]_vars
  PROVE  Saved'
<1>1. CASE CommitOne
  <2>1. main' # "exiting" /\ disk' = disk
    BY <1>1, CommitWhileOpen DEF CommitOne, mainVars
  <2>2. dirty' = TRUE \/ UNCHANGED <<reg, dirty>>
    BY <1>1 DEF CommitOne, AckLine
  <2> QED
    BY <2>1, <2>2 DEF Saved
<1>2. CASE Checkpoint
  BY <1>2 DEF Checkpoint, Save, Saved, mainVars
<1>3. CASE FlushCommits \/ CloseMonitor
  BY <1>3 DEF FlushCommits, CloseMonitor, Save, Saved
<1>4. CASE Exit \/ Crash
  BY <1>4 DEF Exit, Crash, ProcessGone, Saved
<1>5. CASE Write \/ Rename \/ Create \/ Reopen \/ Truncate
  BY <1>5 DEF Write, Rename, Create, Reopen, Truncate, agentVars, regVars, mainVars, Saved
<1>6. CASE PollBegin \/ PumpExit \/ ReadLine \/ BackfillNext \/ Stat \/ Open \/ RetiredNext
           \/ ActiveDone \/ PumpDies \/ EnqueueLine \/ Drain \/ Ingest \/ CommitDone
  BY <1>6 DEF PollBegin, PumpExit, ReadLine, BackfillNext, Stat, Open, RetiredNext, ActiveDone,
     PumpDies, EnqueueLine, Drain, Ingest, CommitDone, regVars, mainVars, Saved
<1>7. ASSUME NEW w \in Workers, Worker(w) PROVE Saved'
  BY <1>7 DEF Worker, GetLine, PutEvent, Quit, regVars, mainVars, Saved
<1>8. CASE RequestStop \/ PipelineDied \/ PumpJoined \/ WorkersJoined \/ Start
  BY <1>8 DEF RequestStop, PipelineDied, PumpJoined, WorkersJoined, Start, regVars, mainVars,
     Saved
<1>9. CASE UNCHANGED vars
  BY <1>9 DEF vars, regVars, mainVars, Saved
<1> QED
  BY <1>1, <1>2, <1>3, <1>4, <1>5, <1>6, <1>7, <1>8, <1>9 DEF Next, Pump, Main

LEMMA NothingLeftOver ==
  ASSUME TypeInv, OneGrowingFile, Covered, Saved
  PROVE  CleanExitCheckpointed
<1>1. Inode = {1}
  BY OneFile
<1> QED
  BY <1>1 DEF Covered, Saved, CleanExitCheckpointed

(* FR-PIP-006 and AgentRuntime's shutdown: after an orderly exit every line this process
   ingested lies below the durable offset, so the next process ingests none
   again - if the grace period suffices and the registry can be written. *)
THEOREM OrderlyExitCheckpoints ==
  ASSUME NEW w, Workers = {w}, MaxRotations = 0, MaxTruncations = 0,
         GraceExpires = FALSE, SaveMayFail = FALSE
  PROVE  Spec => []CleanExitCheckpointed
<1>1. OneGrowingFile
  BY DEF OneGrowingFile, TheWorker
<1>2. Spec => []DeliveryInv
  BY <1>1, DeliveryAlways
<1>3. Spec => []OrderlyInv
  BY <1>1, OrderlyAlways
<1>4. DeliveryInv => TypeInv /\ Awaited
  BY DEF DeliveryInv, OrderInv
<1>5. OrderlyInv => Covered
  BY DEF OrderlyInv
<1>6. Init => Saved
  BY DEF Init, Saved
<1>7. TypeInv /\ Awaited /\ Saved /\ [Next]_vars => Saved'
  BY SavedStep
<1>8. TypeInv /\ Covered /\ Saved => CleanExitCheckpointed
  BY <1>1, NothingLeftOver
<1> QED
  BY <1>2, <1>3, <1>4, <1>5, <1>6, <1>7, <1>8, PTL DEF Spec

-----------------------------------------------------------------------------
(* The refinement.  A line that is ingested, or a duplicate, is delivered; its
   acknowledgement counts from then on; a save persists, the end of a process is a
   restart, and nothing else is seen. *)

Delivered == {k \in 1 .. Len(file[1]) : Ingested(file[1][k])}

LEMMA StartsAsDelivery ==
  ASSUME Init, OneGrowingFile
  PROVE  Delivery!Init
<1>1. file[1] = <<>> /\ reg[1] = 0 /\ disk[1] = 0
  BY InitType, OneFile DEF Init
<1>2. Len(file[1]) = 0 /\ Delivered = {}
  BY <1>1 DEF Delivered
<1> QED
  BY <1>1, <1>2 DEF Init, Delivery!Init, Delivered, Committed

LEMMA WriteAppends ==
  ASSUME TypeInv, TypeInv', OneGrowingFile, Known, Write
  PROVE  Delivery!Append
<1>1. /\ Len(file'[1]) = Len(file[1]) + 1
      /\ file'[1][Len(file[1]) + 1] = written + 1
      /\ \A k \in 1 .. Len(file[1]) : file'[1][k] = file[1][k]
  BY FileGrows
<1>2. ~Ingested(written + 1) /\ Len(file[1]) \in Nat
  BY NewLine, OneFile
<1>3. UNCHANGED <<reg, disk, here, before, act, batch>>
  BY DEF Write, agentVars, regVars, histVars, monitorVars, queueVars
<1>4. Delivered' = Delivered
  <2>1. \A k \in 1 .. Len(file[1]) + 1 : k \in 1 .. Len(file[1]) \/ k = Len(file[1]) + 1
    BY <1>2
  <2>2. \A k \in 1 .. Len(file[1]) : k \in 1 .. Len(file[1]) + 1
    BY <1>2
  <2> QED
    BY <1>1, <1>2, <1>3, <2>1, <2>2 DEF Delivered, Ingested
<1> QED
  BY <1>1, <1>3, <1>4 DEF Delivery!Append, Delivered, Committed

(* The line in hand is not committed yet. *)
LEMMA CommittedIs ==
  ASSUME TypeInv, OneGrowingFile, FilterInv, Awaited, NEW d \in Nat, InOrder(d),
         CommitOne \/ Ingest
  PROVE  Committed = d
<1>1. batch[1].off = d /\ reg[1] = Acked(d)
  BY CommitIsNext, CommitWhileOpen DEF InOrder, Unbroken
<1> QED
  BY <1>1 DEF Committed, Acked, InHand

LEMMA MarkIsUnseen ==
  ASSUME TypeInv, OneGrowingFile, FilterInv, Awaited, NEW d \in Nat, InOrder(d), CommitOne,
         batch' = batch, act' = "ingest"
  PROVE  UNCHANGED Delivery!vars
<1>1. Committed = d
  BY CommittedIs
<1>2. reg'[1] = d + 1 /\ batch[1].off = d
  BY CommitWhileOpen, CommitAcks, CommitIsNext
<1>3. Committed' = d
  BY <1>2 DEF Committed
<1>4. UNCHANGED <<file, disk, here, before>>
  BY CommitOneIs DEF logVars
<1> QED
  BY <1>1, <1>3, <1>4 DEF Delivery!vars, Ingested

LEMMA CommitDelivers ==
  ASSUME TypeInv, OneGrowingFile, FilterInv, Distinct, Awaited,
         NEW d \in Nat, InOrder(d), CommitOne \/ Ingest, UNCHANGED <<file, disk>>,
         act' # "ingest", reg'[1] = d + 1,
         \A l \in Line : Ingested(l)' <=> Ingested(l) \/ l = batch[1].line
  PROVE  Delivery!Deliver
<1>1. /\ batch[1].line \in Line /\ d < Len(file[1]) /\ file[1][d + 1] = batch[1].line
  BY CommitIsNext
<1>2. Committed = d /\ Committed' = d + 1
  BY CommittedIs DEF Committed
<1>3. Inode = {1} /\ file[1] \in Seq(Line) /\ Len(file[1]) \in Nat
  BY OneFile
<1>4. d + 1 \in 1 .. Len(file[1]) /\ \A k \in 1 .. Len(file[1]) : file[1][k] \in Line
  BY <1>1, <1>3
<1>5. UNCHANGED <<file, disk>>
  OBVIOUS
<1>6. \A k \in 1 .. Len(file[1]) : file[1][k] = batch[1].line <=> k = d + 1
  BY <1>1, <1>3, <1>4 DEF Distinct
<1>7. Delivered' = Delivered \cup {d + 1}
  <2>1. \A k \in 1 .. Len(file[1]) :
          (Ingested(file[1][k]))' <=> Ingested(file[1][k]) \/ k = d + 1
    BY <1>4, <1>5, <1>6 DEF Ingested
  <2> QED
    BY <1>4, <1>5, <2>1 DEF Delivered
<1> QED
  BY <1>1, <1>2, <1>5, <1>7 DEF Delivery!Deliver, Delivered

LEMMA CommitIsStep ==
  ASSUME TypeInv, OneGrowingFile, FilterInv, FilterInv', Distinct, Awaited,
         NEW d \in Nat, InOrder(d), CommitOne \/ Ingest
  PROVE  Delivery!Deliver \/ UNCHANGED Delivery!vars
<1>1. CASE CommitOne /\ batch' = batch /\ act' = "ingest"
  BY <1>1, MarkIsUnseen
<1>2. CASE CommitOne /\ act' = "commit" /\ skipped' = skipped \cup {batch[1].line}
  <2>1. UNCHANGED <<file, disk, here, before>>
    BY <1>2, CommitOneIs DEF logVars
  <2>2. reg'[1] = d + 1
    BY <1>2, CommitWhileOpen, CommitAcks
  <2>3. \A l \in Line : Ingested(l)' <=> Ingested(l) \/ l = batch[1].line
    BY <1>2, <2>1 DEF FilterInv, SkippedWereIngested, Ingested
  <2> QED
    BY <1>2, <2>1, <2>2, <2>3, CommitDelivers
<1>3. CASE Ingest
  <2>1. UNCHANGED <<file, disk, reg>> /\ act' = "commit" /\ act = "ingest"
    BY <1>3, IngestIs DEF logVars, regVars
  <2>2. reg[1] = d + 1
    BY <1>3, <2>1, CommitWhileOpen DEF InOrder, Unbroken, Acked, InHand
  <2> QED
    BY <1>3, <2>1, <2>2, IngestsOne, CommitDelivers
<1> QED
  BY <1>1, <1>2, <1>3, CommitOneIs

LEMMA SavePersists ==
  ASSUME Save, UNCHANGED <<file, reg, here, before, act>>, act # "ingest"
  PROVE  [Delivery!Next]_(Delivery!vars)
<1>0. Committed = reg[1] /\ Committed' = reg[1]
  BY DEF Committed
<1>1. CASE disk' = reg
  BY <1>0, <1>1 DEF Delivery!Next, Delivery!Persist, Ingested
<1>2. CASE UNCHANGED disk
  BY <1>0, <1>2 DEF Delivery!vars, Ingested
<1> QED
  BY <1>1, <1>2 DEF Save

LEMMA GoneRestarts ==
  ASSUME TypeInv, OneGrowingFile, ProcessGone
  PROVE  Delivery!Restart
<1>1. UNCHANGED <<file, disk>> /\ reg' = disk /\ before' = IngestedSet
      /\ here' = [l \in Line |-> 0] /\ Committed' = disk[1]
  BY DEF ProcessGone, logVars, Committed
<1>2. \A k \in 1 .. Len(file[1]) : file[1][k] \in Line
  BY OneFile
<1>3. Delivered' = Delivered
  BY <1>1, <1>2 DEF Delivered, Ingested, IngestedSet
<1> QED
  BY <1>1, <1>3 DEF Delivery!Restart, Delivered

LEMMA DeliveryFrame ==
  ASSUME UNCHANGED <<file, disk, reg, here, before>>,
         IF act = "ingest" THEN UNCHANGED <<act, batch>> ELSE act' # "ingest"
  PROVE  UNCHANGED Delivery!vars
  BY DEF Delivery!vars, Ingested, Committed

LEMMA DeliveryStep ==
  ASSUME OneGrowingFile, DeliveryInv, DeliveryInv', OrderlyInv, [Next]_vars
  PROVE  [Delivery!Next]_(Delivery!vars)
<1>0. TypeInv /\ TypeInv' /\ FilterInv /\ FilterInv' /\ Distinct /\ Awaited /\ Known
  BY DEF DeliveryInv, OnceInv, OrderInv, OrderlyInv
<1>1. CASE Write
  BY <1>0, <1>1, WriteAppends DEF Delivery!Next
<1>2. CASE CommitOne \/ Ingest
  <2>1. PICK d \in Nat : InOrder(d)
    BY DEF DeliveryInv, OrderInv
  <2> QED
    BY <1>0, <1>2, <2>1, CommitIsStep DEF Delivery!Next
<1>3. CASE Exit \/ Crash
  BY <1>0, <1>3, GoneRestarts DEF Exit, Crash, Delivery!Next
<1>4. CASE Truncate
  BY <1>0, <1>4 DEF Truncate, OneGrowingFile, TypeInv, TypeOK, LogType
<1>5. CASE Checkpoint \/ FlushCommits \/ CloseMonitor
  <2>1. act = "read"
    BY <1>0, <1>5 DEF Awaited, Checkpoint, FlushCommits, CloseMonitor
  <2> QED
    BY <1>5, <2>1, SavePersists, DeliveryFrame DEF Checkpoint, FlushCommits, CloseMonitor,
       logVars, histVars, monitorVars
<1>6. CASE Rename \/ Create \/ Reopen
  BY <1>6, DeliveryFrame DEF Rename, Create, Reopen, agentVars, regVars, histVars, monitorVars, queueVars
<1>7. CASE PollBegin \/ PumpExit \/ ReadLine \/ BackfillNext \/ Stat \/ Open \/ RetiredNext
           \/ ActiveDone \/ PumpDies \/ EnqueueLine \/ Drain \/ CommitDone
  BY <1>7, DeliveryFrame DEF PollBegin, PumpExit, ReadLine, BackfillNext, Stat, Open,
     RetiredNext, ActiveDone, PumpDies, EnqueueLine, Drain, CommitsDue, CommitDone, logVars,
     regVars, histVars, queueVars
<1>8. ASSUME NEW w \in Workers, Worker(w) PROVE UNCHANGED Delivery!vars
  BY <1>8, DeliveryFrame DEF Worker, GetLine, PutEvent, Quit, logVars, regVars, histVars,
     monitorVars
<1>9. CASE RequestStop \/ PipelineDied \/ PumpJoined \/ WorkersJoined \/ Start
  BY <1>9, DeliveryFrame DEF RequestStop, PipelineDied, PumpJoined, WorkersJoined, Start,
     logVars, regVars, histVars, monitorVars, queueVars
<1>10. CASE UNCHANGED vars
  BY <1>10, DeliveryFrame DEF vars, logVars, regVars, histVars, monitorVars, queueVars
<1> QED
  BY <1>1, <1>2, <1>3, <1>4, <1>5, <1>6, <1>7, <1>8, <1>9, <1>10 DEF Next, Pump, Main

(* One growing file, one worker and a grace period that suffices: LogMonitor, the
   workers, the committer and the registry deliver in order and at least once,
   and what survives the process never runs ahead of what was delivered. *)
THEOREM PipelineDelivers ==
  ASSUME NEW w, Workers = {w}, MaxRotations = 0, MaxTruncations = 0, GraceExpires = FALSE
  PROVE  Spec => ImplementsDelivery
<1>1. OneGrowingFile
  BY DEF OneGrowingFile, TheWorker
<1>2. Spec => []DeliveryInv
  BY <1>1, DeliveryAlways
<1>3. Spec => []OrderlyInv
  BY <1>1, OrderlyAlways
<1>4. Init => Delivery!Init
  BY <1>1, StartsAsDelivery
<1>5. DeliveryInv /\ DeliveryInv' /\ OrderlyInv /\ [Next]_vars
        => [Delivery!Next]_(Delivery!vars)
  BY <1>1, DeliveryStep
<1> QED
  BY <1>2, <1>3, <1>4, <1>5, PTL DEF Spec, ImplementsDelivery, Delivery!Spec
=============================================================================
