---------------------------- MODULE CDCPipeline ----------------------------
(***************************************************************************)
(* CDCPipeline, cdc_pipeline/pipeline.py: a process that reads a binlog    *)
(* through a LogParser, takes an initial snapshot if it has no offset, and *)
(* pushes both through the DeliveryManager to a consumer, whose            *)
(* acknowledgements move the offset a later process resumes from.          *)
(*                                                                         *)
(* Three threads: "main" runs start() and stop(), "parser" runs the        *)
(* parser's loop and the callbacks _on_raw_row, _on_raw_ddl, _on_tx_begin  *)
(* and _on_tx_commit, "loop" is the delivery loop.  DeliveryManager and    *)
(* OffsetManager are instances of their own modules; an acknowledgement is *)
(* one step of both.                                                       *)
(*                                                                         *)
(* Log is everything the source database ever writes.  The rows of one     *)
(* rows event share its position.  The process may die at any step; a new  *)
(* one starts from the offset file, and the consumer keeps what it has.    *)
(***************************************************************************)
EXTENDS Integers, Sequences, FiniteSets

CONSTANTS
    Log,             \* sequence of [type, tx, pos, pk, included]: the binlog
    NoTx,            \* no enclosing transaction
    SnapshotEnabled, \* a provider is attached and snapshot_enabled is set
    SnapshotRows,    \* how many rows a snapshot has
    SnapshotAtomic,  \* the position of a snapshot is that of its read view
    ResumeInclusive, \* whether streaming from a position replays its event
    FreshTxIds,      \* the parser makes up transaction ids as it reads
    BatchSize, TxCap, BoundaryEnabled, MaxRetries, NoThread,
    NoOffset, Absent, Garbled, StoreMayFail,
    MaxCrashes       \* bound: how often the process dies

(* pos is the position an event ends at, pk the primary key of a row. *)
ASSUME LogAssumption ==
    /\ Log \in Seq({Log[i] : i \in DOMAIN Log})
    /\ \A i, j \in DOMAIN Log :
          /\ Log[i].type \in {"row", "schema", "tx_begin", "tx_commit"}
          /\ Log[i].type \in {"tx_begin", "tx_commit"} => Log[i].tx # NoTx
          /\ Log[i].pos \in Nat \ {0}
          /\ i < j => Log[i].pos <= Log[j].pos
ASSUME ParametersAssumption ==
    /\ SnapshotRows \in Nat
    /\ SnapshotEnabled => SnapshotRows > 0
    /\ BatchSize \in Nat \ {0} /\ TxCap \in Nat \ {0}
    /\ MaxRetries \in Nat /\ MaxCrashes \in Nat
    /\ NoThread \notin {"main", "parser", "loop"}
    /\ NoOffset \notin Nat /\ Absent \notin Nat /\ Garbled \notin Nat

Positions == {0} \cup {Log[i].pos : i \in DOMAIN Log}
TxIds == {Log[i].tx : i \in DOMAIN Log} \ {NoTx}
Callers == {"main", "parser"}
LoopThreads == {"loop"}

(* An envelope of the pipeline.  A commit carries the number of rows that  *)
(* were counted since its BEGIN, a snapshot row the position up to which   *)
(* the read view it comes from has seen the log.                           *)
(*                                                                         *)
(* The transaction id of MySQL's parser has in it the time at which the    *)
(* BEGIN was read: tx and the process p that read it stand for the id, by  *)
(* which a transaction that is read again differs.  (Within a process tx   *)
(* is enough.)  The simulator's ids are in the payloads it queues.         *)
IdMadeBy(i, p) == IF FreshTxIds /\ Log[i].tx # NoTx THEN p ELSE 0
EnvelopeOf(i, n, p) ==
    [type |-> Log[i].type, tx |-> Log[i].tx, madeBy |-> IdMadeBy(i, p),
     pos |-> Log[i].pos, pk |-> Log[i].pk, count |-> n]
SnapshotEnvelope(k, v, r) ==
    [type |-> "snapshot", tx |-> NoTx, madeBy |-> 0, pos |-> k, pk |-> r, view |-> v]

Envelopes ==
    {EnvelopeOf(i, n, p) : i \in DOMAIN Log, n \in 0..Len(Log), p \in 0..MaxCrashes}
    \cup {SnapshotEnvelope(k, v, r) :
             k \in Positions, v \in Positions, r \in 1..SnapshotRows}

VARIABLES
    main,          \* where start() or stop() is
    parser,        \* where the parser thread is
    parserRunning, \* the parser's _running
    idx,           \* the next event the parser reads
    txRowCounts,   \* _tx_row_counts; 0 for an absent key
    snapPos,       \* the position the snapshot claims
    snapView,      \* the position its read view was taken at
    snapSent,      \* how many of its rows were submitted
    crashes        \* how often the process has died

(* DeliveryManager *)
VARIABLES pendingTransactions, nonTxBuffer, bufferMarked, running, loop, owner,
          batch, stage, stats, submitted, received, lost

(* OffsetManager *)
VARIABLES committed, lastFlushed, dirty, snapshotModeActive, writer, offsetFile,
          tmpFile, confirmed

D  == INSTANCE Delivery
OM == INSTANCE OffsetManager

snapshotVars == <<snapPos, snapView, snapSent>>
parserVars   == <<parser, parserRunning, idx, txRowCounts>>
pipelineVars == <<main, parserVars, snapshotVars, crashes>>
deliveryVars == <<pendingTransactions, nonTxBuffer, bufferMarked, running, loop,
                  owner, batch, stage, stats, submitted, received, lost>>
offsetVars   == <<committed, lastFlushed, dirty, snapshotModeActive, writer,
                  offsetFile, tmpFile, confirmed>>
vars == <<pipelineVars, deliveryVars, offsetVars>>

Init ==
    /\ main = "new"
    /\ parser = "off"
    /\ parserRunning = FALSE
    /\ idx = 1
    /\ txRowCounts = [tx \in TxIds |-> 0]
    /\ snapPos = 0
    /\ snapView = 0
    /\ snapSent = 0
    /\ crashes = 0
    /\ D!Init
    /\ OM!Init

-----------------------------------------------------------------------------
(* start().  Snapshots and positions fall between transactions.  MySQL     *)
(* opens the read view first and reports its binlog position afterwards.   *)
Boundary(k) ==
    \A tx \in TxIds, i, j \in DOMAIN Log :
        Log[i].tx = tx /\ Log[j].tx = tx /\ Log[i].pos <= k => Log[j].pos <= k

StartWithSnapshot ==
    /\ main = "new"
    /\ committed = NoOffset
    /\ SnapshotEnabled
    /\ D!Start
    /\ OM!MarkSnapshotInProgress
    /\ \E k \in Positions, v \in Positions :
          /\ v <= k /\ Boundary(v) /\ Boundary(k)
          /\ SnapshotAtomic => v = k
          /\ snapPos' = k
          /\ snapView' = v
    /\ main' = "snapshot"
    /\ UNCHANGED <<parserVars, snapSent, crashes>>

StartFromOffset ==
    /\ main = "new"
    /\ committed # NoOffset \/ ~SnapshotEnabled
    /\ D!Start
    /\ main' = "launch"
    /\ UNCHANGED <<parserVars, snapshotVars, crashes, offsetVars>>

(* Snapshotter.run: on_row is DeliveryManager.submit. *)
SnapshotRow ==
    /\ main = "snapshot"
    /\ snapSent < SnapshotRows
    /\ D!Submit("main", SnapshotEnvelope(snapPos, snapView, snapSent + 1))
    /\ snapSent' = snapSent + 1
    /\ UNCHANGED <<main, parserVars, snapPos, snapView, crashes, offsetVars>>

SnapshotTaken ==
    /\ main = "snapshot"
    /\ snapSent = SnapshotRows
    /\ main' = "flushSnapshot"
    /\ UNCHANGED <<parserVars, snapshotVars, crashes, deliveryVars, offsetVars>>

(* DeliveryManager.flush(), from start() or stop(): waits for the lock, and *)
(* delivers what is buffered by then.                                      *)
AfterFlush(pc) == IF pc = "flushSnapshot" THEN "complete" ELSE "stopDelivery"

FlushDelivers ==
    /\ main \in {"flushSnapshot", "flushStop"}
    /\ D!Flush("main")
    /\ UNCHANGED <<pipelineVars, offsetVars>>

(* Mutant: flush() looks at the buffer without waiting for the lock. *)
FlushWithoutLock ==
    /\ main \in {"flushSnapshot", "flushStop"}
    /\ nonTxBuffer = <<>>
    /\ main' = AfterFlush(main)
    /\ UNCHANGED <<parserVars, snapshotVars, crashes, deliveryVars, offsetVars>>

FlushNothing ==
    /\ main \in {"flushSnapshot", "flushStop"}
    /\ owner = NoThread
    /\ nonTxBuffer = <<>>
    /\ main' = AfterFlush(main)
    /\ UNCHANGED <<parserVars, snapshotVars, crashes, deliveryVars, offsetVars>>

CompleteSnapshot ==
    /\ main = "complete"
    /\ OM!MarkSnapshotComplete(snapPos)
    /\ main' = "completing"
    /\ UNCHANGED <<parserVars, snapshotVars, crashes, deliveryVars>>

SnapshotRecorded ==
    /\ main = "completing"
    /\ writer = "idle"
    /\ main' = "launch"
    /\ UNCHANGED <<parserVars, snapshotVars, crashes, deliveryVars, offsetVars>>

(* The store raised: start() raises, nothing is streamed. *)
SnapshotNotRecorded ==
    /\ main = "completing"
    /\ OM!ErrorPropagates
    /\ main' = "failed"
    /\ UNCHANGED <<parserVars, snapshotVars, crashes, deliveryVars>>

(* Mutants: the event behind the resume position is skipped; the event at  *)
(* the resume position is always replayed.                                 *)
EventsBefore(p) == Cardinality({i \in DOMAIN Log : Log[i].pos < p})
EventsUpTo(p) == Cardinality({i \in DOMAIN Log : Log[i].pos <= p})

IndexTooFar == IF committed = NoOffset THEN 1 ELSE EventsUpTo(committed) + 2
IndexAtOffset == IF committed = NoOffset THEN 1 ELSE EventsBefore(committed) + 1

(* LogParser.start: with no position the log is read from its beginning,   *)
(* otherwise from the first event at (simulator) or behind (MySQL) it.     *)
FirstIndex == IF committed = NoOffset THEN 1
              ELSE IF ResumeInclusive THEN EventsBefore(committed) + 1
              ELSE EventsUpTo(committed) + 1

Launch ==
    /\ main = "launch"
    /\ main' = "running"
    /\ parserRunning' = TRUE
    /\ parser' = "poll"
    /\ idx' = FirstIndex
    /\ UNCHANGED <<txRowCounts, snapshotVars, crashes, deliveryVars, offsetVars>>

-----------------------------------------------------------------------------
(* stop(): LogParser.stop joins its thread for at most five seconds.       *)
StopParser ==
    /\ main = "running"
    /\ parserRunning' = FALSE
    /\ main' = "join"
    /\ UNCHANGED <<parser, idx, txRowCounts, snapshotVars, crashes,
                   deliveryVars, offsetVars>>

(* Mutant: stop() waits for the parser to say that it is done. *)
JoinedWhenDone ==
    /\ main = "join"
    /\ parser = "done"
    /\ main' = "flushStop"
    /\ UNCHANGED <<parserVars, snapshotVars, crashes, deliveryVars, offsetVars>>

Joined ==
    /\ main = "join"
    /\ main' = "flushStop"
    /\ UNCHANGED <<parserVars, snapshotVars, crashes, deliveryVars, offsetVars>>

StopDelivery ==
    /\ main = "stopDelivery"
    /\ D!Stop
    /\ main' = "stopped"
    /\ UNCHANGED <<parserVars, snapshotVars, crashes, offsetVars>>

-----------------------------------------------------------------------------
(* Mutant: the end of the queue is tested with an off-by-one. *)
FetchTooFar ==
    /\ parser = "poll"
    /\ parserRunning
    /\ idx <= Len(Log) + 1
    /\ idx' = idx + 1
    /\ parser' = "dispatch"
    /\ UNCHANGED <<main, parserRunning, txRowCounts, snapshotVars, crashes,
                   deliveryVars, offsetVars>>

(* The parser thread.  An event that was fetched is dispatched even if the *)
(* parser is stopped in between.                                           *)
Fetch ==
    /\ parser = "poll"
    /\ parserRunning
    /\ idx <= Len(Log)
    /\ idx' = idx + 1
    /\ parser' = "dispatch"
    /\ UNCHANGED <<main, parserRunning, txRowCounts, snapshotVars, crashes,
                   deliveryVars, offsetVars>>

ParserExits ==
    /\ parser = "poll"
    /\ ~parserRunning
    /\ parser' = "done"
    /\ UNCHANGED <<main, parserRunning, idx, txRowCounts, snapshotVars, crashes,
                   deliveryVars, offsetVars>>

current == idx - 1

(* Excluded tables produce nothing, and neither do BEGIN and COMMIT when   *)
(* transaction boundaries are not wanted.                                  *)
Deliverable(i) ==
    /\ Log[i].included
    /\ Log[i].type \in {"tx_begin", "tx_commit"} => BoundaryEnabled

(* _tx_row_counts: counted per row, forgotten at the commit.  BEGIN resets *)
(* a count that a fresh transaction id does not have.                      *)
CountRow(i) ==
    LET tx == Log[i].tx IN
    txRowCounts' =
        IF tx \in TxIds /\ Log[i].included
        THEN [txRowCounts EXCEPT ![tx] =
                 CASE Log[i].type = "row"       -> @ + 1
                   [] Log[i].type = "tx_commit" -> 0
                   [] OTHER                     -> @]
        ELSE txRowCounts

RowCount(i) == IF Log[i].type = "tx_commit" /\ Log[i].tx \in TxIds
               THEN txRowCounts[Log[i].tx] ELSE 0

SkipEvent ==
    /\ parser = "dispatch"
    /\ ~Deliverable(current)
    /\ CountRow(current)
    /\ parser' = "poll"
    /\ UNCHANGED <<main, parserRunning, idx, snapshotVars, crashes,
                   deliveryVars, offsetVars>>

Dispatch ==
    /\ parser = "dispatch"
    /\ Deliverable(current)
    /\ D!Submit("parser", EnvelopeOf(current, RowCount(current), crashes))
    /\ CountRow(current)
    /\ parser' = IF owner' = "parser" THEN "delivering" ELSE "poll"
    /\ UNCHANGED <<main, parserRunning, idx, snapshotVars, crashes, offsetVars>>

-----------------------------------------------------------------------------
(* DeliveryManager, with on_ack bound to OffsetManager.ack. *)
ConsumerTakes ==
    /\ D!DeliverOk
    /\ UNCHANGED <<pipelineVars, offsetVars>>

LoopFlushes ==
    /\ D!LoopFlush("loop")
    /\ UNCHANGED <<pipelineVars, offsetVars>>

DeliveryStep ==
    \/ ConsumerTakes
    \/ LoopFlushes
    \/ /\ \/ D!DeliverRaises
          \/ D!Retry
          \/ D!LoopTop("loop")
          \/ D!LoopSkip("loop")
       /\ UNCHANGED <<pipelineVars, offsetVars>>

Acknowledge ==
    /\ \E p \in Positions : D!Confirm(p) /\ OM!Ack(p)
    /\ UNCHANGED pipelineVars

OffsetStep ==
    /\ OM!DumpTmp \/ OM!Replace \/ OM!StoreFails
    /\ UNCHANGED <<pipelineVars, deliveryVars>>

(* The thread that was delivering continues, or gets the exception: the    *)
(* parser's thread dies of it, start() and stop() raise it, and the        *)
(* delivery loop logs it and goes on.                                      *)
Continue(t) ==
    /\ main' = IF t = "main" THEN AfterFlush(main) ELSE main
    /\ parser' = IF t = "parser" THEN "poll" ELSE parser

Raise(t) ==
    /\ main' = IF t = "main" THEN "failed" ELSE main
    /\ parser' = IF t = "parser" THEN "dead" ELSE parser

DeliveryReturns ==
    /\ writer = "idle"
    /\ D!Return
    /\ Continue(owner)
    /\ UNCHANGED <<parserRunning, idx, txRowCounts, snapshotVars, crashes, offsetVars>>

AcknowledgeRaises ==
    /\ D!Return
    /\ OM!ErrorPropagates
    /\ Raise(owner)
    /\ UNCHANGED <<parserRunning, idx, txRowCounts, snapshotVars, crashes>>

DeliveryGivesUp ==
    /\ D!GiveUp
    /\ Raise(owner)
    /\ UNCHANGED <<parserRunning, idx, txRowCounts, snapshotVars, crashes, offsetVars>>

-----------------------------------------------------------------------------
(* The process ends, wherever its threads are, and is started again.       *)
Restart ==
    /\ crashes < MaxCrashes
    /\ crashes' = crashes + 1
    /\ main' = "new"
    /\ parser' = "off"
    /\ parserRunning' = FALSE
    /\ idx' = 1
    /\ txRowCounts' = [tx \in TxIds |-> 0]
    /\ snapPos' = 0
    /\ snapView' = 0
    /\ snapSent' = 0
    /\ D!Restart
    /\ OM!Restart

StartStep ==
    \/ StartWithSnapshot
    \/ StartFromOffset
    \/ SnapshotRow
    \/ SnapshotTaken
    \/ FlushDelivers
    \/ FlushNothing
    \/ CompleteSnapshot
    \/ SnapshotRecorded
    \/ SnapshotNotRecorded
    \/ Launch

StopStep == Joined \/ StopDelivery

ParserStep == Fetch \/ ParserExits \/ SkipEvent \/ Dispatch

Next ==
    \/ StartStep
    \/ StopParser
    \/ StopStep
    \/ ParserStep
    \/ DeliveryStep
    \/ Acknowledge
    \/ OffsetStep
    \/ DeliveryReturns
    \/ AcknowledgeRaises
    \/ DeliveryGivesUp
    \/ Restart

Spec == Init /\ [][Next]_vars

(* The scheduler runs every thread that can run, a lock that keeps being   *)
(* released is obtained, the flush interval elapses, and a call of the     *)
(* consumer returns or raises.  Nobody has to call stop() or to crash.     *)
ThreadFairness ==
    /\ SF_vars(StartStep)
    /\ SF_vars(StopStep)
    /\ SF_vars(ParserStep)
    /\ WF_vars(DeliveryStep)
    /\ SF_vars(LoopFlushes)
    /\ WF_vars(Acknowledge)
    /\ WF_vars(OffsetStep)
    /\ WF_vars(DeliveryReturns)
    /\ WF_vars(AcknowledgeRaises)
    /\ WF_vars(DeliveryGivesUp)

(* An outage of the consumer does not last forever. *)
ConsumerRecovers == SF_vars(ConsumerTakes)

ThreadSpec == Spec /\ ThreadFairness
FairSpec   == ThreadSpec /\ ConsumerRecovers

-----------------------------------------------------------------------------
(* The variables have their types.                                         *)
TypeOK ==
    /\ main \in {"new", "snapshot", "flushSnapshot", "complete", "completing",
                 "launch", "running", "join", "flushStop", "stopDelivery",
                 "stopped", "failed"}
    /\ parser \in {"off", "poll", "dispatch", "delivering", "done", "dead"}
    /\ parserRunning \in BOOLEAN
    /\ idx \in 1..Len(Log) + 1
    /\ txRowCounts \in [TxIds -> 0..Len(Log)]
    /\ snapPos \in Positions
    /\ snapView \in Positions
    /\ snapSent \in 0..SnapshotRows
    /\ crashes \in 0..MaxCrashes
    /\ D!TypeOK
    /\ OM!TypeOK

(* What the consumer has: an event itself, or all rows of a snapshot that  *)
(* has seen it.                                                            *)
CompleteSnapshots ==
    {s \in received :
        /\ s.type = "snapshot"
        /\ \A r \in 1..SnapshotRows : SnapshotEnvelope(s.pos, s.view, r) \in received}
HasEvent(i) ==
    \E e \in received :
        e.pos = Log[i].pos /\ e.type = Log[i].type /\ e.pk = Log[i].pk
Covered ==
    LET views == {s.view : s \in CompleteSnapshots}
    IN  {i \in DOMAIN Log : HasEvent(i) \/ \E v \in views : Log[i].pos <= v}
Missing == LET covered == Covered
           IN  {i \in DOMAIN Log : Deliverable(i) /\ i \notin covered}

(* At-least-once delivery (downstream/__init__.py): the offset a restart   *)
(* would resume from covers only what the consumer has.  Otherwise a crash *)
(* now loses an event for good.                                            *)
AtLeastOnce ==
    OM!Stored # NoOffset =>
        /\ OM!Stored \in Positions
        /\ \A i \in Missing : Log[i].pos > OM!Stored

(* The consumer's view is a prefix of the log: it has no event without all *)
(* earlier ones, across buffers, threads, retries, snapshots and crashes.  *)
NothingOvertakes ==
    \A i \in Missing : \A j \in DOMAIN Log : j > i => ~HasEvent(j)

(* An offset recorded without its event is the position of a snapshot all  *)
(* of whose rows the consumer has: "the snapshot is done" is never         *)
(* persisted ahead of the rows, by which the next run skips the snapshot.  *)
SnapshotBeforeOffset ==
    SnapshotEnabled /\ OM!Stored # NoOffset =>
        \E s \in CompleteSnapshots : s.pos <= OM!Stored

(* Replaying an event produces the event again (event.py, "observe the     *)
(* same outcome"): what has the same idempotency key has the same content, *)
(* a COMMIT the same number of rows although it is counted anew.  But for  *)
(* the transaction id: that of MySQL's parser is a new one.                *)
IdempotencyKey(e) == <<e.type, e.pos, e.pk>>
Content(e) == [e EXCEPT !.madeBy = 0]
ReplaySameOutcome ==
    \A e, f \in received : IdempotencyKey(e) = IdempotencyKey(f) => Content(e) = Content(f)

(* A pipeline that keeps running delivers the whole log, whatever was      *)
(* buffered, retried or interrupted by crashes before, unless a store      *)
(* error has killed its parser thread for good.                            *)
EverythingDelivered ==
    \/ []<>(main # "running")
    \/ <>[](parser = "dead")
    \/ <>(Missing = {})

(* stop() returns ("Gracefully shut down the pipeline", timeout = 5.0).    *)
StopCompletes ==
    main \in {"join", "flushStop", "stopDelivery"}
        ~> main \notin {"join", "flushStop", "stopDelivery"}
=============================================================================
