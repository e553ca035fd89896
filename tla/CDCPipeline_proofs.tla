-------------------------- MODULE CDCPipeline_proofs --------------------------
(***************************************************************************)
(* Proofs about the whole pipeline, for any log, with any number of        *)
(* crashes.                                                                *)
(*                                                                         *)
(* A step of the pipeline is a step of the delivery manager or leaves it   *)
(* alone, and likewise of the offset manager (DeliveryStepOf and           *)
(* OffsetStepOf), so what concerns one of them alone is proved of its      *)
(* steps; what relates them follows the threads of the pipeline.           *)
(***************************************************************************)
EXTENDS CDCPipeline, TLAPS, FiniteSetTheorems

(* The lock is held exactly while a batch is delivered. *)
LockInv ==
    /\ owner = NoThread <=> stage = "idle"
    /\ stage = "idle" => batch = <<>>
    /\ stage \in {"delivered", "acking"} => D!Range(batch) \subseteq received

(* Only a committed position is written. *)
WriterInv == writer \in {"opened", "dumped"} => committed \in Positions

(* Rows are counted once each. *)
CountInv ==
    /\ parser = "off" => \A tx \in TxIds : txRowCounts[tx] = 0
    /\ parser = "dispatch" => idx >= 2
    /\ \A tx \in TxIds :
          txRowCounts[tx] <= (IF parser = "dispatch" THEN idx - 2 ELSE idx - 1)

(* Where a thread is that delivers; the parser's is started by start(). *)
Starting == {"new", "snapshot", "flushSnapshot", "complete", "completing", "launch"}
OwnerInv ==
    /\ owner = "main" => main \in {"flushSnapshot", "flushStop"}
    /\ owner = "parser" => parser = "delivering"
    /\ main \in Starting => parser = "off"

TypesInv == TypeOK /\ LockInv /\ WriterInv /\ CountInv /\ OwnerInv

Submission == \E t \in Callers, e \in Envelopes : D!Submit(t, e)
DeliveryKeeps ==
    \/ D!Flush("main") \/ D!LoopFlush("loop")
    \/ D!Start \/ D!Stop \/ D!LoopTop("loop") \/ D!LoopSkip("loop")
    \/ D!DeliverOk \/ D!DeliverRaises \/ D!Retry \/ D!Return
    \/ \E p \in Positions : D!Confirm(p)
    \/ UNCHANGED deliveryVars
DeliveryAdvance == DeliveryKeeps \/ D!GiveUp \/ D!Restart
DeliveryStepOf == Submission \/ DeliveryAdvance

OffsetStepOf ==
    \/ \E p \in Positions : OM!Ack(p) \/ OM!MarkSnapshotComplete(p)
    \/ OM!MarkSnapshotInProgress
    \/ OM!DumpTmp \/ OM!Replace \/ OM!StoreFails \/ OM!ErrorPropagates
    \/ OM!Restart
    \/ UNCHANGED offsetVars

-----------------------------------------------------------------------------
(* The constants.                                                          *)
LEMMA LogType ==
    /\ Len(Log) \in Nat /\ DOMAIN Log = 1..Len(Log)
    /\ Positions \subseteq Nat /\ 0 \in Positions
    /\ \A i \in 1..Len(Log) : Log[i].pos \in Positions
<1>1. Len(Log) \in Nat /\ DOMAIN Log = 1..Len(Log)
  BY LogAssumption
<1>2. \A i \in DOMAIN Log : Log[i].pos \in Nat
  BY LogAssumption
<1>. QED BY <1>1, <1>2 DEF Positions

LEMMA LogIsFinite == IsFiniteSet(1..Len(Log)) /\ Cardinality(1..Len(Log)) = Len(Log)
<1>1. Len(Log) \in Nat
  BY LogType
<1>2. Len(Log) - 1 + 1 = Len(Log) /\ (1 > Len(Log) => Len(Log) = 0)
  BY <1>1
<1>. QED BY <1>1, <1>2, FS_Interval

LEMMA LogEvents ==
    \A i \in 1..Len(Log) :
        /\ Log[i].type \in {"row", "schema", "tx_begin", "tx_commit"}
        /\ Log[i].tx \in TxIds \cup {NoTx}
        /\ Log[i].type \in {"tx_begin", "tx_commit"} => Log[i].tx \in TxIds
<1>1. DOMAIN Log = 1..Len(Log)
  BY LogType
<1>2. \A i \in DOMAIN Log :
          /\ Log[i].type \in {"row", "schema", "tx_begin", "tx_commit"}
          /\ Log[i].type \in {"tx_begin", "tx_commit"} => Log[i].tx # NoTx
  BY LogAssumption
<1>. QED BY <1>1, <1>2 DEF TxIds

LEMMA NoTxIsNone == NoTx \notin TxIds
BY DEF TxIds

LEMMA EnvelopeTypes ==
    /\ \A i \in 1..Len(Log), n \in 0..Len(Log), p \in 0..MaxCrashes :
          EnvelopeOf(i, n, p) \in Envelopes
    /\ \A k, v \in Positions, r \in 1..SnapshotRows : SnapshotEnvelope(k, v, r) \in Envelopes
    /\ \A e \in Envelopes : e.pos \in Positions /\ e.tx \in TxIds \cup {NoTx}
<1>1. \A e \in Envelopes : e.pos \in Positions /\ e.tx \in TxIds \cup {NoTx}
  <2>. SUFFICES ASSUME NEW e \in Envelopes
                PROVE  e.pos \in Positions /\ e.tx \in TxIds \cup {NoTx}
    OBVIOUS
  <2>1. CASE \E i \in DOMAIN Log, n \in 0..Len(Log), p \in 0..MaxCrashes : e = EnvelopeOf(i, n, p)
    BY <2>1, LogType, LogEvents DEF EnvelopeOf
  <2>2. CASE \E k, v \in Positions, r \in 1..SnapshotRows : e = SnapshotEnvelope(k, v, r)
    BY <2>2 DEF SnapshotEnvelope
  <2>. QED BY <2>1, <2>2 DEF Envelopes
<1>. QED BY <1>1, LogType DEF Envelopes

-----------------------------------------------------------------------------
(* Sequences of envelopes.                                                 *)
LEMMA RangeSubset ==
    ASSUME NEW S, NEW s \in Seq(S)
    PROVE  D!Range(s) \subseteq S
<1>. SUFFICES ASSUME NEW x \in D!Range(s) PROVE x \in S
  OBVIOUS
<1>1. PICK i \in DOMAIN s : x = s[i]
  BY DEF D!Range
<1>. QED BY <1>1

LEMMA RangeOfEmpty == D!Range(<<>>) = {}
BY DEF D!Range

LEMMA RangeAppend ==
    ASSUME NEW S, NEW s \in Seq(S), NEW e \in S
    PROVE  Append(s, e) \in Seq(S) /\ D!Range(Append(s, e)) = D!Range(s) \cup {e}
<1>1. DOMAIN Append(s, e) = 1..Len(s) + 1 /\ DOMAIN s = 1..Len(s) /\ Len(s) \in Nat
  OBVIOUS
<1>2. \A i \in 1..Len(s) + 1 : Append(s, e)[i] = IF i = Len(s) + 1 THEN e ELSE s[i]
  OBVIOUS
<1>. QED BY <1>1, <1>2 DEF D!Range

LEMMA RangeOfPrefix ==
    ASSUME NEW S, NEW s \in Seq(S), NEW n \in 0..Len(s)
    PROVE  D!Range(SubSeq(s, 1, n)) \subseteq D!Range(s)
<1>. SUFFICES ASSUME NEW x \in D!Range(SubSeq(s, 1, n)) PROVE x \in D!Range(s)
  OBVIOUS
<1>1. DOMAIN SubSeq(s, 1, n) = 1..n /\ DOMAIN s = 1..Len(s) /\ Len(s) \in Nat
  OBVIOUS
<1>2. PICK i \in 1..n : x = SubSeq(s, 1, n)[i]
  BY <1>1 DEF D!Range
<1>3. x = s[i]
  BY <1>1, <1>2
<1>. QED BY <1>1, <1>2, <1>3 DEF D!Range

-----------------------------------------------------------------------------
(* Steps of the two managers.                                              *)
LEMMA DeliverySteps ==
    TypeOK /\ CountInv /\ [Next]_vars =>
        /\ DeliveryStepOf
        /\ SnapshotRow \/ Dispatch \/ DeliveryAdvance
        /\ Submission \/ DeliveryKeeps \/ DeliveryGivesUp \/ Restart
        /\ SnapshotRow \/ Dispatch \/ DeliveryKeeps \/ DeliveryGivesUp \/ Restart
<1>. SUFFICES ASSUME TypeOK, CountInv, [Next]_vars
              PROVE  /\ DeliveryStepOf
                     /\ SnapshotRow \/ Dispatch \/ DeliveryAdvance
                     /\ Submission \/ DeliveryKeeps \/ DeliveryGivesUp \/ Restart
                     /\ SnapshotRow \/ Dispatch \/ DeliveryKeeps \/ DeliveryGivesUp \/ Restart
  OBVIOUS
<1>1. ASSUME SnapshotRow PROVE Submission
  <2>1. snapSent + 1 \in 1..SnapshotRows
    BY <1>1, ParametersAssumption DEF SnapshotRow, TypeOK
  <2>2. SnapshotEnvelope(snapPos, snapView, snapSent + 1) \in Envelopes
    BY <2>1, EnvelopeTypes DEF TypeOK
  <2>. QED BY <1>1, <2>2 DEF SnapshotRow, Submission, Callers
<1>2. ASSUME Dispatch PROVE Submission
  <2>1. current \in 1..Len(Log)
    BY <1>2, LogType DEF Dispatch, CountInv, TypeOK, current
  <2>2. RowCount(current) \in 0..Len(Log)
    BY LogType DEF RowCount, TypeOK
  <2>3. EnvelopeOf(current, RowCount(current), crashes) \in Envelopes
    BY <2>1, <2>2, EnvelopeTypes DEF TypeOK
  <2>. QED BY <1>2, <2>3 DEF Dispatch, Submission, Callers
<1>3. CASE StartStep /\ ~SnapshotRow
  BY <1>3 DEF StartStep, StartWithSnapshot, StartFromOffset, SnapshotTaken, FlushDelivers,
         FlushNothing, CompleteSnapshot, SnapshotRecorded, SnapshotNotRecorded, Launch,
         DeliveryKeeps, DeliveryAdvance, DeliveryStepOf
<1>4. CASE StopParser \/ StopStep
  BY <1>4 DEF StopParser, StopStep, Joined, StopDelivery, DeliveryKeeps, DeliveryAdvance, DeliveryStepOf
<1>5. CASE ParserStep /\ ~Dispatch
  BY <1>5 DEF ParserStep, Fetch, ParserExits, SkipEvent, DeliveryKeeps, DeliveryAdvance, DeliveryStepOf
<1>6. CASE DeliveryStep
  BY <1>6 DEF DeliveryStep, ConsumerTakes, LoopFlushes, DeliveryKeeps, DeliveryAdvance, DeliveryStepOf
<1>7. CASE Acknowledge \/ OffsetStep \/ DeliveryReturns \/ AcknowledgeRaises \/ DeliveryGivesUp
  BY <1>7 DEF Acknowledge, OffsetStep, DeliveryReturns, AcknowledgeRaises, DeliveryGivesUp,
              DeliveryKeeps, DeliveryAdvance, DeliveryStepOf
<1>8. CASE Restart \/ UNCHANGED vars
  BY <1>8 DEF Restart, vars, DeliveryKeeps, DeliveryAdvance, DeliveryStepOf
<1>. QED BY <1>1, <1>2, <1>3, <1>4, <1>5, <1>6, <1>7, <1>8 DEF Next, ParserStep, StartStep, DeliveryStepOf

LEMMA OffsetSteps ==
    TypeOK /\ [Next]_vars => OffsetStepOf
<1>. SUFFICES ASSUME TypeOK, [Next]_vars PROVE OffsetStepOf
  OBVIOUS
<1>1. CASE StartStep
  BY <1>1 DEF StartStep, StartWithSnapshot, StartFromOffset, SnapshotRow, SnapshotTaken,
       FlushDelivers, FlushNothing, CompleteSnapshot, SnapshotRecorded,
       SnapshotNotRecorded, Launch, OffsetStepOf, TypeOK
<1>2. CASE StopParser \/ StopStep \/ ParserStep \/ DeliveryStep
  BY <1>2 DEF StopParser, StopStep, Joined, StopDelivery, ParserStep, Fetch, ParserExits,
       SkipEvent, Dispatch, DeliveryStep, ConsumerTakes, LoopFlushes, OffsetStepOf
<1>3. CASE Acknowledge \/ OffsetStep \/ DeliveryReturns \/ AcknowledgeRaises \/ DeliveryGivesUp
  BY <1>3 DEF Acknowledge, OffsetStep, DeliveryReturns, AcknowledgeRaises, DeliveryGivesUp,
              OffsetStepOf
<1>4. CASE Restart \/ UNCHANGED vars
  BY <1>4 DEF Restart, vars, OffsetStepOf
<1>. QED BY <1>1, <1>2, <1>3, <1>4 DEF Next

-----------------------------------------------------------------------------
(* The types.                                                              *)
LEMMA StatsTypes ==
    ASSUME NEW s \in D!DeliveryStats, NEW n \in Nat, NEW p \in Nat
    PROVE  /\ [s EXCEPT !.submitted = @ + 1] \in D!DeliveryStats
           /\ [s EXCEPT !.failed = @ + 1] \in D!DeliveryStats
           /\ [s EXCEPT !.retried = IF @ < MaxRetries THEN @ + 1 ELSE @] \in D!DeliveryStats
           /\ [s EXCEPT !.batches = @ + 1, !.delivered = @ + n, !.lastPosition = p]
                 \in D!DeliveryStats
<1>1. /\ s.submitted + 1 \in Nat /\ s.failed + 1 \in Nat /\ s.batches + 1 \in Nat
      /\ s.delivered + n \in Nat
      /\ (IF s.retried < MaxRetries THEN s.retried + 1 ELSE s.retried) \in Nat
  BY DEF D!DeliveryStats
<1>. QED BY <1>1 DEF D!DeliveryStats

(* What submit() does to the buffers and the batch. *)
LEMMA SubmitTypes ==
    ASSUME D!TypeOK, LockInv, NEW t \in Callers, NEW e \in Envelopes, D!Submit(t, e)
    PROVE  D!TypeOK' /\ LockInv'
<1>1. /\ running' \in BOOLEAN
      /\ loop' \in [LoopThreads -> {"off", "top", "asleep", "flushing"}]
      /\ submitted' \subseteq Envelopes
      /\ received' \subseteq Envelopes
      /\ lost' \subseteq Envelopes
  BY DEF D!Submit, D!TypeOK
<1>2. stats' \in D!DeliveryStats
  BY StatsTypes DEF D!Submit, D!TypeOK
<1>3. /\ owner = NoThread /\ received' = received
      /\ t \in D!Threads /\ t # NoThread
  BY ParametersAssumption DEF D!Submit, D!Threads, Callers
<1>. SUFFICES /\ pendingTransactions' \in [TxIds -> Seq(Envelopes)]
              /\ nonTxBuffer' \in Seq(Envelopes)
              /\ bufferMarked' \in BOOLEAN
              /\ owner' \in D!Threads \cup {NoThread}
              /\ batch' \in Seq(Envelopes)
              /\ stage' \in {"idle", "deliver", "backoff", "delivered", "acking"}
              /\ LockInv'
  BY <1>1, <1>2 DEF D!TypeOK
<1>4. CASE D!OpenTransaction(e)
  BY <1>3, <1>4 DEF D!OpenTransaction, D!OpensTransaction, D!Transactional, D!delivery, D!TypeOK, LockInv
<1>5. CASE D!BufferEvent(e)
  BY <1>3, <1>5 DEF D!BufferEvent, D!delivery, D!TypeOK, LockInv
<1>6. CASE D!ExtendTransaction(e)
  BY <1>3, <1>6 DEF D!ExtendTransaction, D!JoinsTransaction, D!Transactional, D!delivery, D!TypeOK, LockInv
<1>7. CASE D!DeliverTransaction(t, e)
  BY <1>3, <1>7 DEF D!DeliverTransaction, D!StartDelivery, D!JoinsTransaction, D!Transactional,
                D!TypeOK, LockInv
<1>. QED BY <1>4, <1>5, <1>6, <1>7 DEF D!Submit

LEMMA TakeTypes ==
    ASSUME D!TypeOK, LockInv, NEW t \in D!Threads, owner = NoThread, D!TakeBuffer(t),
           loop' \in [LoopThreads -> {"off", "top", "asleep", "flushing"}],
           UNCHANGED <<running, stats, D!history>>
    PROVE  D!TypeOK' /\ LockInv'
<1>1. t # NoThread /\ <<>> \in Seq(Envelopes)
  BY ParametersAssumption DEF D!Threads, Callers, LoopThreads
<1>. QED BY <1>1 DEF D!TakeBuffer, D!StartDelivery, D!history, D!TypeOK, LockInv

LEMMA DeliveryTypes ==
    D!TypeOK /\ LockInv /\ DeliveryStepOf => D!TypeOK' /\ LockInv'
<1>. SUFFICES ASSUME D!TypeOK, LockInv, DeliveryStepOf PROVE D!TypeOK' /\ LockInv'
  OBVIOUS
<1>1. CASE Submission
  BY <1>1, SubmitTypes DEF Submission
<1>2. CASE D!Flush("main")
  BY <1>2, TakeTypes DEF D!Flush, D!Threads, Callers, D!TypeOK
<1>3. CASE D!LoopFlush("loop")
  <2>1. loop' \in [LoopThreads -> {"off", "top", "asleep", "flushing"}]
    BY <1>3 DEF D!LoopFlush, D!TypeOK
  <2>. QED BY <1>3, <2>1, TakeTypes DEF D!LoopFlush, D!Threads, LoopThreads
<1>4. CASE D!Start \/ D!Stop
  BY <1>4 DEF D!Start, D!Stop, D!buffers, D!delivery, D!history, D!TypeOK, LockInv
<1>5. CASE D!LoopTop("loop") \/ D!LoopSkip("loop")
  BY <1>5 DEF D!LoopTop, D!LoopSkip, D!buffers, D!delivery, D!history, D!TypeOK, LockInv
<1>6. CASE D!DeliverOk
  BY <1>6, RangeSubset DEF D!DeliverOk, D!buffers, D!TypeOK, LockInv
<1>7. CASE D!DeliverRaises
  <2>1. PICK n \in 0..Len(batch) : received' = received \cup D!Range(SubSeq(batch, 1, n))
    BY <1>7 DEF D!DeliverRaises
  <2>2. received' \subseteq Envelopes
    BY <2>1, RangeSubset, RangeOfPrefix DEF D!TypeOK
  <2>3. stats' \in D!DeliveryStats
    BY <1>7, StatsTypes DEF D!DeliverRaises, D!TypeOK
  <2>. QED BY <1>7, <2>2, <2>3 DEF D!DeliverRaises, D!buffers, D!TypeOK, LockInv
<1>8. CASE D!Retry
  BY <1>8 DEF D!Retry, D!buffers, D!history, D!TypeOK, LockInv
<1>9. CASE D!GiveUp
  <2>1. lost' \subseteq Envelopes
    BY <1>9, RangeSubset DEF D!GiveUp, D!TypeOK
  <2>2. stats' \in D!DeliveryStats
    BY <1>9, StatsTypes DEF D!GiveUp, D!TypeOK
  <2>3. loop' \in [LoopThreads -> {"off", "top", "asleep", "flushing"}]
    BY <1>9 DEF D!GiveUp, D!Release, D!TypeOK
  <2>. QED BY <1>9, <2>1, <2>2, <2>3 DEF D!GiveUp, D!Release, D!buffers, D!TypeOK, LockInv
<1>10. CASE D!Return
  <2>1. loop' \in [LoopThreads -> {"off", "top", "asleep", "flushing"}]
    BY <1>10 DEF D!Return, D!Release, D!TypeOK
  <2>. QED BY <1>10, <2>1 DEF D!Return, D!Release, D!buffers, D!history, D!TypeOK, LockInv
<1>11. CASE \E p \in Positions : D!Confirm(p)
  <2>1. PICK p \in Positions : D!Confirm(p)
    BY <1>11
  <2>2. stats' \in D!DeliveryStats
    <3>1. Len(batch) \in Nat /\ p \in Nat
      BY LogType DEF D!TypeOK
    <3>. QED BY <2>1, <3>1, StatsTypes DEF D!Confirm, D!TypeOK
  <2>. QED BY <2>1, <2>2 DEF D!Confirm, D!buffers, D!history, D!TypeOK, LockInv
<1>12. CASE D!Restart
  <2>1. D!InitialStats \in D!DeliveryStats /\ <<>> \in Seq(Envelopes)
    BY DEF D!InitialStats, D!DeliveryStats
  <2>. QED BY <1>12, <2>1 DEF D!Restart, D!TypeOK, LockInv
<1>13. CASE UNCHANGED deliveryVars
  BY <1>13 DEF deliveryVars, D!TypeOK, LockInv
<1>. QED
  BY <1>1, <1>2, <1>3, <1>4, <1>5, <1>6, <1>7, <1>8, <1>9, <1>10, <1>11, <1>12, <1>13
     DEF DeliveryStepOf, DeliveryAdvance, DeliveryKeeps

LEMMA AdvancedFacts ==
    ASSUME OM!TypeOK, NEW p \in Positions
    PROVE  /\ OM!Advanced(p) \in Positions
           /\ OM!Advanced(p) \in {p, committed}
           /\ OM!Advanced(p) >= p
           /\ committed \in Positions => committed <= OM!Advanced(p)
BY LogType, ParametersAssumption DEF OM!TypeOK, OM!Advanced, OM!Supersedes, OM!Offsets

LEMMA OffsetTypes ==
    OM!TypeOK /\ WriterInv /\ OffsetStepOf => OM!TypeOK' /\ WriterInv'
<1>. SUFFICES ASSUME OM!TypeOK, WriterInv, OffsetStepOf PROVE OM!TypeOK' /\ WriterInv'
  OBVIOUS
<1>1. ASSUME NEW p \in Positions, OM!Ack(p) \/ OM!MarkSnapshotComplete(p)
      PROVE  OM!TypeOK' /\ WriterInv'
  <2>1. OM!Advanced(p) \in Positions
    BY AdvancedFacts
  <2>. QED BY <1>1, <2>1 DEF OM!Ack, OM!MarkSnapshotComplete, OM!AckDuringSnapshot,
         OM!AckDeferred, OM!AckFlushing, OM!Record, OM!Flush, OM!TypeOK, OM!Offsets,
         OM!Contents, WriterInv
<1>2. CASE OM!MarkSnapshotInProgress \/ UNCHANGED offsetVars
  BY <1>2 DEF OM!MarkSnapshotInProgress, OM!files, offsetVars, OM!TypeOK, WriterInv
<1>3. CASE OM!DumpTmp \/ OM!Replace \/ OM!StoreFails \/ OM!ErrorPropagates
  BY <1>3 DEF OM!DumpTmp, OM!Replace, OM!StoreFails, OM!ErrorPropagates, OM!files, OM!TypeOK,
              OM!Offsets, OM!Contents, WriterInv
<1>4. CASE OM!Restart
  BY <1>4 DEF OM!Restart, OM!LoadInitial, OM!Stored, OM!files, OM!TypeOK, OM!Offsets, WriterInv
<1>. QED BY <1>1, <1>2, <1>3, <1>4 DEF OffsetStepOf

(* What the main thread, the parser's thread and a restart do to the       *)
(* pipeline's own variables.                                               *)
LEMMA FirstIndexType ==
    FirstIndex \in 1..Len(Log) + 1
<1>1. ASSUME NEW S \in SUBSET (1..Len(Log)) PROVE Cardinality(S) \in 0..Len(Log)
  <2>1. IsFiniteSet(1..Len(Log)) /\ Cardinality(1..Len(Log)) = Len(Log)
    BY LogIsFinite
  <2>2. Cardinality(S) \in Nat /\ Cardinality(S) <= Cardinality(1..Len(Log))
    BY <2>1, FS_Subset, FS_CardinalityType
  <2>. QED BY <2>1, <2>2, LogType
<1>2. /\ {i \in DOMAIN Log : Log[i].pos < committed} \in SUBSET (1..Len(Log))
      /\ {i \in DOMAIN Log : Log[i].pos <= committed} \in SUBSET (1..Len(Log))
  BY LogType
<1>3. EventsBefore(committed) \in 0..Len(Log) /\ EventsUpTo(committed) \in 0..Len(Log)
  BY <1>1, <1>2 DEF EventsBefore, EventsUpTo
<1>. QED BY <1>3, LogType DEF FirstIndex

OwnTypes ==
    /\ main \in Starting \cup {"running", "join", "flushStop", "stopDelivery", "stopped", "failed"}
    /\ parser \in {"off", "poll", "dispatch", "delivering", "done", "dead"}
    /\ parserRunning \in BOOLEAN
    /\ idx \in 1..Len(Log) + 1
    /\ txRowCounts \in [TxIds -> 0..Len(Log)]
    /\ snapPos \in Positions
    /\ snapView \in Positions
    /\ snapSent \in 0..SnapshotRows
    /\ crashes \in 0..MaxCrashes

LEMMA TypesParts == TypeOK <=> OwnTypes /\ D!TypeOK /\ OM!TypeOK
BY DEF TypeOK, OwnTypes, Starting

LEMMA CountRowTypes ==
    ASSUME OwnTypes, CountInv, parser = "dispatch", CountRow(current), idx' = idx,
           parser' \in {"poll", "delivering"}
    PROVE  txRowCounts' \in [TxIds -> 0..Len(Log)] /\ CountInv'
<1>1. /\ current \in 1..Len(Log) /\ current = idx - 1 /\ idx \in 2..Len(Log) + 1
      /\ txRowCounts \in [TxIds -> 0..Len(Log)]
  BY LogType DEF OwnTypes, CountInv, current
<1>2. \A tx \in TxIds : txRowCounts[tx] \in 0..idx - 2
  BY <1>1, LogType DEF CountInv
<1>3. \/ txRowCounts' = txRowCounts
      \/ \E tx \in TxIds : txRowCounts' = [txRowCounts EXCEPT ![tx] = txRowCounts[tx] + 1]
      \/ \E tx \in TxIds : txRowCounts' = [txRowCounts EXCEPT ![tx] = 0]
  <2>. DEFINE tx == Log[current].tx
  <2>1. CASE tx \in TxIds /\ Log[current].included /\ Log[current].type = "row"
    BY <2>1 DEF CountRow
  <2>2. CASE tx \in TxIds /\ Log[current].included /\ Log[current].type = "tx_commit"
    BY <2>2 DEF CountRow
  <2>3. CASE tx \in TxIds /\ Log[current].included /\ Log[current].type \notin {"row", "tx_commit"}
    <3>1. txRowCounts' = [txRowCounts EXCEPT ![tx] = txRowCounts[tx]]
      BY <2>3 DEF CountRow
    <3>. QED BY <1>1, <2>3, <3>1
  <2>4. CASE ~(tx \in TxIds /\ Log[current].included)
    BY <2>4 DEF CountRow
  <2>. QED BY <2>1, <2>2, <2>3, <2>4
<1>4. \A tx \in TxIds : txRowCounts'[tx] \in 0..idx - 1
  BY <1>1, <1>2, <1>3
<1>5. DOMAIN txRowCounts' = TxIds /\ txRowCounts' = [tx \in TxIds |-> txRowCounts'[tx]]
  BY <1>1, <1>3
<1>6. idx - 1 \in 1..Len(Log) /\ 0..idx - 1 \subseteq 0..Len(Log)
  BY <1>1, LogType
<1>7. txRowCounts' \in [TxIds -> 0..Len(Log)]
  BY <1>4, <1>5, <1>6
<1>8. CountInv'
  BY <1>1, <1>4 DEF CountInv
<1>. QED BY <1>7, <1>8

LEMMA StartTypes ==
    ASSUME TypesInv, StartStep PROVE OwnTypes' /\ CountInv' /\ OwnerInv'
<1>. USE DEF OwnerInv, CountInv, OwnTypes, Starting
<1>0. OwnTypes
  BY TypesParts DEF TypesInv
<1>1. CASE StartWithSnapshot \/ StartFromOffset
  BY <1>0, <1>1 DEF TypesInv, StartWithSnapshot, StartFromOffset, D!Start, D!delivery,
                    parserVars, snapshotVars
<1>2. CASE SnapshotRow
  <2>1. D!BufferEvent(SnapshotEnvelope(snapPos, snapView, snapSent + 1))
    BY <1>2, NoTxIsNone DEF SnapshotRow, D!Submit, D!OpenTransaction, D!OpensTransaction,
       D!ExtendTransaction, D!DeliverTransaction, D!JoinsTransaction, D!Transactional, SnapshotEnvelope
  <2>2. snapSent + 1 \in 0..SnapshotRows
    BY <1>0, <1>2, ParametersAssumption DEF SnapshotRow
  <2>. QED BY <1>0, <1>2, <2>1, <2>2 DEF TypesInv, SnapshotRow, D!BufferEvent, D!delivery, parserVars
<1>3. CASE FlushDelivers
  BY <1>0, <1>3, ParametersAssumption DEF TypesInv, FlushDelivers, D!Flush, D!TakeBuffer, D!StartDelivery, pipelineVars,
                    parserVars, snapshotVars
<1>4. CASE FlushNothing
  BY <1>0, <1>4, ParametersAssumption DEF TypesInv, FlushNothing, AfterFlush, parserVars, snapshotVars, deliveryVars
<1>5. CASE SnapshotTaken \/ CompleteSnapshot \/ SnapshotRecorded \/ SnapshotNotRecorded
  BY <1>0, <1>5 DEF TypesInv, SnapshotTaken, CompleteSnapshot, SnapshotRecorded,
                    SnapshotNotRecorded, parserVars, snapshotVars, deliveryVars
<1>6. CASE Launch
  <2>1. FirstIndex \in 1..Len(Log) + 1
    BY FirstIndexType
  <2>. QED BY <1>0, <1>6, <2>1, LogType DEF TypesInv, Launch, snapshotVars, deliveryVars
<1>. QED BY <1>1, <1>2, <1>3, <1>4, <1>5, <1>6 DEF StartStep

LEMMA ParserTypes ==
    ASSUME TypesInv, ParserStep PROVE OwnTypes' /\ CountInv' /\ OwnerInv'
<1>0. OwnTypes
  BY TypesParts DEF TypesInv
<1>1. CASE Fetch
  <2>1. /\ idx \in 1..Len(Log) /\ idx' = idx + 1 /\ parser = "poll" /\ parser' = "dispatch"
        /\ UNCHANGED <<main, parserRunning, txRowCounts, snapshotVars, crashes, owner>>
    BY <1>0, <1>1, LogType DEF Fetch, OwnTypes, deliveryVars
  <2>2. OwnTypes'
    BY <1>0, <2>1, LogType DEF OwnTypes, snapshotVars
  <2>3. CountInv'
    <3>1. \A tx \in TxIds : txRowCounts[tx] \in Nat /\ txRowCounts[tx] <= idx - 1
      BY <1>0, <2>1, LogType DEF TypesInv, CountInv, OwnTypes
    <3>. QED BY <2>1, <3>1, LogType DEF CountInv
  <2>. QED BY <2>1, <2>2, <2>3 DEF TypesInv, OwnerInv, Starting
<1>2. CASE ParserExits
  BY <1>0, <1>2 DEF ParserExits, TypesInv, OwnTypes, CountInv, OwnerInv, deliveryVars, snapshotVars, Starting
<1>3. CASE SkipEvent
  <2>1. txRowCounts' \in [TxIds -> 0..Len(Log)] /\ CountInv'
    BY <1>0, <1>3, CountRowTypes DEF SkipEvent, TypesInv
  <2>. QED BY <1>0, <1>3, <2>1 DEF SkipEvent, TypesInv, OwnTypes, OwnerInv, deliveryVars, snapshotVars, Starting
<1>4. CASE Dispatch
  <2>1. txRowCounts' \in [TxIds -> 0..Len(Log)] /\ CountInv'
    BY <1>0, <1>4, CountRowTypes DEF Dispatch, TypesInv
  <2>2. owner = NoThread /\ owner' \in {NoThread, "parser"}
    BY <1>4 DEF Dispatch, D!Submit, D!OpenTransaction, D!BufferEvent, D!ExtendTransaction,
                D!DeliverTransaction, D!StartDelivery, D!delivery
  <2>3. OwnTypes'
    BY <1>0, <1>4, <2>1 DEF Dispatch, OwnTypes, snapshotVars
  <2>4. OwnerInv'
    BY <1>4, <2>2, ParametersAssumption DEF Dispatch, OwnerInv, Starting, TypesInv
  <2>. QED BY <2>1, <2>3, <2>4
<1>. QED BY <1>1, <1>2, <1>3, <1>4 DEF ParserStep

LEMMA DelivererTypes ==
    ASSUME TypesInv, DeliveryStep \/ Acknowledge \/ DeliveryReturns \/ AcknowledgeRaises \/ DeliveryGivesUp
    PROVE  OwnTypes' /\ CountInv' /\ OwnerInv'
<1>0. OwnTypes
  BY TypesParts DEF TypesInv
<1>1. CASE DeliveryStep \/ Acknowledge
  <2>1. UNCHANGED pipelineVars /\ (owner' = owner \/ owner' \in LoopThreads)
    BY <1>1 DEF DeliveryStep, ConsumerTakes, LoopFlushes, Acknowledge, D!DeliverOk, D!LoopFlush, D!TakeBuffer,
        D!StartDelivery, D!DeliverRaises, D!Retry, D!LoopTop, D!LoopSkip, D!Confirm, D!delivery, LoopThreads
  <2>. QED BY <1>0, <2>1 DEF pipelineVars, parserVars, snapshotVars, TypesInv, OwnTypes, CountInv, OwnerInv, Starting, LoopThreads
<1>2. CASE DeliveryReturns \/ AcknowledgeRaises \/ DeliveryGivesUp
  <2>1. /\ UNCHANGED <<parserRunning, idx, txRowCounts, snapshotVars, crashes>>
        /\ owner' = NoThread
        /\ Continue(owner) \/ Raise(owner)
    BY <1>2 DEF DeliveryReturns, AcknowledgeRaises, DeliveryGivesUp, D!Return, D!GiveUp, D!Release
  <2>. QED BY <1>0, <2>1, ParametersAssumption DEF Continue, Raise, AfterFlush, snapshotVars, TypesInv, OwnTypes,
           CountInv, OwnerInv, Starting
<1>. QED BY <1>1, <1>2

LEMMA NextTypes == TypesInv /\ [Next]_vars => TypesInv'
<1>. SUFFICES ASSUME TypesInv, [Next]_vars PROVE TypesInv'
  OBVIOUS
<1>0. OwnTypes
  BY TypesParts DEF TypesInv
<1>1. D!TypeOK' /\ LockInv'
  BY DeliverySteps, DeliveryTypes, TypesParts DEF TypesInv
<1>2. OM!TypeOK' /\ WriterInv'
  BY OffsetSteps, OffsetTypes, TypesParts DEF TypesInv
<1>3. OwnTypes' /\ CountInv' /\ OwnerInv'
  <2>1. CASE StartStep
    BY <2>1, StartTypes
  <2>2. CASE ParserStep
    BY <2>2, ParserTypes
  <2>3. CASE DeliveryStep \/ Acknowledge \/ DeliveryReturns \/ AcknowledgeRaises \/ DeliveryGivesUp
    BY <2>3, DelivererTypes
  <2>4. CASE StopParser \/ StopStep
    BY <1>0, <2>4 DEF StopParser, StopStep, Joined, StopDelivery, D!Stop, D!delivery, parserVars, snapshotVars,
       deliveryVars, TypesInv, OwnTypes, CountInv, OwnerInv, Starting
  <2>5. CASE OffsetStep \/ UNCHANGED vars
    BY <1>0, <2>5 DEF OffsetStep, vars, pipelineVars, parserVars, snapshotVars, deliveryVars, TypesInv, OwnTypes,
       CountInv, OwnerInv, Starting
  <2>6. CASE Restart
    <3>1. crashes + 1 \in 0..MaxCrashes
      BY <1>0, <2>6, ParametersAssumption DEF Restart, OwnTypes
    <3>2. txRowCounts' \in [TxIds -> 0..Len(Log)] /\ \A tx \in TxIds : txRowCounts'[tx] = 0
      BY <2>6, LogType DEF Restart
    <3>3. /\ main' = "new" /\ parser' = "off" /\ parserRunning' = FALSE /\ idx' = 1
          /\ snapPos' = 0 /\ snapView' = 0 /\ snapSent' = 0 /\ crashes' = crashes + 1
          /\ owner' = NoThread
      BY <2>6 DEF Restart, D!Restart
    <3>4. OwnTypes'
      <4>1. idx' \in 1..Len(Log) + 1 /\ snapSent' \in 0..SnapshotRows
        BY <3>3, LogType, ParametersAssumption
      <4>2. crashes' \in 0..MaxCrashes
        BY <3>1, <3>3
      <4>3. snapPos' \in Positions /\ snapView' \in Positions
        BY <3>3, LogType
      <4>. QED BY <3>2, <3>3, <4>1, <4>2, <4>3 DEF OwnTypes, Starting
    <3>5. CountInv'
      <4>1. idx' - 1 = 0 /\ parser' # "dispatch"
        BY <3>3
      <4>2. \A tx \in TxIds : txRowCounts'[tx] <= 0
        BY <3>2
      <4>. QED BY <3>2, <4>1, <4>2 DEF CountInv
    <3>6. OwnerInv'
      BY <3>3, ParametersAssumption DEF OwnerInv
    <3>. QED BY <3>4, <3>5, <3>6
  <2>. QED BY <2>1, <2>2, <2>3, <2>4, <2>5, <2>6 DEF Next
<1>4. TypeOK'
  BY <1>1, <1>2, <1>3 DEF TypeOK, OwnTypes, Starting
<1>. QED BY <1>1, <1>2, <1>3, <1>4 DEF TypesInv

LEMMA InitTypes == Init => TypesInv
<1>. SUFFICES ASSUME Init PROVE TypesInv
  OBVIOUS
<1>1. D!InitialStats \in D!DeliveryStats /\ <<>> \in Seq(Envelopes)
  BY DEF D!InitialStats, D!DeliveryStats
<1>2. D!TypeOK /\ LockInv
  BY <1>1 DEF Init, D!Init, D!TypeOK, LockInv
<1>3. OM!TypeOK /\ WriterInv
  BY DEF Init, OM!Init, OM!TypeOK, OM!Offsets, OM!Contents, WriterInv
<1>4. OwnTypes /\ CountInv /\ OwnerInv
  <2>1. txRowCounts \in [TxIds -> 0..Len(Log)] /\ \A tx \in TxIds : txRowCounts[tx] = 0
    BY LogType DEF Init
  <2>2. /\ main = "new" /\ parser = "off" /\ parserRunning = FALSE /\ idx = 1
        /\ snapPos = 0 /\ snapView = 0 /\ snapSent = 0 /\ crashes = 0 /\ owner = NoThread
    BY DEF Init, D!Init
  <2>3. OwnTypes
    <3>1. idx \in 1..Len(Log) + 1 /\ snapSent \in 0..SnapshotRows /\ crashes \in 0..MaxCrashes
      BY <2>2, LogType, ParametersAssumption
    <3>2. snapPos \in Positions /\ snapView \in Positions
      BY <2>2, LogType
    <3>. QED BY <2>1, <2>2, <3>1, <3>2 DEF OwnTypes, Starting
  <2>4. CountInv
    <3>1. idx - 1 = 0 /\ parser # "dispatch"
      BY <2>2
    <3>2. \A tx \in TxIds : txRowCounts[tx] <= 0
      BY <2>1
    <3>. QED BY <2>1, <3>1, <3>2 DEF CountInv
  <2>5. OwnerInv
    BY <2>2, ParametersAssumption DEF OwnerInv
  <2>. QED BY <2>3, <2>4, <2>5
<1>. QED BY <1>2, <1>3, <1>4, TypesParts DEF TypesInv

(* The state of the three threads, of the buffers and of the offset keeps  *)
(* its types through starts, stops, failures and crashes; in particular    *)
(* the parser never reads behind the end of the log, and no transaction    *)
(* counts more rows than were read.                                        *)
THEOREM TypeCorrect == Spec => []TypeOK
<1>1. TypesInv => TypeOK
  BY DEF TypesInv
<1>. QED BY <1>1, InitTypes, NextTypes, PTL DEF Spec

-----------------------------------------------------------------------------
(* What is on its way, and what was recorded.                              *)
InFlight == D!Range(nonTxBuffer) \cup D!Range(batch)
Persistent == {committed, offsetFile, tmpFile} \cap Positions

LEMMA RowIsBuffered ==
    ASSUME TypeOK, SnapshotRow
    PROVE  LET e == SnapshotEnvelope(snapPos, snapView, snapSent + 1)
           IN  /\ owner = NoThread /\ snapSent + 1 \in 1..SnapshotRows
               /\ e \in Envelopes
               /\ nonTxBuffer' = Append(nonTxBuffer, e)
               /\ UNCHANGED <<pendingTransactions, running, loop, owner, batch, stage, received, lost>>
<1>. DEFINE e == SnapshotEnvelope(snapPos, snapView, snapSent + 1)
<1>1. D!Submit("main", e) /\ snapSent + 1 \in 1..SnapshotRows
  BY ParametersAssumption DEF SnapshotRow, TypeOK
<1>2. e \in Envelopes
  BY <1>1, EnvelopeTypes DEF TypeOK
<1>3. D!BufferEvent(e)
  BY <1>1, NoTxIsNone DEF D!Submit, D!OpenTransaction, D!OpensTransaction,
     D!ExtendTransaction, D!DeliverTransaction, D!JoinsTransaction, D!Transactional, SnapshotEnvelope
<1>. QED BY <1>1, <1>2, <1>3 DEF D!Submit, D!BufferEvent, D!delivery

(* The consumer forgets nothing, and what is on its way stays so until the *)
(* consumer has it, the batch is given up or the process dies.             *)
LEMMA NothingDropped ==
    ASSUME TypeOK, LockInv, DeliveryStepOf
    PROVE  /\ received \subseteq received'
           /\ Submission \/ DeliveryKeeps =>
                 lost' = lost /\ InFlight \cup received \subseteq (InFlight \cup received)'
<1>1. CASE Submission
  <2>1. PICK t \in Callers, e \in Envelopes : D!Submit(t, e)
    BY <1>1 DEF Submission
  <2>2. batch = <<>> /\ received' = received /\ lost' = lost
    BY <2>1 DEF D!Submit, LockInv
  <2>3. nonTxBuffer' \in {nonTxBuffer, Append(nonTxBuffer, e)}
    BY <2>1 DEF D!Submit, D!OpenTransaction, D!BufferEvent, D!ExtendTransaction, D!DeliverTransaction
  <2>4. D!Range(nonTxBuffer) \subseteq D!Range(nonTxBuffer)'
    <3>1. D!Range(Append(nonTxBuffer, e)) = D!Range(nonTxBuffer) \cup {e}
      BY RangeAppend DEF TypeOK, D!TypeOK
    <3>2. CASE nonTxBuffer' = nonTxBuffer
      BY <3>2
    <3>3. CASE nonTxBuffer' = Append(nonTxBuffer, e)
      BY <3>1, <3>3
    <3>. QED BY <2>3, <3>2, <3>3
  <2>. QED BY <2>2, <2>4, RangeOfEmpty DEF InFlight
<1>2. CASE D!Flush("main") \/ D!LoopFlush("loop")
  <2>1. batch = <<>> /\ batch' = nonTxBuffer /\ received' = received /\ lost' = lost
    BY <1>2 DEF D!Flush, D!LoopFlush, D!TakeBuffer, D!StartDelivery, D!history, LockInv
  <2>. QED BY <2>1, RangeOfEmpty DEF InFlight
<1>3. CASE D!Start \/ D!Stop \/ D!LoopTop("loop") \/ D!LoopSkip("loop") \/ D!DeliverOk
           \/ D!DeliverRaises \/ D!Retry
  BY <1>3 DEF D!Start, D!Stop, D!LoopTop, D!LoopSkip, D!DeliverOk, D!DeliverRaises, D!Retry,
              D!buffers, D!delivery, D!history, InFlight
<1>4. CASE D!Return
  BY <1>4, RangeOfEmpty DEF D!Return, D!Release, D!buffers, D!history, InFlight, LockInv
<1>5. D!GiveUp \/ D!Restart => received \subseteq received'
  BY DEF D!GiveUp, D!Restart
<1>6. CASE (\E p \in Positions : D!Confirm(p)) \/ UNCHANGED deliveryVars
  BY <1>6 DEF D!Confirm, D!buffers, D!history, deliveryVars, InFlight
<1>. QED BY <1>1, <1>2, <1>3, <1>4, <1>5, <1>6 DEF DeliveryStepOf, DeliveryAdvance, DeliveryKeeps

(* A position is recorded by an acknowledgement outside a snapshot, or for *)
(* a snapshot; everything else about the offset only copies positions.     *)
LEMMA Recorded ==
    ASSUME TypesInv, [Next]_vars, NEW p \in Persistent', p \notin Persistent
    PROVE  /\ p \in Positions
           /\ committed \in Positions => committed < p
           /\ \/ CompleteSnapshot /\ p = snapPos
              \/ Acknowledge /\ D!Confirm(p) /\ ~snapshotModeActive
<1>1. p \in {committed', offsetFile', tmpFile'} /\ p \in Positions
      /\ p \notin {committed, offsetFile, tmpFile}
  BY DEF Persistent
<1>2. ASSUME NEW q \in Positions, committed' = OM!Advanced(q), offsetFile' = offsetFile,
             tmpFile' \in {tmpFile, Garbled}
      PROVE  p = q /\ (committed \in Positions => committed < p)
  <2>1. p = OM!Advanced(q)
    BY <1>1, <1>2, LogType, ParametersAssumption
  <2>2. p # committed
    BY <1>1
  <2>. QED BY <2>1, <2>2, LogType DEF OM!Advanced, OM!Supersedes
<1>3. CASE CompleteSnapshot
  <2>1. OM!MarkSnapshotComplete(snapPos) /\ snapPos \in Positions
    BY <1>3 DEF CompleteSnapshot, TypesInv, TypeOK
  <2>2. /\ committed' = OM!Advanced(snapPos) /\ offsetFile' = offsetFile
        /\ tmpFile' \in {tmpFile, Garbled}
    BY <2>1 DEF OM!MarkSnapshotComplete, OM!Flush
  <2>. QED BY <1>1, <1>2, <1>3, <2>1, <2>2
<1>4. CASE Acknowledge
  <2>1. PICK q \in Positions : D!Confirm(q) /\ OM!Ack(q)
    BY <1>4 DEF Acknowledge
  <2>2. ~snapshotModeActive
    BY <1>1, <2>1 DEF OM!Ack, OM!AckDuringSnapshot, OM!AckDeferred, OM!AckFlushing
  <2>3. /\ committed' = OM!Advanced(q) /\ offsetFile' = offsetFile
        /\ tmpFile' \in {tmpFile, Garbled}
    BY <2>1, <2>2 DEF OM!Ack, OM!AckDuringSnapshot, OM!AckDeferred, OM!AckFlushing, OM!Record, OM!Flush
  <2>. QED BY <1>1, <1>2, <1>4, <2>1, <2>2, <2>3
<1>5. CASE OffsetStep
  BY <1>1, <1>5, LogType, ParametersAssumption DEF OffsetStep, OM!DumpTmp, OM!Replace, OM!StoreFails, OM!files
<1>6. CASE Restart
  BY <1>1, <1>6, LogType, ParametersAssumption DEF Restart, OM!Restart, OM!LoadInitial, OM!Stored, OM!files
<1>7. CASE StartStep /\ ~CompleteSnapshot
  <2>1. UNCHANGED <<committed, offsetFile, tmpFile>>
    BY <1>7 DEF StartStep, StartWithSnapshot, StartFromOffset, SnapshotRow, SnapshotTaken,
       FlushDelivers, FlushNothing, SnapshotRecorded, SnapshotNotRecorded, Launch, offsetVars,
       OM!MarkSnapshotInProgress, OM!ErrorPropagates, OM!files, OM!memory
  <2>. QED BY <1>1, <2>1
<1>8. CASE StopParser \/ StopStep \/ ParserStep \/ DeliveryStep \/ UNCHANGED vars
  <2>1. UNCHANGED <<committed, offsetFile, tmpFile>>
    BY <1>8 DEF StopParser, StopStep, Joined, StopDelivery, ParserStep, Fetch, ParserExits,
       SkipEvent, Dispatch, DeliveryStep, ConsumerTakes, LoopFlushes, offsetVars, vars
  <2>. QED BY <1>1, <2>1
<1>9. CASE DeliveryReturns \/ AcknowledgeRaises \/ DeliveryGivesUp
  <2>1. UNCHANGED <<committed, offsetFile, tmpFile>>
    BY <1>9 DEF DeliveryReturns, AcknowledgeRaises, DeliveryGivesUp, offsetVars, OM!ErrorPropagates, OM!files
  <2>. QED BY <1>1, <2>1
<1>. QED BY <1>3, <1>4, <1>5, <1>6, <1>7, <1>8, <1>9 DEF Next

(* Nothing gets under way but by submit(). *)
LEMMA NothingInvented ==
    ASSUME TypeOK, LockInv, DeliveryAdvance
    PROVE  /\ InFlight' \subseteq InFlight
           /\ received' \subseteq received \cup D!Range(batch)
<1>1. CASE D!Flush("main") \/ D!LoopFlush("loop")
  <2>1. batch' = nonTxBuffer /\ nonTxBuffer' = <<>> /\ received' = received
    BY <1>1 DEF D!Flush, D!LoopFlush, D!TakeBuffer, D!StartDelivery, D!history
  <2>. QED BY <2>1, RangeOfEmpty DEF InFlight
<1>2. CASE D!Start \/ D!Stop \/ D!LoopTop("loop") \/ D!LoopSkip("loop") \/ D!DeliverOk \/ D!Retry
  BY <1>2 DEF D!Start, D!Stop, D!LoopTop, D!LoopSkip, D!DeliverOk, D!Retry,
              D!buffers, D!delivery, D!history, InFlight
<1>3. CASE D!DeliverRaises
  BY <1>3, RangeOfPrefix DEF D!DeliverRaises, D!buffers, InFlight, TypeOK, D!TypeOK
<1>4. CASE D!Return \/ D!GiveUp \/ D!Restart
  BY <1>4, RangeOfEmpty DEF D!Return, D!GiveUp, D!Restart, D!Release, D!buffers, D!history, InFlight
<1>5. CASE (\E p \in Positions : D!Confirm(p)) \/ UNCHANGED deliveryVars
  BY <1>5 DEF D!Confirm, D!buffers, D!history, deliveryVars, InFlight
<1>. QED BY <1>1, <1>2, <1>3, <1>4, <1>5 DEF DeliveryAdvance, DeliveryKeeps

-----------------------------------------------------------------------------
(* The snapshot: its rows are on their way or with the consumer until      *)
(* start() has flushed them, and before it has, nothing that could be      *)
(* acknowledged is recorded.                                               *)
SnapshotRowsSent(n) == {SnapshotEnvelope(snapPos, snapView, r) : r \in 1..n}
Snapshotted(p) == \E s \in CompleteSnapshots : s.pos <= p

PhaseInv ==
    /\ main \notin {"new", "stopped"} => running
    /\ main = "new" => snapSent = 0
    /\ main \in {"new", "complete", "completing", "launch"} =>
          owner = NoThread /\ nonTxBuffer = <<>>
    /\ main = "flushSnapshot" /\ owner = "main" => nonTxBuffer = <<>>
    /\ main \in {"snapshot", "flushSnapshot", "complete"} =>
          SnapshotEnabled /\ snapshotModeActive
    /\ parser = "off" /\ InFlight # {} => snapshotModeActive

RowsInv ==
    /\ main \in {"snapshot", "flushSnapshot"} =>
          SnapshotRowsSent(snapSent) \subseteq InFlight \cup received
    /\ main = "flushSnapshot" => snapSent = SnapshotRows
    /\ main = "complete" => SnapshotRowsSent(SnapshotRows) \subseteq received

RecordInv ==
    SnapshotEnabled =>
        /\ \A p \in Persistent : Snapshotted(p)
        /\ committed = NoOffset /\ ~snapshotModeActive => main = "new"

SnapshotInv == PhaseInv /\ RowsInv /\ RecordInv

LEMMA StartPhase ==
    ASSUME TypesInv, PhaseInv, StartStep PROVE PhaseInv'
<1>. USE DEF PhaseInv
<1>0. LockInv /\ OwnerInv /\ TypeOK
  BY DEF TypesInv
<1>1. CASE StartWithSnapshot
  BY <1>0, <1>1 DEF StartWithSnapshot, D!Start, OM!MarkSnapshotInProgress, parserVars, D!delivery
<1>2. CASE StartFromOffset
  BY <1>0, <1>2 DEF StartFromOffset, D!Start, parserVars, D!delivery, D!buffers, offsetVars, InFlight
<1>3. CASE SnapshotRow
  <2>1. running' = running
    BY <1>0, <1>3, RowIsBuffered
  <2>. QED BY <1>3, <2>1 DEF SnapshotRow, parserVars, offsetVars
<1>4. CASE SnapshotTaken
  BY <1>0, <1>4, ParametersAssumption DEF SnapshotTaken, parserVars, deliveryVars, offsetVars, InFlight,
     OwnerInv, LockInv
<1>5. CASE FlushDelivers
  <2>1. nonTxBuffer' = <<>> /\ running' = running /\ batch' = nonTxBuffer
    BY <1>5 DEF FlushDelivers, D!Flush, D!TakeBuffer, D!StartDelivery
  <2>2. InFlight' \subseteq InFlight
    BY <2>1, RangeOfEmpty DEF InFlight
  <2>. QED BY <1>5, <2>1, <2>2 DEF FlushDelivers, pipelineVars, parserVars, offsetVars
<1>6. CASE FlushNothing
  BY <1>6 DEF FlushNothing, AfterFlush, parserVars, deliveryVars, offsetVars, InFlight
<1>7. CASE CompleteSnapshot
  <2>1. InFlight' = {}
    BY <1>0, <1>7, RangeOfEmpty DEF CompleteSnapshot, deliveryVars, LockInv, InFlight
  <2>. QED BY <1>7, <2>1 DEF CompleteSnapshot, parserVars, deliveryVars
<1>8. CASE SnapshotRecorded \/ SnapshotNotRecorded
  BY <1>8 DEF SnapshotRecorded, SnapshotNotRecorded, OM!ErrorPropagates, parserVars, deliveryVars,
              offsetVars, InFlight
<1>9. CASE Launch
  BY <1>9 DEF Launch, deliveryVars
<1>. QED BY <1>1, <1>2, <1>3, <1>4, <1>5, <1>6, <1>7, <1>8, <1>9 DEF StartStep

LEMMA PhasePreserved ==
    ASSUME TypesInv, PhaseInv, [Next]_vars PROVE PhaseInv'
<1>. USE DEF PhaseInv
<1>0. LockInv /\ OwnerInv /\ TypeOK
  BY DEF TypesInv
<1>1. CASE StartStep
  BY <1>1, StartPhase
<1>2. CASE ParserStep
  <2>1. /\ parser # "off" /\ parser' # "off" /\ main' = main /\ running' = running
    BY <1>2 DEF ParserStep, Fetch, ParserExits, SkipEvent, Dispatch, D!Submit, deliveryVars
  <2>. QED BY <1>0, <2>1 DEF OwnerInv, Starting
<1>3. CASE DeliveryStep \/ Acknowledge
  <2>1. /\ UNCHANGED <<running, pipelineVars, snapshotModeActive>>
        /\ \/ UNCHANGED <<owner, nonTxBuffer>>
           \/ owner' = "loop" /\ owner = NoThread /\ nonTxBuffer # <<>>
    BY <1>3 DEF DeliveryStep, ConsumerTakes, LoopFlushes, Acknowledge, D!DeliverOk, D!LoopFlush,
       D!TakeBuffer, D!StartDelivery, D!DeliverRaises, D!Retry, D!LoopTop, D!LoopSkip, D!Confirm,
       D!delivery, D!buffers, D!history, offsetVars, OM!Ack
  <2>2. InFlight' \subseteq InFlight
    <3>1. \/ nonTxBuffer' = nonTxBuffer /\ batch' = batch
          \/ nonTxBuffer' = <<>> /\ batch' = nonTxBuffer
      BY <1>3 DEF DeliveryStep, ConsumerTakes, LoopFlushes, Acknowledge, D!DeliverOk, D!LoopFlush,
         D!TakeBuffer, D!StartDelivery, D!DeliverRaises, D!Retry, D!LoopTop, D!LoopSkip, D!Confirm,
         D!delivery, D!buffers
    <3>. QED BY <3>1, RangeOfEmpty DEF InFlight
  <2>. QED BY <2>1, <2>2 DEF pipelineVars, parserVars, snapshotVars
<1>4. CASE DeliveryReturns \/ AcknowledgeRaises \/ DeliveryGivesUp
  <2>1. /\ owner # NoThread /\ running' = running /\ owner' = NoThread /\ batch' = <<>>
        /\ nonTxBuffer' = nonTxBuffer /\ snapSent' = snapSent
        /\ snapshotModeActive' = snapshotModeActive
    BY <1>0, <1>4 DEF DeliveryReturns, AcknowledgeRaises, DeliveryGivesUp, D!Return, D!GiveUp,
       D!Release, D!buffers, LockInv, snapshotVars, offsetVars, OM!ErrorPropagates
  <2>2. InFlight' \subseteq InFlight
    BY <2>1, RangeOfEmpty DEF InFlight
  <2>3. Continue(owner) \/ Raise(owner)
    BY <1>4 DEF DeliveryReturns, AcknowledgeRaises, DeliveryGivesUp
  <2>. QED BY <1>0, <2>1, <2>2, <2>3, ParametersAssumption DEF Continue, Raise, AfterFlush, OwnerInv
<1>5. CASE StopParser \/ StopStep
  BY <1>0, <1>5 DEF StopParser, StopStep, Joined, StopDelivery, D!Stop, D!buffers, D!delivery,
     parserVars, snapshotVars, deliveryVars, offsetVars, InFlight
<1>6. CASE OffsetStep \/ UNCHANGED vars
  BY <1>6 DEF OffsetStep, OM!DumpTmp, OM!Replace, OM!StoreFails, vars, pipelineVars, parserVars,
     snapshotVars, deliveryVars, offsetVars, InFlight
<1>7. CASE Restart
  BY <1>7, RangeOfEmpty DEF Restart, D!Restart, InFlight
<1>. QED BY <1>1, <1>2, <1>3, <1>4, <1>5, <1>6, <1>7 DEF Next

LEMMA RowsPreserved ==
    ASSUME TypesInv, PhaseInv, RowsInv, [Next]_vars PROVE RowsInv'
<1>0. LockInv /\ OwnerInv /\ TypeOK /\ DeliveryStepOf /\ snapSent \in Nat
  BY DeliverySteps, ParametersAssumption DEF TypesInv, TypeOK
<1>1. SUFFICES ASSUME main' \in {"snapshot", "flushSnapshot", "complete"} PROVE RowsInv'
  BY DEF RowsInv
<1>2. ~Restart /\ ~DeliveryGivesUp
  BY <1>1, ParametersAssumption DEF Restart, DeliveryGivesUp, D!GiveUp, Raise, PhaseInv
<1>3. /\ received \subseteq received'
      /\ InFlight \cup received \subseteq (InFlight \cup received)'
  <2>1. Submission \/ DeliveryKeeps
    BY <1>0, <1>2, DeliverySteps DEF TypesInv
  <2>. QED BY <1>0, <2>1, NothingDropped
<1>4. CASE UNCHANGED <<main, snapshotVars>>
  BY <1>3, <1>4 DEF RowsInv, SnapshotRowsSent, snapshotVars
<1>5. CASE StartWithSnapshot
  <2>1. snapSent' = 0 /\ main' = "snapshot"
    BY <1>5 DEF StartWithSnapshot, PhaseInv
  <2>2. SnapshotRowsSent(snapSent)' = {}
    BY <2>1 DEF SnapshotRowsSent
  <2>. QED BY <2>1, <2>2 DEF RowsInv
<1>6. CASE SnapshotRow
  <2>. DEFINE e == SnapshotEnvelope(snapPos, snapView, snapSent + 1)
  <2>1. /\ nonTxBuffer' = Append(nonTxBuffer, e) /\ e \in Envelopes
        /\ snapSent' = snapSent + 1 /\ snapPos' = snapPos /\ snapView' = snapView
        /\ main = "snapshot" /\ main' = "snapshot"
    BY <1>0, <1>6, RowIsBuffered DEF SnapshotRow
  <2>2. e \in InFlight'
    <3>1. D!Range(Append(nonTxBuffer, e)) = D!Range(nonTxBuffer) \cup {e}
      BY <1>0, <2>1, RangeAppend DEF TypeOK, D!TypeOK
    <3>. QED BY <2>1, <3>1 DEF InFlight
  <2>3. SnapshotRowsSent(snapSent)' \subseteq SnapshotRowsSent(snapSent) \cup {e}
    <3>1. \A r \in 1..snapSent + 1 : r \in 1..snapSent \/ r = snapSent + 1
      BY <1>0
    <3>. QED BY <2>1, <3>1 DEF SnapshotRowsSent
  <2>. QED BY <1>3, <2>1, <2>2, <2>3 DEF RowsInv
<1>7. CASE SnapshotTaken
  BY <1>3, <1>7 DEF SnapshotTaken, RowsInv, SnapshotRowsSent, snapshotVars
<1>8. ASSUME main = "flushSnapshot", main' = "complete", UNCHANGED snapshotVars,
             nonTxBuffer = <<>>, D!Range(batch) \subseteq received
      PROVE  RowsInv'
  BY <1>3, <1>8, RangeOfEmpty DEF RowsInv, SnapshotRowsSent, snapshotVars, InFlight
<1>9. CASE FlushNothing
  <2>1. batch = <<>>
    BY <1>0, <1>9 DEF FlushNothing, LockInv
  <2>. QED BY <1>1, <1>8, <1>9, <2>1, RangeOfEmpty DEF FlushNothing, AfterFlush
<1>10. CASE DeliveryReturns \/ AcknowledgeRaises
  <2>1. CASE main' = main
    BY <1>4, <1>10, <2>1 DEF DeliveryReturns, AcknowledgeRaises
  <2>2. CASE main' # main
    <3>1. owner = "main" /\ main = "flushSnapshot" /\ main' = "complete"
      BY <1>0, <1>1, <1>10, <2>2 DEF DeliveryReturns, AcknowledgeRaises, Continue, Raise, AfterFlush,
         OwnerInv
    <3>2. D!Range(batch) \subseteq received
      BY <1>0, <1>10 DEF DeliveryReturns, AcknowledgeRaises, D!Return, LockInv
    <3>. QED BY <1>8, <1>10, <3>1, <3>2 DEF PhaseInv, DeliveryReturns, AcknowledgeRaises
  <2>. QED BY <2>1, <2>2
<1>11. CASE StartFromOffset \/ CompleteSnapshot \/ SnapshotRecorded \/ SnapshotNotRecorded \/ Launch
            \/ StopParser \/ StopStep
  BY <1>1, <1>11 DEF StartFromOffset, CompleteSnapshot, SnapshotRecorded, SnapshotNotRecorded, Launch,
     StopParser, StopStep, Joined, StopDelivery
<1>12. CASE FlushDelivers \/ ParserStep \/ DeliveryStep \/ Acknowledge \/ OffsetStep \/ UNCHANGED vars
  BY <1>4, <1>12 DEF FlushDelivers, ParserStep, Fetch, ParserExits, SkipEvent, Dispatch, DeliveryStep,
     ConsumerTakes, LoopFlushes, Acknowledge, OffsetStep, vars, pipelineVars
<1>. QED
  BY <1>2, <1>5, <1>6, <1>7, <1>9, <1>10, <1>11, <1>12 DEF Next, StartStep

LEMMA SnapshotsRemain ==
    ASSUME TypeOK, received \subseteq received', NEW p \in Nat, NEW q \in Nat, Snapshotted(p), p <= q
    PROVE  Snapshotted(q)'
<1>1. PICK s \in CompleteSnapshots : s.pos <= p
  BY DEF Snapshotted
<1>2. s \in CompleteSnapshots'
  BY <1>1 DEF CompleteSnapshots
<1>3. s.pos <= q
  <2>1. s.pos \in Nat
    BY <1>1, EnvelopeTypes, LogType DEF CompleteSnapshots, TypeOK, D!TypeOK
  <2>. QED BY <1>1, <2>1
<1>. QED BY <1>2, <1>3 DEF Snapshotted

LEMMA RecordPreserved ==
    ASSUME TypesInv, PhaseInv, RowsInv, RecordInv, [Next]_vars PROVE RecordInv'
<1>0. /\ LockInv /\ OwnerInv /\ TypeOK /\ received \subseteq received'
      /\ committed \in Positions \cup {NoOffset}
  BY DeliverySteps, NothingDropped DEF TypesInv, TypeOK, OM!TypeOK, OM!Offsets
<1>1. SUFFICES ASSUME SnapshotEnabled PROVE RecordInv'
  BY DEF RecordInv
<1>2. ASSUME NEW p \in Persistent' PROVE Snapshotted(p)'
  <2>1. p \in Nat /\ Positions \subseteq Nat
    BY LogType DEF Persistent
  <2>2. CASE p \in Persistent
    BY <1>0, <1>1, <2>1, <2>2, SnapshotsRemain DEF RecordInv
  <2>3. CASE p \notin Persistent /\ CompleteSnapshot /\ p = snapPos
    <3>. DEFINE s == SnapshotEnvelope(snapPos, snapView, 1)
    <3>1. \A r \in 1..SnapshotRows : SnapshotEnvelope(snapPos, snapView, r) \in received
      BY <2>3 DEF CompleteSnapshot, RowsInv, SnapshotRowsSent
    <3>2. 1 \in 1..SnapshotRows
      BY <1>1, ParametersAssumption
    <3>3. s \in received /\ s.type = "snapshot" /\ s.pos = snapPos /\ s.view = snapView
      BY <3>1, <3>2 DEF SnapshotEnvelope
    <3>4. s \in CompleteSnapshots
      BY <3>1, <3>3 DEF CompleteSnapshots
    <3>5. Snapshotted(p)
      BY <2>1, <2>3, <3>3, <3>4 DEF Snapshotted
    <3>. QED BY <1>0, <2>1, <3>5, SnapshotsRemain
  <2>4. CASE p \notin Persistent /\ Acknowledge /\ D!Confirm(p) /\ ~snapshotModeActive
    <3>1. main # "new"
      BY <1>0, <2>4 DEF D!Confirm, PhaseInv, LockInv
    <3>2. committed \in Positions
      BY <1>0, <1>1, <2>4, <3>1 DEF RecordInv
    <3>3. committed \in Persistent /\ committed < p
      BY <2>4, <3>2, Recorded DEF Persistent
    <3>. QED BY <1>0, <1>1, <2>1, <3>2, <3>3, SnapshotsRemain DEF RecordInv
  <2>. QED BY <2>2, <2>3, <2>4, Recorded
<1>3. ASSUME committed' = NoOffset, ~snapshotModeActive', main' # "new" PROVE FALSE
  <2>1. NoOffset \notin Positions
    BY LogType, ParametersAssumption
  <2>2. ~Restart
    BY <1>3 DEF Restart
  <2>3. ~CompleteSnapshot
    <3>1. OM!Advanced(snapPos) \in Positions
      BY <1>0, AdvancedFacts DEF TypeOK
    <3>. QED BY <1>3, <2>1, <3>1 DEF CompleteSnapshot, OM!MarkSnapshotComplete, OM!Flush
  <2>4. ~StartWithSnapshot
    BY <1>3 DEF StartWithSnapshot, OM!MarkSnapshotInProgress
  <2>5. ~snapshotModeActive /\ committed = NoOffset
    <3>1. CASE OffsetStep \/ Acknowledge
      <4>1. ASSUME NEW q \in Positions, committed' = OM!Advanced(q) PROVE FALSE
        BY <1>0, <1>3, <2>1, <4>1, AdvancedFacts DEF TypeOK
      <4>. QED BY <1>3, <3>1, <4>1 DEF OffsetStep, OM!DumpTmp, OM!Replace, OM!StoreFails, Acknowledge,
             OM!Ack, OM!AckDuringSnapshot, OM!AckDeferred, OM!AckFlushing, OM!Record, OM!Flush
    <3>2. CASE StartStep
      BY <1>3, <2>3, <2>4, <3>2 DEF StartStep, StartFromOffset, SnapshotRow, SnapshotTaken,
         FlushDelivers, FlushNothing, SnapshotRecorded, SnapshotNotRecorded, Launch, offsetVars,
         OM!ErrorPropagates
    <3>3. CASE StopParser \/ StopStep \/ ParserStep \/ DeliveryStep \/ DeliveryReturns
               \/ AcknowledgeRaises \/ DeliveryGivesUp \/ UNCHANGED vars
      BY <1>3, <3>3 DEF StopParser, StopStep, Joined, StopDelivery, ParserStep, Fetch, ParserExits,
         SkipEvent, Dispatch, DeliveryStep, ConsumerTakes, LoopFlushes, DeliveryReturns,
         AcknowledgeRaises, DeliveryGivesUp, OM!ErrorPropagates, offsetVars, vars
    <3>. QED BY <2>2, <3>1, <3>2, <3>3 DEF Next
  <2>6. main = "new"
    BY <1>1, <2>5 DEF RecordInv
  <2>7. StartFromOffset
    <3>1. owner = NoThread /\ stage = "idle"
      BY <1>0, <2>6 DEF PhaseInv, LockInv
    <3>2. main' = main \/ StartFromOffset
      BY <2>2, <2>4, <2>6, <3>1 DEF Next, StartStep, SnapshotRow, SnapshotTaken, FlushDelivers,
         FlushNothing, CompleteSnapshot, SnapshotRecorded, SnapshotNotRecorded, Launch, StopParser,
         StopStep, Joined, StopDelivery, ParserStep, Fetch, ParserExits, SkipEvent, Dispatch,
         DeliveryStep, ConsumerTakes, LoopFlushes, Acknowledge, OffsetStep, DeliveryReturns,
         AcknowledgeRaises, DeliveryGivesUp, D!Return, D!GiveUp, pipelineVars, vars
    <3>. QED BY <1>3, <2>6, <3>2
  <2>. QED BY <1>1, <2>5, <2>7 DEF StartFromOffset
<1>. QED BY <1>1, <1>2, <1>3 DEF RecordInv

LEMMA SnapshotInvHolds == Spec => [](TypesInv /\ SnapshotInv)
<1>1. Init => TypesInv /\ SnapshotInv
  <2>. SUFFICES ASSUME Init PROVE TypesInv /\ SnapshotInv
    OBVIOUS
  <2>1. /\ main = "new" /\ snapSent = 0 /\ InFlight = {} /\ Persistent = {}
        /\ owner = NoThread /\ nonTxBuffer = <<>>
    BY LogType, ParametersAssumption, RangeOfEmpty DEF Init, D!Init, OM!Init, InFlight, Persistent
  <2>. QED BY <2>1, InitTypes DEF SnapshotInv, PhaseInv, RowsInv, RecordInv
<1>2. TypesInv /\ SnapshotInv /\ [Next]_vars => (TypesInv /\ SnapshotInv)'
  BY NextTypes, PhasePreserved, RowsPreserved, RecordPreserved DEF SnapshotInv
<1>. QED BY <1>1, <1>2, PTL DEF Spec

(* "The snapshot is done" is never persisted ahead of the rows: if the     *)
(* offset file of a pipeline with a snapshot holds a position, the         *)
(* consumer has all rows of a snapshot at or before it, wherever the       *)
(* process died and whatever failed, so skipping the snapshot the next     *)
(* time is right.                                                          *)
THEOREM SnapshotsPrecedeOffsets == Spec => []SnapshotBeforeOffset
<1>1. TypesInv /\ SnapshotInv => SnapshotBeforeOffset
  <2>. SUFFICES ASSUME SnapshotInv, SnapshotEnabled, OM!Stored # NoOffset
                PROVE  \E s \in CompleteSnapshots : s.pos <= OM!Stored
    BY DEF SnapshotBeforeOffset
  <2>1. OM!Stored \in Persistent
    BY DEF OM!Stored, Persistent
  <2>. QED BY <2>1 DEF SnapshotInv, RecordInv, Snapshotted
<1>. QED BY <1>1, SnapshotInvHolds, PTL

-----------------------------------------------------------------------------
(* One queue: without transaction boundaries everything goes through the   *)
(* size and time buffer.  The hypotheses on the source are those whose     *)
(* absence the runs show to lose events: a position for every event, and   *)
(* snapshots whose position is that of their read view.                    *)
OneQueue ==
    /\ ~BoundaryEnabled
    /\ \A i, j \in DOMAIN Log : i < j => Log[i].pos < Log[j].pos
    /\ SnapshotAtomic

(* What is delivered is the log as it was written, or rows of a snapshot   *)
(* that has seen what it claims.                                           *)
LogEventsOnce == {EnvelopeOf(i, 0, p) : i \in DOMAIN Log, p \in 0..MaxCrashes}
SnapshotsAtPosition ==
    {SnapshotEnvelope(k, k, r) : k \in Positions, r \in 1..SnapshotRows}

(* The events this process has read and submitted, or passed over. *)
WasRead(i) == parser # "off" /\ i < (IF parser = "dispatch" THEN current ELSE idx)

OriginInv ==
    /\ snapView = snapPos
    /\ received \subseteq LogEventsOnce \cup SnapshotsAtPosition
    /\ parser = "off" => InFlight \subseteq SnapshotsAtPosition
    /\ parser # "off" =>
          \A e \in InFlight : \E i \in DOMAIN Log : WasRead(i) /\ e = EnvelopeOf(i, 0, crashes)

(* Only the delivery loop gives up, and then nobody delivers any more. *)
SurrenderInv ==
    /\ owner # "parser"
    /\ lost # {} =>
          ~running /\ main # "new" /\ owner = NoThread /\ loop["loop"] \in {"top", "off"}

InOrder(s) == \A i, j \in DOMAIN s : i < j => s[i].pos < s[j].pos
OrderInv ==
    parser # "off" =>
        /\ InOrder(batch)
        /\ InOrder(nonTxBuffer)
        /\ \A e \in D!Range(batch), f \in D!Range(nonTxBuffer) : e.pos < f.pos

(* What was read is with the consumer or on its way, and the offset covers *)
(* nothing that is not with the consumer.                                  *)
CoveredUpTo(p) == \A i \in Missing : Log[i].pos > p
CoverInv ==
    /\ lost = {} => \A i \in Missing : WasRead(i) => EnvelopeOf(i, 0, crashes) \in InFlight
    /\ \A p \in Persistent : CoveredUpTo(p)
    /\ NothingOvertakes

QueueInv == OriginInv /\ SurrenderInv /\ OrderInv /\ CoverInv

LEMMA PositionsIdentify ==
    ASSUME OneQueue, NEW i \in DOMAIN Log, NEW j \in DOMAIN Log
    PROVE  /\ Log[i].pos < Log[j].pos <=> i < j
           /\ Log[i].pos = Log[j].pos <=> i = j
           /\ Log[i].pos <= Log[j].pos <=> i <= j
<1>1. i \in Nat /\ j \in Nat /\ Log[i].pos \in Nat /\ Log[j].pos \in Nat
  <2>1. i \in 1..Len(Log) /\ j \in 1..Len(Log)
    BY LogType
  <2>2. Log[i].pos \in Nat /\ Log[j].pos \in Nat
    BY <2>1, LogType
  <2>. QED BY <2>1, <2>2
<1>2. /\ i < j => Log[i].pos < Log[j].pos
      /\ j < i => Log[j].pos < Log[i].pos
      /\ i = j => Log[i].pos = Log[j].pos
  BY DEF OneQueue
<1>3. \A m, n, p, q \in Nat :
          /\ m < n => p < q
          /\ n < m => q < p
          /\ m = n => p = q
          => (p < q <=> m < n) /\ (p = q <=> m = n) /\ (p <= q <=> m <= n)
  OBVIOUS
<1>. QED BY <1>1, <1>2, <1>3

LEMMA EnvelopeFields ==
    /\ \A i \in DOMAIN Log : \A p :
          /\ EnvelopeOf(i, 0, p).pos = Log[i].pos
          /\ EnvelopeOf(i, 0, p).type = Log[i].type
          /\ EnvelopeOf(i, 0, p).pk = Log[i].pk
          /\ EnvelopeOf(i, 0, p).type # "snapshot"
    /\ \A e \in SnapshotsAtPosition : e.type = "snapshot" /\ e.view = e.pos
<1>1. \A i \in DOMAIN Log : Log[i].type # "snapshot"
  BY LogEvents, LogType
<1>. QED BY <1>1 DEF EnvelopeOf, SnapshotsAtPosition, SnapshotEnvelope

(* In one queue a submitted event is appended to the buffer. *)
LEMMA EventIsBuffered ==
    ASSUME OneQueue, TypesInv, Dispatch
    PROVE  /\ current \in DOMAIN Log /\ current = idx - 1 /\ idx \in 2..Len(Log) + 1
           /\ owner = NoThread
           /\ EnvelopeOf(current, 0, crashes) \in Envelopes
           /\ nonTxBuffer' = Append(nonTxBuffer, EnvelopeOf(current, 0, crashes))
           /\ parser = "dispatch" /\ parser' = "poll"
           /\ UNCHANGED <<idx, main, running, loop, owner, batch, stage, received, lost,
                          snapPos, snapView>>
<1>1. current \in DOMAIN Log /\ current = idx - 1 /\ idx \in 2..Len(Log) + 1
  BY LogType DEF Dispatch, TypesInv, CountInv, TypeOK, current
<1>2. Log[current].type # "tx_commit"
  BY DEF Dispatch, Deliverable, OneQueue
<1>3. RowCount(current) = 0
  BY <1>2 DEF RowCount
<1>4. D!Submit("parser", EnvelopeOf(current, 0, crashes))
  BY <1>3 DEF Dispatch
<1>5. D!BufferEvent(EnvelopeOf(current, 0, crashes)) /\ owner = NoThread
  BY <1>4 DEF D!Submit, D!OpenTransaction, D!OpensTransaction, D!ExtendTransaction,
     D!DeliverTransaction, D!JoinsTransaction, D!Transactional, OneQueue
<1>6. EnvelopeOf(current, 0, crashes) \in Envelopes
  <2>1. crashes \in 0..MaxCrashes /\ 0 \in 0..Len(Log) /\ current \in 1..Len(Log)
    BY <1>1, LogType DEF TypesInv, TypeOK
  <2>. QED BY <2>1, EnvelopeTypes
<1>7. /\ nonTxBuffer' = Append(nonTxBuffer, EnvelopeOf(current, 0, crashes))
      /\ UNCHANGED <<running, loop, owner, batch, stage, received, lost>>
  BY <1>4, <1>5 DEF D!Submit, D!BufferEvent, D!delivery
<1>8. parser = "dispatch" /\ parser' = "poll" /\ UNCHANGED <<idx, main, snapPos, snapView>>
  BY <1>5, <1>7, ParametersAssumption DEF Dispatch, snapshotVars
<1>. QED BY <1>1, <1>5, <1>6, <1>7, <1>8

(* The reader goes from event to event, from where start() puts it. *)
LEMMA ReaderSteps ==
    ASSUME TypesInv, [Next]_vars
    PROVE  /\ parser = "off" /\ parser' # "off" => Launch
           /\ parser # "off" /\ parser' = "off" => Restart
           /\ parser # "off" /\ parser' # "off" =>
                 \A i \in DOMAIN Log :
                    /\ WasRead(i) => WasRead(i)'
                    /\ WasRead(i)' => WasRead(i) \/ (i = current /\ (SkipEvent \/ Dispatch))
<1>0. /\ idx \in Nat /\ \A i \in DOMAIN Log : i \in Nat
  BY LogType DEF TypesInv, TypeOK
<1>1. CASE UNCHANGED <<parser, idx>>
  BY <1>1 DEF WasRead, current
<1>2. CASE Fetch
  BY <1>0, <1>2 DEF Fetch, WasRead, current
<1>3. CASE ParserExits
  BY <1>0, <1>3 DEF ParserExits, WasRead, current
<1>4. CASE SkipEvent
  BY <1>0, <1>4 DEF SkipEvent, WasRead, current
<1>5. CASE Dispatch
  BY <1>0, <1>5 DEF Dispatch, WasRead, current
<1>6. CASE Launch
  BY <1>6 DEF Launch, TypesInv, OwnerInv, Starting
<1>7. CASE Restart
  BY <1>7 DEF Restart
<1>8. CASE DeliveryReturns \/ AcknowledgeRaises \/ DeliveryGivesUp
  <2>1. /\ idx' = idx
        /\ parser' = parser \/ (parser = "delivering" /\ parser' \in {"poll", "dead"})
    BY <1>8 DEF DeliveryReturns, AcknowledgeRaises, DeliveryGivesUp, Continue, Raise, TypesInv, OwnerInv
  <2>. QED BY <2>1 DEF WasRead, current
<1>9. CASE (StartStep /\ ~Launch) \/ StopParser \/ StopStep
  <2>1. UNCHANGED <<parser, idx>>
    BY <1>9 DEF StartStep, StartWithSnapshot, StartFromOffset, SnapshotRow, SnapshotTaken,
       FlushDelivers, FlushNothing, CompleteSnapshot, SnapshotRecorded, SnapshotNotRecorded,
       StopParser, StopStep, Joined, StopDelivery, pipelineVars, parserVars
  <2>. QED BY <1>1, <2>1
<1>10. CASE DeliveryStep \/ Acknowledge \/ OffsetStep \/ UNCHANGED vars
  <2>1. UNCHANGED <<parser, idx>>
    BY <1>10 DEF DeliveryStep, ConsumerTakes, LoopFlushes, Acknowledge, OffsetStep, vars,
       pipelineVars, parserVars
  <2>. QED BY <1>1, <2>1
<1>. QED BY <1>2, <1>3, <1>4, <1>5, <1>6, <1>7, <1>8, <1>9, <1>10 DEF Next, ParserStep

(* Only a restart counts as a crash. *)
LEMMA SameProcess ==
    ASSUME [Next]_vars, parser' # "off"
    PROVE  crashes' = crashes
<1>1. ~Restart
  BY DEF Restart
<1>. QED BY <1>1 DEF Next, StartStep, StartWithSnapshot, StartFromOffset, SnapshotRow, SnapshotTaken,
       FlushDelivers, FlushNothing, CompleteSnapshot, SnapshotRecorded, SnapshotNotRecorded, Launch,
       StopParser, StopStep, Joined, StopDelivery, ParserStep, Fetch, ParserExits, SkipEvent,
       Dispatch, DeliveryStep, ConsumerTakes, LoopFlushes, Acknowledge, OffsetStep,
       DeliveryReturns, AcknowledgeRaises, DeliveryGivesUp, pipelineVars, vars

LEMMA ViewAtPosition ==
    ASSUME SnapshotAtomic, snapView = snapPos, [Next]_vars
    PROVE  snapView' = snapPos'
<1>1. CASE StartWithSnapshot \/ Restart
  BY <1>1 DEF StartWithSnapshot, Restart
<1>2. CASE ~StartWithSnapshot /\ ~Restart
  <2>1. UNCHANGED <<snapPos, snapView>>
    BY <1>2 DEF Next, StartStep, StartFromOffset, SnapshotRow, SnapshotTaken, FlushDelivers,
       FlushNothing, CompleteSnapshot, SnapshotRecorded, SnapshotNotRecorded, Launch, StopParser,
       StopStep, Joined, StopDelivery, ParserStep, Fetch, ParserExits, SkipEvent, Dispatch,
       DeliveryStep, ConsumerTakes, LoopFlushes, Acknowledge, OffsetStep, DeliveryReturns,
       AcknowledgeRaises, DeliveryGivesUp, snapshotVars, pipelineVars, vars
  <2>. QED BY <2>1
<1>. QED BY <1>1, <1>2

LEMMA OriginPreserved ==
    ASSUME OneQueue, TypesInv, PhaseInv, SurrenderInv, OriginInv, [Next]_vars
    PROVE  OriginInv'
<1>0. LockInv /\ OwnerInv /\ TypeOK /\ (SnapshotRow \/ Dispatch \/ DeliveryAdvance)
  BY DeliverySteps DEF TypesInv
<1>1. InFlight \cup received \subseteq LogEventsOnce \cup SnapshotsAtPosition
  <2>1. crashes \in 0..MaxCrashes
    BY <1>0 DEF TypeOK
  <2>. QED BY <2>1 DEF OriginInv, LogEventsOnce
<1>2. snapView' = snapPos'
  BY ViewAtPosition DEF OneQueue, OriginInv
<1>3. CASE SnapshotRow
  <2>. DEFINE e == SnapshotEnvelope(snapPos, snapView, snapSent + 1)
  <2>1. /\ e \in Envelopes /\ snapSent + 1 \in 1..SnapshotRows
        /\ nonTxBuffer' = Append(nonTxBuffer, e) /\ batch' = batch /\ received' = received
    BY <1>0, <1>3, RowIsBuffered
  <2>2. e \in SnapshotsAtPosition
    <3>1. snapPos \in Positions /\ snapView = snapPos
      BY <1>0 DEF TypeOK, OriginInv
    <3>. QED BY <2>1, <3>1 DEF SnapshotsAtPosition
  <2>3. InFlight' = InFlight \cup {e}
    <3>1. D!Range(Append(nonTxBuffer, e)) = D!Range(nonTxBuffer) \cup {e}
      BY <1>0, <2>1, RangeAppend DEF TypeOK, D!TypeOK
    <3>. QED BY <2>1, <3>1 DEF InFlight
  <2>4. parser = "off" /\ parser' = "off"
    BY <1>0, <1>3 DEF SnapshotRow, OwnerInv, Starting, parserVars
  <2>. QED BY <1>2, <2>1, <2>2, <2>3, <2>4 DEF OriginInv
<1>4. CASE Dispatch
  <2>. DEFINE e == EnvelopeOf(current, 0, crashes)
  <2>1. /\ e \in Envelopes /\ current \in DOMAIN Log /\ current = idx - 1 /\ idx \in Nat
        /\ nonTxBuffer' = Append(nonTxBuffer, e) /\ batch' = batch /\ received' = received
        /\ parser = "dispatch" /\ parser' = "poll" /\ idx' = idx
    BY <1>4, EventIsBuffered DEF TypesInv
  <2>2. InFlight' = InFlight \cup {e}
    <3>1. D!Range(Append(nonTxBuffer, e)) = D!Range(nonTxBuffer) \cup {e}
      BY <1>0, <2>1, RangeAppend DEF TypeOK, D!TypeOK
    <3>. QED BY <2>1, <3>1 DEF InFlight
  <2>3. \A i \in DOMAIN Log : WasRead(i) => WasRead(i)'
    BY <2>1, ReaderSteps
  <2>4. \A f \in InFlight' : \E i \in DOMAIN Log : WasRead(i)' /\ f = EnvelopeOf(i, 0, crashes)
    <3>1. ASSUME NEW f \in InFlight PROVE \E i \in DOMAIN Log : WasRead(i)' /\ f = EnvelopeOf(i, 0, crashes)
      <4>1. PICK i \in DOMAIN Log : WasRead(i) /\ f = EnvelopeOf(i, 0, crashes)
        BY <2>1 DEF OriginInv
      <4>. QED BY <2>3, <4>1
    <3>2. PICK i \in DOMAIN Log : i = current
      BY <2>1
    <3>3. WasRead(i)' /\ e = EnvelopeOf(i, 0, crashes)
      BY <2>1, <3>2 DEF WasRead, current
    <3>. QED BY <2>2, <3>1, <3>3
  <2>5. crashes' = crashes
    BY <1>4 DEF Dispatch
  <2>. QED BY <1>2, <2>1, <2>4, <2>5 DEF OriginInv
<1>5. CASE DeliveryAdvance /\ ~Dispatch
  <2>1. InFlight' \subseteq InFlight /\ received' \subseteq received \cup InFlight
    BY <1>0, <1>5, NothingInvented DEF InFlight
  <2>2. received' \subseteq LogEventsOnce \cup SnapshotsAtPosition
    BY <1>1, <2>1
  <2>3. CASE parser = "off" /\ parser' = "off"
    BY <1>2, <2>1, <2>2, <2>3 DEF OriginInv
  <2>4. CASE parser = "off" /\ parser' # "off"
    <3>1. Launch
      BY <2>4, ReaderSteps
    <3>2. InFlight = {}
      BY <1>0, <3>1, RangeOfEmpty DEF Launch, PhaseInv, LockInv, InFlight
    <3>. QED BY <1>2, <2>1, <2>2, <2>4, <3>2 DEF OriginInv
  <2>5. CASE parser # "off" /\ parser' = "off"
    <3>1. InFlight' = {}
      BY <2>5, ReaderSteps, RangeOfEmpty DEF Restart, D!Restart, InFlight
    <3>. QED BY <1>2, <2>2, <2>5, <3>1 DEF OriginInv
  <2>6. CASE parser # "off" /\ parser' # "off"
    <3>1. ASSUME NEW f \in InFlight' PROVE \E i \in DOMAIN Log : WasRead(i)' /\ f = EnvelopeOf(i, 0, crashes)
      <4>1. PICK i \in DOMAIN Log : WasRead(i) /\ f = EnvelopeOf(i, 0, crashes)
        BY <2>1, <2>6 DEF OriginInv
      <4>. QED BY <2>6, <4>1, ReaderSteps
    <3>2. crashes' = crashes
      BY <2>6, SameProcess
    <3>. QED BY <1>2, <2>2, <2>6, <3>1, <3>2 DEF OriginInv
  <2>. QED BY <2>3, <2>4, <2>5, <2>6
<1>. QED BY <1>0, <1>3, <1>4, <1>5

LEMMA SurrenderPreserved ==
    ASSUME OneQueue, TypesInv, PhaseInv, SurrenderInv, [Next]_vars
    PROVE  SurrenderInv'
<1>0. /\ LockInv /\ OwnerInv /\ TypeOK /\ owner \in {"main", "parser", "loop", NoThread}
      /\ loop["loop"] \in {"off", "top", "asleep", "flushing"}
  BY DEF TypesInv, TypeOK, D!TypeOK, D!Threads, Callers, LoopThreads
<1>1. CASE SnapshotRow
  <2>1. UNCHANGED <<owner, lost, running, loop, main>>
    BY <1>0, <1>1, RowIsBuffered DEF SnapshotRow
  <2>. QED BY <2>1 DEF SurrenderInv
<1>2. CASE Dispatch
  <2>1. UNCHANGED <<owner, lost, running, loop, main>>
    BY <1>2, EventIsBuffered
  <2>. QED BY <2>1 DEF SurrenderInv
<1>3. CASE DeliveryGivesUp
  <2>1. /\ ~running /\ owner # NoThread /\ owner' = NoThread /\ running' = running
        /\ loop' = [l \in LoopThreads |-> IF l = owner THEN "top" ELSE loop[l]]
        /\ Raise(owner)
    BY <1>0, <1>3 DEF DeliveryGivesUp, D!GiveUp, D!Release, LockInv
  <2>2. main # "new" /\ owner # "main"
    BY <1>0, <2>1 DEF PhaseInv, OwnerInv
  <2>3. owner = "loop"
    BY <1>0, <2>1, <2>2 DEF SurrenderInv
  <2>4. loop'["loop"] = "top" /\ main' # "new"
    BY <2>1, <2>2, <2>3 DEF LoopThreads, Raise
  <2>. QED BY <2>1, <2>4, ParametersAssumption DEF SurrenderInv
<1>4. CASE DeliveryReturns \/ AcknowledgeRaises
  <2>1. owner # NoThread /\ owner' = NoThread /\ lost' = lost
    BY <1>0, <1>4 DEF DeliveryReturns, AcknowledgeRaises, D!Return, D!Release, D!history, LockInv
  <2>. QED BY <2>1, ParametersAssumption DEF SurrenderInv
<1>5. CASE FlushDelivers \/ LoopFlushes
  <2>1. owner' \in {"main", "loop"} /\ lost' = lost
    BY <1>5 DEF FlushDelivers, LoopFlushes, D!Flush, D!LoopFlush, D!TakeBuffer, D!StartDelivery, D!history
  <2>2. lost = {}
    BY <1>0, <1>5 DEF FlushDelivers, LoopFlushes, D!LoopFlush, SurrenderInv, PhaseInv
  <2>. QED BY <2>1, <2>2 DEF SurrenderInv
<1>6. CASE StartWithSnapshot \/ StartFromOffset
  <2>1. lost' = lost /\ owner' = owner /\ main = "new"
    BY <1>6 DEF StartWithSnapshot, StartFromOffset, D!Start, D!delivery, D!history
  <2>. QED BY <2>1 DEF SurrenderInv
<1>7. CASE D!LoopTop("loop") /\ UNCHANGED pipelineVars
  <2>1. /\ UNCHANGED <<owner, lost, running, main>>
        /\ ~running => loop'["loop"] \in {loop["loop"], "off"}
    BY <1>7 DEF D!LoopTop, D!delivery, D!history, pipelineVars, TypesInv, TypeOK, D!TypeOK
  <2>. QED BY <2>1 DEF SurrenderInv
<1>8. CASE D!LoopSkip("loop") /\ UNCHANGED pipelineVars
  <2>1. UNCHANGED <<owner, lost>> /\ loop["loop"] = "asleep"
    BY <1>8 DEF D!LoopSkip, D!delivery, D!history
  <2>. QED BY <2>1 DEF SurrenderInv
<1>9. CASE Restart
  BY <1>9, ParametersAssumption DEF Restart, D!Restart, SurrenderInv
<1>10. CASE StopStep
  BY <1>10 DEF StopStep, Joined, StopDelivery, D!Stop, D!delivery, D!history, deliveryVars, SurrenderInv
<1>11. ASSUME UNCHANGED <<owner, lost, running, loop>>, main' # "new" \/ main' = main PROVE SurrenderInv'
  BY <1>11 DEF SurrenderInv
<1>12. CASE ConsumerTakes \/ Acknowledge \/ OffsetStep \/ UNCHANGED vars
            \/ ((D!DeliverRaises \/ D!Retry) /\ UNCHANGED pipelineVars)
  BY <1>11, <1>12 DEF ConsumerTakes, Acknowledge, OffsetStep, D!DeliverOk, D!DeliverRaises, D!Retry, D!Confirm,
     D!history, deliveryVars, pipelineVars, vars
<1>13. CASE StopParser \/ Fetch \/ ParserExits \/ SkipEvent
  BY <1>11, <1>13 DEF StopParser, Fetch, ParserExits, SkipEvent, deliveryVars
<1>14. CASE SnapshotTaken \/ FlushNothing \/ CompleteSnapshot \/ SnapshotRecorded \/ SnapshotNotRecorded
            \/ Launch
  BY <1>11, <1>14 DEF SnapshotTaken, FlushNothing, AfterFlush, CompleteSnapshot, SnapshotRecorded,
     SnapshotNotRecorded, Launch, deliveryVars
<1>. QED
  BY <1>1, <1>2, <1>3, <1>4, <1>5, <1>6, <1>7, <1>8, <1>9, <1>10, <1>12, <1>13, <1>14
     DEF Next, StartStep, ParserStep, DeliveryStep

LEMMA OrderPreserved ==
    ASSUME OneQueue, TypesInv, PhaseInv, OriginInv, SurrenderInv, OrderInv, [Next]_vars
    PROVE  OrderInv'
<1>0. LockInv /\ OwnerInv /\ TypeOK /\ (SnapshotRow \/ Dispatch \/ DeliveryAdvance)
  BY DeliverySteps DEF TypesInv
<1>1. SUFFICES ASSUME parser' # "off" PROVE OrderInv'
  BY DEF OrderInv
<1>2. InOrder(<<>>) /\ D!Range(<<>>) = {}
  BY RangeOfEmpty DEF InOrder
<1>3. CASE parser = "off"
  <2>1. Launch
    BY <1>1, <1>3, ReaderSteps
  <2>2. batch' = <<>> /\ nonTxBuffer' = <<>>
    BY <1>0, <2>1 DEF Launch, deliveryVars, PhaseInv, LockInv
  <2>. QED BY <1>2, <2>2 DEF OrderInv
<1>4. CASE parser # "off" /\ Dispatch
  <2>. DEFINE e == EnvelopeOf(current, 0, crashes)
  <2>1. /\ e \in Envelopes /\ current \in DOMAIN Log /\ parser = "dispatch"
        /\ nonTxBuffer' = Append(nonTxBuffer, e) /\ batch' = batch /\ owner = NoThread
    BY <1>4, EventIsBuffered DEF TypesInv
  <2>2. batch = <<>>
    BY <1>0, <2>1 DEF LockInv
  <2>3. \A f \in D!Range(nonTxBuffer) : f.pos < e.pos
    <3>. SUFFICES ASSUME NEW f \in D!Range(nonTxBuffer) PROVE f.pos < e.pos
      OBVIOUS
    <3>1. PICK i \in DOMAIN Log : WasRead(i) /\ f = EnvelopeOf(i, 0, crashes)
      BY <2>1 DEF OriginInv, InFlight
    <3>2. i < current
      BY <2>1, <3>1 DEF WasRead
    <3>. QED BY <2>1, <3>1, <3>2, PositionsIdentify, EnvelopeFields
  <2>4. InOrder(Append(nonTxBuffer, e))
    <3>1. nonTxBuffer \in Seq(Envelopes) /\ Len(nonTxBuffer) \in Nat
          /\ DOMAIN nonTxBuffer = 1..Len(nonTxBuffer)
      BY <1>0 DEF TypeOK, D!TypeOK
    <3>2. /\ DOMAIN Append(nonTxBuffer, e) = 1..Len(nonTxBuffer) + 1
          /\ \A i \in 1..Len(nonTxBuffer) : Append(nonTxBuffer, e)[i] = nonTxBuffer[i]
          /\ Append(nonTxBuffer, e)[Len(nonTxBuffer) + 1] = e
      BY <3>1
    <3>3. SUFFICES ASSUME NEW i \in 1..Len(nonTxBuffer) + 1, NEW j \in 1..Len(nonTxBuffer) + 1, i < j
                   PROVE  Append(nonTxBuffer, e)[i].pos < Append(nonTxBuffer, e)[j].pos
      BY <3>2 DEF InOrder
    <3>4. i \in 1..Len(nonTxBuffer)
      BY <3>1, <3>3
    <3>5. CASE j \in 1..Len(nonTxBuffer)
      BY <1>4, <3>1, <3>2, <3>3, <3>4, <3>5 DEF OrderInv, InOrder
    <3>6. CASE j = Len(nonTxBuffer) + 1
      BY <2>3, <3>1, <3>2, <3>4, <3>6 DEF D!Range
    <3>. QED BY <3>1, <3>5, <3>6
  <2>. QED BY <1>2, <2>1, <2>2, <2>4 DEF OrderInv
<1>5. CASE parser # "off" /\ DeliveryAdvance
  <2>1. \/ UNCHANGED <<batch, nonTxBuffer>>
        \/ batch' = nonTxBuffer /\ nonTxBuffer' = <<>>
        \/ batch' = <<>> /\ nonTxBuffer' = nonTxBuffer
        \/ batch' = <<>> /\ nonTxBuffer' = <<>>
    BY <1>5 DEF DeliveryAdvance, DeliveryKeeps, D!Flush, D!LoopFlush, D!TakeBuffer, D!StartDelivery, D!Start, D!Stop,
       D!LoopTop, D!LoopSkip, D!DeliverOk, D!DeliverRaises, D!Retry, D!GiveUp, D!Return, D!Release,
       D!Confirm, D!Restart, D!buffers, D!delivery, D!history, deliveryVars
  <2>. QED BY <1>2, <1>5, <2>1 DEF OrderInv
<1>6. CASE parser # "off" /\ SnapshotRow
  BY <1>0, <1>6 DEF SnapshotRow, OwnerInv, Starting
<1>. QED BY <1>0, <1>3, <1>4, <1>5, <1>6

(* An initial part of the log is counted by its cardinality: streaming     *)
(* starts behind nothing that the committed position does not cover.       *)
LEMMA InitialPart ==
    ASSUME NEW S \in SUBSET (1..Len(Log)),
           \A i \in S, j \in 1..Len(Log) : j < i => j \in S,
           NEW i \in 1..Cardinality(S)
    PROVE  i \in S
<1>1. IsFiniteSet(1..Len(Log)) /\ Cardinality(1..Len(Log)) = Len(Log)
  BY LogIsFinite
<1>2. IsFiniteSet(S) /\ Cardinality(S) \in Nat /\ Cardinality(S) <= Len(Log)
  BY <1>1, FS_Subset, FS_CardinalityType
<1>3. i \in 1..Len(Log)
  BY <1>2, LogType
<1>4. SUFFICES ASSUME i \notin S PROVE FALSE
  OBVIOUS
<1>5. S \subseteq 1..i - 1
  <2>. SUFFICES ASSUME NEW j \in S PROVE j \in 1..i - 1
    OBVIOUS
  <2>1. ~(i < j) /\ j # i /\ j \in 1..Len(Log)
    BY <1>3, <1>4
  <2>. QED BY <1>3, <2>1, LogType
<1>6. IsFiniteSet(1..i - 1) /\ Cardinality(1..i - 1) = i - 1
  <2>1. i - 1 \in Nat /\ i - 1 - 1 + 1 = i - 1
    BY <1>3
  <2>. QED BY <2>1, FS_Interval
<1>7. Cardinality(S) <= i - 1
  BY <1>5, <1>6, FS_Subset
<1>. QED BY <1>2, <1>3, <1>7

LEMMA BeforeFirstIndex ==
    ASSUME TypeOK, NEW i \in DOMAIN Log, i < FirstIndex
    PROVE  committed \in Positions /\ Log[i].pos <= committed
<1>1. committed \in Positions \/ committed = NoOffset
  BY DEF TypeOK, OM!TypeOK, OM!Offsets
<1>2. i \in 1..Len(Log) /\ i \in Nat /\ \A j \in 1..Len(Log) : Log[j].pos \in Nat
  BY LogType
<1>3. committed # NoOffset
  BY <1>2 DEF FirstIndex
<1>4. committed \in Positions /\ committed \in Nat
  BY <1>1, <1>3, LogType
<1>. DEFINE Before == {j \in DOMAIN Log : Log[j].pos < committed}
            UpTo == {j \in DOMAIN Log : Log[j].pos <= committed}
<1>5. Before \in SUBSET (1..Len(Log)) /\ UpTo \in SUBSET (1..Len(Log))
  BY LogType
<1>6. \A j \in 1..Len(Log), k \in 1..Len(Log) : k < j => Log[k].pos <= Log[j].pos
  BY LogType, LogAssumption
<1>7. \A j \in Before, k \in 1..Len(Log) : k < j => k \in Before
  BY <1>2, <1>4, <1>6, LogType
<1>8. \A j \in UpTo, k \in 1..Len(Log) : k < j => k \in UpTo
  BY <1>2, <1>4, <1>6, LogType
<1>9. Cardinality(Before) \in Nat /\ Cardinality(UpTo) \in Nat
  <2>1. IsFiniteSet(1..Len(Log))
    BY LogIsFinite
  <2>. QED BY <1>5, <2>1, FS_Subset, FS_CardinalityType
<1>10. \/ i < Cardinality(Before) + 1
       \/ i < Cardinality(UpTo) + 1
  BY <1>3 DEF FirstIndex, EventsBefore, EventsUpTo
<1>11. i \in Before \/ i \in UpTo
  <2>1. i \in 1..Cardinality(Before) \/ i \in 1..Cardinality(UpTo)
    BY <1>2, <1>9, <1>10
  <2>. HIDE DEF Before, UpTo
  <2>. QED BY <1>5, <1>7, <1>8, <2>1, InitialPart
<1>. QED BY <1>2, <1>4, <1>11

(* The consumer gets a batch from its beginning.                           *)
LEMMA ReceivedSteps ==
    ASSUME TypesInv, [Next]_vars
    PROVE  \/ received' = received
           \/ /\ stage = "deliver" /\ UNCHANGED <<nonTxBuffer, batch, parser, idx>>
              /\ \E n \in 0..Len(batch) :
                    received' = received \cup D!Range(SubSeq(batch, 1, n))
<1>1. CASE ConsumerTakes
  <2>1. batch = SubSeq(batch, 1, Len(batch)) /\ Len(batch) \in 0..Len(batch)
    BY DEF TypesInv, TypeOK, D!TypeOK
  <2>. QED BY <1>1, <2>1 DEF ConsumerTakes, D!DeliverOk, D!buffers, pipelineVars, parserVars
<1>2. CASE D!DeliverRaises /\ UNCHANGED pipelineVars
  BY <1>2 DEF D!DeliverRaises, D!buffers, pipelineVars, parserVars
<1>3. CASE SnapshotRow
  BY <1>3 DEF SnapshotRow, D!Submit
<1>4. CASE Dispatch
  BY <1>4 DEF Dispatch, D!Submit
<1>5. CASE (StartStep /\ ~SnapshotRow) \/ StopParser \/ StopStep \/ (ParserStep /\ ~Dispatch)
  BY <1>5 DEF StartStep, StartWithSnapshot, StartFromOffset, SnapshotTaken, FlushDelivers, FlushNothing,
     CompleteSnapshot, SnapshotRecorded, SnapshotNotRecorded, Launch, StopParser, StopStep, Joined,
     StopDelivery, ParserStep, Fetch, ParserExits, SkipEvent, D!Start, D!Stop, D!Flush, D!history,
     deliveryVars
<1>6. CASE LoopFlushes \/ ((D!Retry \/ D!LoopTop("loop") \/ D!LoopSkip("loop")) /\ UNCHANGED pipelineVars)
  BY <1>6 DEF LoopFlushes, D!LoopFlush, D!Retry, D!LoopTop, D!LoopSkip, D!history
<1>7. CASE Acknowledge \/ OffsetStep \/ DeliveryReturns \/ AcknowledgeRaises \/ DeliveryGivesUp \/ Restart
            \/ UNCHANGED vars
  BY <1>7 DEF Acknowledge, OffsetStep, DeliveryReturns, AcknowledgeRaises, DeliveryGivesUp, Restart,
     D!Confirm, D!Return, D!GiveUp, D!Restart, D!history, deliveryVars, vars
<1>. QED
  BY <1>1, <1>2, <1>3, <1>4, <1>5, <1>6, <1>7 DEF Next, DeliveryStep, StartStep, ParserStep

LEMMA CoverageGrows ==
    ASSUME received \subseteq received'
    PROVE  /\ Missing' \subseteq Missing
           /\ \A i \in DOMAIN Log : HasEvent(i) => HasEvent(i)'
           /\ \A i \in DOMAIN Log : HasEvent(i)' => i \notin Missing'
<1>1. \A i \in DOMAIN Log : HasEvent(i) => HasEvent(i)'
  BY DEF HasEvent
<1>2. CompleteSnapshots \subseteq CompleteSnapshots'
  BY DEF CompleteSnapshots
<1>3. Covered \subseteq Covered'
  BY <1>1, <1>2 DEF Covered
<1>4. Missing' \subseteq Missing
  BY <1>3 DEF Missing, Deliverable
<1>. QED BY <1>1, <1>4 DEF Missing, Covered

LEMMA MissingTypes ==
    Missing \subseteq DOMAIN Log
BY DEF Missing

(* Whatever is on its way and the consumer does not have yet, everything   *)
(* missing before it is on its way before it.                              *)
LEMMA MissingIsAhead ==
    ASSUME OneQueue, TypesInv, OriginInv, OrderInv, CoverInv, lost = {}, parser # "off",
           NEW j \in DOMAIN Log, WasRead(j), NEW i \in Missing, Log[i].pos <= Log[j].pos
    PROVE  EnvelopeOf(i, 0, crashes) \in InFlight
<1>1. i \in DOMAIN Log /\ i <= j
  BY MissingTypes, PositionsIdentify
<1>2. WasRead(i)
  <2>1. i \in Nat /\ j \in Nat /\ idx \in Nat /\ current \in Int
    BY <1>1, LogType DEF TypesInv, TypeOK, current
  <2>. QED BY <1>1, <2>1 DEF WasRead
<1>. QED BY <1>2 DEF CoverInv

LEMMA ReadIsOnItsWay ==
    ASSUME OneQueue, TypesInv, PhaseInv, OriginInv, SurrenderInv, CoverInv, [Next]_vars,
           lost' = {}, NEW i \in Missing', WasRead(i)'
    PROVE  EnvelopeOf(i, 0, crashes) \in InFlight'
<1>0. LockInv /\ TypeOK /\ DeliveryStepOf /\ parser' # "off"
  BY DeliverySteps DEF TypesInv, WasRead
<1>1. received \subseteq received'
  BY <1>0, NothingDropped
<1>2. i \in DOMAIN Log /\ i \in Missing
  BY <1>1, CoverageGrows, MissingTypes
<1>3. EnvelopeOf(i, 0, crashes) \notin received'
  <2>1. ASSUME EnvelopeOf(i, 0, crashes) \in received' PROVE HasEvent(i)'
    BY <1>2, <2>1, EnvelopeFields DEF HasEvent
  <2>. QED BY <1>1, <1>2, <2>1, CoverageGrows
<1>4. CASE parser = "off"
  <2>1. i < FirstIndex /\ Log[i].pos > committed
    <3>1. Launch
      BY <1>0, <1>4, ReaderSteps
    <3>2. i < FirstIndex
      BY <3>1 DEF Launch, WasRead
    <3>3. committed \in Persistent
      BY <1>0, <1>2, <3>2, BeforeFirstIndex DEF Persistent
    <3>. QED BY <1>2, <3>2, <3>3 DEF CoverInv, CoveredUpTo
  <2>2. committed \in Nat /\ Log[i].pos \in Nat /\ Log[i].pos <= committed
    BY <1>0, <1>2, <2>1, BeforeFirstIndex, LogType
  <2>. QED BY <2>1, <2>2
<1>5. CASE parser # "off" /\ Dispatch /\ i = current
  <2>1. nonTxBuffer' = Append(nonTxBuffer, EnvelopeOf(i, 0, crashes)) /\ EnvelopeOf(i, 0, crashes) \in Envelopes
    BY <1>5, EventIsBuffered
  <2>2. D!Range(Append(nonTxBuffer, EnvelopeOf(i, 0, crashes))) = D!Range(nonTxBuffer) \cup {EnvelopeOf(i, 0, crashes)}
    BY <1>0, <2>1, RangeAppend DEF TypeOK, D!TypeOK
  <2>. QED BY <2>1, <2>2 DEF InFlight
<1>6. CASE parser # "off" /\ SkipEvent /\ i = current
  BY <1>2, <1>6 DEF SkipEvent, Missing
<1>7. CASE parser # "off" /\ WasRead(i)
  <2>1. CASE Submission \/ DeliveryKeeps
    BY <1>0, <1>2, <1>3, <1>7, <2>1, NothingDropped DEF CoverInv
  <2>2. CASE DeliveryGivesUp
    <3>1. lost = {} /\ D!Range(batch) = {} /\ nonTxBuffer' = nonTxBuffer
      BY <2>2 DEF DeliveryGivesUp, D!GiveUp, D!buffers
    <3>. QED BY <1>2, <1>7, <3>1 DEF CoverInv, InFlight
  <2>3. CASE Restart
    BY <1>0, <2>3 DEF Restart
  <2>. QED BY <2>1, <2>2, <2>3, DeliverySteps DEF TypesInv
<1>. QED BY <1>0, <1>2, <1>4, <1>5, <1>6, <1>7, ReaderSteps

(* A snapshot that is complete has what it claims. *)
LEMMA SnapshotCovers ==
    ASSUME TypesInv, PhaseInv, RowsInv, snapView = snapPos, CompleteSnapshot
    PROVE  CoveredUpTo(snapPos)
<1>. DEFINE s == SnapshotEnvelope(snapPos, snapView, 1)
<1>1. \A r \in 1..SnapshotRows : SnapshotEnvelope(snapPos, snapView, r) \in received
  BY DEF CompleteSnapshot, RowsInv, SnapshotRowsSent
<1>2. 1 \in 1..SnapshotRows
  BY ParametersAssumption DEF CompleteSnapshot, PhaseInv
<1>3. s \in received /\ s.type = "snapshot" /\ s.pos = snapPos /\ s.view = snapView
  BY <1>1, <1>2 DEF SnapshotEnvelope
<1>4. s \in CompleteSnapshots /\ s.view = snapPos
  BY <1>1, <1>3 DEF CompleteSnapshots
<1>5. \A i \in Missing : ~(Log[i].pos <= snapPos)
  BY <1>4 DEF Missing, Covered
<1>6. snapPos \in Nat /\ \A i \in Missing : Log[i].pos \in Nat
  BY LogType, MissingTypes DEF TypesInv, TypeOK
<1>. QED BY <1>5, <1>6 DEF CoveredUpTo

LEMMA RecordedIsCovered ==
    ASSUME OneQueue, TypesInv, PhaseInv, RowsInv, OriginInv, SurrenderInv, OrderInv, CoverInv, [Next]_vars,
           NEW p \in Persistent'
    PROVE  CoveredUpTo(p)'
<1>0. LockInv /\ TypeOK /\ received \subseteq received'
  BY DeliverySteps, NothingDropped DEF TypesInv
<1>1. SUFFICES CoveredUpTo(p)
  BY <1>0, CoverageGrows DEF CoveredUpTo
<1>2. CASE p \in Persistent
  BY <1>2 DEF CoverInv
<1>3. CASE p \notin Persistent /\ CompleteSnapshot /\ p = snapPos
  BY <1>3, SnapshotCovers DEF OriginInv
<1>4. CASE p \notin Persistent /\ Acknowledge /\ D!Confirm(p) /\ ~snapshotModeActive
  <2>1. stage = "delivered" /\ D!Range(batch) \subseteq received /\ owner # NoThread /\ lost = {}
    BY <1>0, <1>4 DEF D!Confirm, LockInv, SurrenderInv
  <2>2. PICK e \in D!Range(batch) : e.pos = p
    BY <1>4 DEF D!Confirm, D!MaxPosition
  <2>3. parser # "off"
    BY <1>4, <2>2 DEF PhaseInv, InFlight
  <2>4. PICK j \in DOMAIN Log : WasRead(j) /\ e = EnvelopeOf(j, 0, crashes)
    BY <2>3 DEF OriginInv, InFlight
  <2>5. p = Log[j].pos
    BY <2>2, <2>4, EnvelopeFields
  <2>6. SUFFICES ASSUME NEW i \in Missing, ~(Log[i].pos > p) PROVE FALSE
    BY DEF CoveredUpTo
  <2>7. i \in DOMAIN Log /\ Log[i].pos \in Nat /\ Log[j].pos \in Nat
    BY MissingTypes, LogType
  <2>8. EnvelopeOf(i, 0, crashes) \in InFlight
    BY <2>1, <2>3, <2>4, <2>5, <2>6, <2>7, MissingIsAhead
  <2>9. EnvelopeOf(i, 0, crashes) \notin received
    <3>1. EnvelopeOf(i, 0, crashes) \in received => HasEvent(i)
      BY <2>7, EnvelopeFields DEF HasEvent
    <3>. QED BY <3>1 DEF Missing, Covered
  <2>10. EnvelopeOf(i, 0, crashes) \in D!Range(nonTxBuffer)
    BY <2>1, <2>8, <2>9 DEF InFlight
  <2>11. Log[j].pos < Log[i].pos
    BY <2>2, <2>3, <2>5, <2>7, <2>10, EnvelopeFields DEF OrderInv
  <2>. QED BY <2>5, <2>6, <2>7, <2>11
<1>. QED BY <1>2, <1>3, <1>4, Recorded

LEMMA OrderKept ==
    ASSUME OneQueue, TypesInv, PhaseInv, OriginInv, SurrenderInv, OrderInv, CoverInv, [Next]_vars
    PROVE  NothingOvertakes'
<1>0. LockInv /\ TypeOK /\ received \subseteq received'
  BY DeliverySteps, NothingDropped DEF TypesInv
<1>1. SUFFICES ASSUME NEW i \in Missing', NEW j \in DOMAIN Log, j > i, HasEvent(j)' PROVE FALSE
  BY DEF NothingOvertakes
<1>2. i \in Missing /\ i \in DOMAIN Log /\ i \in Nat /\ j \in Nat
      /\ Log[i].pos \in Nat /\ Log[j].pos \in Nat
  <2>1. i \in Missing /\ i \in DOMAIN Log
    BY <1>0, CoverageGrows, MissingTypes
  <2>2. i \in 1..Len(Log) /\ j \in 1..Len(Log)
    BY <2>1, LogType
  <2>3. Log[i].pos \in Nat /\ Log[j].pos \in Nat
    BY <2>2, LogType
  <2>. QED BY <2>1, <2>2, <2>3
<1>3. ~HasEvent(j)
  BY <1>1, <1>2 DEF CoverInv, NothingOvertakes
<1>4. PICK e \in received' : e.pos = Log[j].pos /\ e.type = Log[j].type /\ e.pk = Log[j].pk
  BY <1>1 DEF HasEvent
<1>5. e \notin received
  BY <1>3, <1>4 DEF HasEvent
<1>6. stage = "deliver"
  BY <1>5, ReceivedSteps
<1>7. PICK n \in 0..Len(batch) : received' = received \cup D!Range(SubSeq(batch, 1, n))
  BY <1>5, ReceivedSteps
<1>8. batch \in Seq(Envelopes) /\ Len(batch) \in Nat /\ DOMAIN batch = 1..Len(batch)
  BY <1>0 DEF TypeOK, D!TypeOK
<1>9. /\ DOMAIN SubSeq(batch, 1, n) = 1..n
      /\ \A k \in 1..n : SubSeq(batch, 1, n)[k] = batch[k] /\ k \in DOMAIN batch
  BY <1>7, <1>8
<1>10. PICK b \in 1..n : e = batch[b]
  BY <1>4, <1>5, <1>7, <1>9 DEF D!Range
<1>11. e \in D!Range(batch) /\ e.type # "snapshot"
  <2>1. e \in D!Range(batch)
    BY <1>9, <1>10 DEF D!Range
  <2>. QED BY <1>4, <2>1, EnvelopeFields
<1>12. parser # "off"
  BY <1>11, EnvelopeFields DEF OriginInv, InFlight
<1>13. PICK k \in DOMAIN Log : WasRead(k) /\ e = EnvelopeOf(k, 0, crashes)
  BY <1>11, <1>12 DEF OriginInv, InFlight
<1>14. WasRead(j) /\ Log[i].pos < Log[j].pos
  BY <1>1, <1>2, <1>4, <1>13, EnvelopeFields, PositionsIdentify
<1>15. lost = {}
  BY <1>0, <1>6 DEF LockInv, SurrenderInv
<1>16. Log[i].pos <= Log[j].pos
  BY <1>2, <1>14
<1>17. EnvelopeOf(i, 0, crashes) \in InFlight
  BY <1>2, <1>12, <1>14, <1>15, <1>16, MissingIsAhead
<1>18. EnvelopeOf(i, 0, crashes) \notin received'
  <2>1. EnvelopeOf(i, 0, crashes) \in received' => HasEvent(i)'
    BY <1>2, EnvelopeFields DEF HasEvent
  <2>. QED BY <1>0, <1>1, <1>2, <2>1, CoverageGrows
<1>19. EnvelopeOf(i, 0, crashes).pos < e.pos
  BY <1>2, <1>4, <1>14, EnvelopeFields
<1>20. CASE EnvelopeOf(i, 0, crashes) \in D!Range(batch)
  <2>1. PICK a \in DOMAIN batch : batch[a] = EnvelopeOf(i, 0, crashes)
    BY <1>20 DEF D!Range
  <2>2. a \in 1..Len(batch) /\ b \in 1..Len(batch) /\ n \in 0..Len(batch)
    BY <1>7, <1>8, <1>10, <2>1
  <2>3. ~(b < a) /\ b # a
    BY <1>2, <1>4, <1>8, <1>10, <1>12, <1>16, <1>19, <2>1, <2>2, EnvelopeFields DEF OrderInv, InOrder
  <2>4. a \in 1..n
    BY <1>8, <1>10, <2>2, <2>3
  <2>. QED BY <1>7, <1>9, <1>18, <2>1, <2>4 DEF D!Range
<1>21. CASE EnvelopeOf(i, 0, crashes) \in D!Range(nonTxBuffer)
  <2>1. e.pos < EnvelopeOf(i, 0, crashes).pos
    BY <1>11, <1>12, <1>21 DEF OrderInv
  <2>. QED BY <1>2, <1>4, <1>16, <1>19, <2>1, EnvelopeFields
<1>. QED BY <1>17, <1>20, <1>21 DEF InFlight

LEMMA QueuePreserved ==
    ASSUME OneQueue, TypesInv, SnapshotInv, QueueInv, [Next]_vars PROVE QueueInv'
<1>1. /\ PhaseInv /\ RowsInv
      /\ OriginInv /\ SurrenderInv /\ OrderInv /\ CoverInv
  BY DEF SnapshotInv, QueueInv
<1>2. OriginInv' /\ SurrenderInv' /\ OrderInv'
  BY <1>1, OriginPreserved, SurrenderPreserved, OrderPreserved
<1>3. CoverInv'
  <2>1. ASSUME lost' = {}, NEW i \in Missing', WasRead(i)'
        PROVE  EnvelopeOf(i, 0, crashes') \in InFlight'
    <3>1. crashes' = crashes
      BY <2>1, SameProcess DEF WasRead
    <3>. QED BY <1>1, <2>1, <3>1, ReadIsOnItsWay
  <2>2. (\A p \in Persistent : CoveredUpTo(p))' /\ NothingOvertakes'
    BY <1>1, RecordedIsCovered, OrderKept
  <2>. QED BY <2>1, <2>2 DEF CoverInv
<1>. QED BY <1>2, <1>3 DEF QueueInv

LEMMA QueueInvHolds ==
    ASSUME OneQueue PROVE Spec => [](TypesInv /\ SnapshotInv /\ QueueInv)
<1>1. Init => QueueInv
  <2>. SUFFICES ASSUME Init PROVE QueueInv
    OBVIOUS
  <2>1. /\ parser = "off" /\ InFlight = {} /\ Persistent = {} /\ received = {} /\ lost = {}
        /\ owner = NoThread /\ snapPos = snapView
    BY LogType, ParametersAssumption, RangeOfEmpty DEF Init, D!Init, OM!Init, InFlight, Persistent
  <2>2. OriginInv /\ SurrenderInv /\ OrderInv
    BY <2>1, ParametersAssumption DEF OriginInv, SurrenderInv, OrderInv
  <2>3. CoverInv
    BY <2>1 DEF CoverInv, WasRead, NothingOvertakes, HasEvent
  <2>. QED BY <2>2, <2>3 DEF QueueInv
<1>2. TypesInv /\ SnapshotInv /\ QueueInv /\ [Next]_vars => QueueInv'
  BY QueuePreserved
<1>. QED BY <1>1, <1>2, SnapshotInvHolds, PTL DEF Spec

(* At-least-once delivery through one queue: whatever the log, wherever    *)
(* the process dies and whatever fails, the offset a restart would resume  *)
(* from covers no event that the consumer does not have.                   *)
THEOREM QueueDeliversAtLeastOnce ==
    ASSUME OneQueue PROVE Spec => []AtLeastOnce
<1>1. TypesInv /\ QueueInv => AtLeastOnce
  <2>. SUFFICES ASSUME QueueInv, OM!Stored # NoOffset
                PROVE  /\ OM!Stored \in Positions
                       /\ \A i \in Missing : Log[i].pos > OM!Stored
    BY DEF AtLeastOnce
  <2>1. OM!Stored \in Persistent /\ OM!Stored \in Positions
    BY DEF OM!Stored, Persistent
  <2>. QED BY <2>1 DEF QueueInv, CoverInv, CoveredUpTo
<1>. QED BY <1>1, QueueInvHolds, PTL

(* What the consumer has of one queue is a prefix of the log, retries,     *)
(* partial deliveries, replays after a crash and snapshots included.       *)
THEOREM QueueKeepsLogOrder ==
    ASSUME OneQueue PROVE Spec => []NothingOvertakes
<1>1. QueueInv => NothingOvertakes
  BY DEF QueueInv, CoverInv
<1>. QED BY <1>1, QueueInvHolds, PTL
===============================================================================
