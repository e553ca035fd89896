--------------------- MODULE CDCPipeline_transaction_proofs ---------------------
(***************************************************************************)
(* The pipeline with transaction boundaries, on a source that writes       *)
(* nothing outside transactions: at-least-once delivery, log order and     *)
(* faithful replay, for any number of transactions of any length, any      *)
(* snapshots and crashes.                                                  *)
(*                                                                         *)
(* The argument: only the parser's thread delivers what is not yet behind  *)
(* the offset, and it delivers a transaction at its COMMIT, when no other  *)
(* transaction is open (OpenInv), so that everything read has been         *)
(* delivered or is in that batch (KeptInv).                                *)
(***************************************************************************)
EXTENDS CDCPipeline_proofs

(* The source: every event that is delivered belongs to a transaction that *)
(* starts with its BEGIN, ends with its COMMIT, fits the cap and is over   *)
(* before the next one starts.  An event is known by its key.              *)
InTx(i) == Log[i].tx \in TxIds
Begins(b, tx) == Log[b].type = "tx_begin" /\ Log[b].tx = tx
Commits(c, tx) == Log[c].type = "tx_commit" /\ Log[c].tx = tx
Is(e, i) == e.type = Log[i].type /\ e.pos = Log[i].pos /\ e.pk = Log[i].pk

WholeTransactions ==
    /\ BoundaryEnabled
    /\ SnapshotAtomic
    /\ \A i \in DOMAIN Log :
          /\ Deliverable(i) => InTx(i)
          /\ Log[i].type \in {"tx_begin", "tx_commit"} => Log[i].included
          /\ InTx(i) => \E b \in DOMAIN Log : Begins(b, Log[i].tx)
    /\ \A i, j \in DOMAIN Log :
          /\ Is(Log[i], j) => i = j
          /\ Begins(i, Log[j].tx) => i <= j /\ j - i < TxCap
          /\ Commits(j, Log[i].tx) => i <= j
          /\ InTx(i) /\ InTx(j) /\ Log[i].tx # Log[j].tx /\ i < j =>
                /\ Log[i].pos < Log[j].pos
                /\ \E c \in DOMAIN Log : c < j /\ Commits(c, Log[i].tx)

-----------------------------------------------------------------------------
(* Where the parser is, and whether it goes on reading.                    *)
Unread == IF parser = "dispatch" THEN current ELSE idx
Reading == parser \notin {"off", "dead"}

Past(p) == committed \in Positions /\ p <= committed
Open(tx) == \A c \in DOMAIN Log : Commits(c, tx) => ~WasRead(c)

(* What the parser's thread delivers, and what the others have to.         *)
Delivers == IF owner = "parser" THEN D!Range(batch) ELSE {}
Queued == D!Range(nonTxBuffer) \cup (IF owner = "parser" THEN {} ELSE D!Range(batch))

IsLogged(e) == \E i \in DOMAIN Log : Deliverable(i) /\ Is(e, i)
OfTx(e, tx) == \E i \in DOMAIN Log : WasRead(i) /\ Deliverable(i) /\ Log[i].tx = tx /\ Is(e, i)

ContentInv ==
    /\ snapView = snapPos
    /\ \A e \in received : e \in SnapshotsAtPosition \/ IsLogged(e)
    /\ parser = "off" =>
          Queued \subseteq SnapshotsAtPosition /\ \A tx \in TxIds : pendingTransactions[tx] = <<>>
    /\ parser # "off" => \A e \in Queued : Past(e.pos) /\ IsLogged(e)
    /\ \A tx \in TxIds : \A e \in D!Range(pendingTransactions[tx]) : OfTx(e, tx)
    /\ owner = "parser" =>
          /\ current \in DOMAIN Log
          /\ Log[current].type = "tx_commit"
          /\ \A e \in D!Range(batch) : OfTx(e, Log[current].tx)
          /\ \E e \in D!Range(batch) : Is(e, current)

(* Offsets fall between transactions, like snapshots.                      *)
BoundaryInv ==
    /\ main \in {"snapshot", "flushSnapshot", "complete"} => Boundary(snapPos)
    /\ \A p \in Persistent : Boundary(p)

InLogOrder(s) ==
    \A a, b \in DOMAIN s : a < b =>
        \A i, j \in DOMAIN Log : Is(s[a], i) /\ Is(s[b], j) => i < j
SequenceInv ==
    /\ \A tx \in TxIds : InLogOrder(pendingTransactions[tx])
    /\ owner = "parser" => InLogOrder(batch)

(* A transaction is buffered from its BEGIN to its COMMIT, unless the      *)
(* process started in the middle of it.                                    *)
OpenInv ==
    \A b \in DOMAIN Log : \A tx \in TxIds : Begins(b, tx) =>
        /\ pendingTransactions[tx] # <<>> =>
              Open(tx) /\ Len(pendingTransactions[tx]) <= Unread - b
        /\ Reading /\ WasRead(b) /\ Open(tx) =>
              pendingTransactions[tx] # <<>> \/ Past(Log[b].pos)

Held(i) == \E e \in D!Range(pendingTransactions[Log[i].tx]) \cup Delivers : Is(e, i)
KeptInv ==
    /\ Reading => \A i \in Missing : WasRead(i) => Held(i)
    /\ \A p \in Persistent : CoveredUpTo(p)
    /\ NothingOvertakes

TransactionInv == ContentInv /\ BoundaryInv /\ SequenceInv /\ OpenInv /\ KeptInv

-----------------------------------------------------------------------------
(* The log.                                                                *)
LEMMA LogIndices ==
    \A i \in DOMAIN Log : i \in 1..Len(Log) /\ i \in Nat /\ Log[i].pos \in Nat
<1>1. \A i \in DOMAIN Log : i \in 1..Len(Log) /\ i \in Nat
  BY LogType
<1>2. \A i \in DOMAIN Log : Log[i].pos \in Nat
  BY LogAssumption
<1>. QED BY <1>1, <1>2

LEMMA KeysIdentify ==
    ASSUME WholeTransactions, NEW e, NEW i \in DOMAIN Log, NEW j \in DOMAIN Log, Is(e, i), Is(e, j)
    PROVE  i = j
<1>1. Is(Log[i], j)
  BY DEF Is
<1>. QED BY <1>1 DEF WholeTransactions

LEMMA LogIsMonotonic ==
    ASSUME NEW i \in DOMAIN Log, NEW j \in DOMAIN Log, i <= j
    PROVE  Log[i].pos <= Log[j].pos
<1>1. i \in Nat /\ j \in Nat /\ Log[i].pos \in Nat /\ Log[j].pos \in Nat
  BY LogIndices
<1>2. i < j => Log[i].pos <= Log[j].pos
  BY LogAssumption
<1>3. i < j \/ i = j
  BY <1>1
<1>. QED BY <1>1, <1>2, <1>3

(* A COMMIT is a boundary. *)
LEMMA CommitIsBoundary ==
    ASSUME WholeTransactions, NEW c \in DOMAIN Log, Log[c].type = "tx_commit"
    PROVE  Boundary(Log[c].pos)
<1>. SUFFICES ASSUME NEW tx \in TxIds, NEW i \in DOMAIN Log, NEW j \in DOMAIN Log,
                     Log[i].tx = tx, Log[j].tx = tx, Log[i].pos <= Log[c].pos
              PROVE  Log[j].pos <= Log[c].pos
  BY DEF Boundary
<1>1. /\ i \in Nat /\ j \in Nat /\ c \in Nat
      /\ Log[i].pos \in Nat /\ Log[j].pos \in Nat /\ Log[c].pos \in Nat
  BY LogIndices
<1>2. Log[c].tx \in TxIds
  BY LogEvents, LogType
<1>3. CASE Log[c].tx = tx
  <2>1. j <= c
    BY <1>3 DEF WholeTransactions, Commits
  <2>. QED BY <2>1, LogIsMonotonic
<1>4. CASE Log[c].tx # tx
  <2>1. c < i => Log[c].pos < Log[i].pos
    BY <1>2, <1>4 DEF WholeTransactions, InTx
  <2>2. i < c
    <3>1. i # c /\ ~(c < i)
      BY <1>1, <1>4, <2>1
    <3>. QED BY <1>1, <3>1
  <2>3. PICK d \in DOMAIN Log : d < c /\ Commits(d, tx)
    BY <1>2, <1>4, <2>2 DEF WholeTransactions, InTx
  <2>4. j <= d /\ d \in Nat
    BY <2>3, LogIndices DEF WholeTransactions
  <2>5. j <= c
    BY <1>1, <2>3, <2>4
  <2>. QED BY <2>5, LogIsMonotonic
<1>. QED BY <1>3, <1>4

-----------------------------------------------------------------------------
(* Steps of the parser's thread and of the others.                         *)
LEMMA ReaderMoves ==
    ASSUME TypesInv, [Next]_vars, parser # "off", parser' # "off"
    PROVE  /\ Unread \in Int /\ Unread' \in Int
           /\ parser = "dead" => parser' = "dead"
           /\ owner = "parser" /\ owner' = "parser" => idx' = idx /\ Unread = idx
           /\ \/ /\ SkipEvent \/ Dispatch
                 /\ parser = "dispatch" /\ current \in DOMAIN Log
                 /\ Unread = current /\ Unread' = current + 1 /\ idx' = idx
              \/ ~Dispatch /\ Unread' = Unread
<1>. USE DEF Unread, current
<1>0. idx \in Nat /\ idx' \in Nat /\ OwnerInv
  <2>1. TypesInv'
    BY NextTypes
  <2>. QED BY <2>1, LogType DEF TypesInv, TypeOK
<1>1. CASE UNCHANGED <<parser, idx>> /\ ~Dispatch
  BY <1>0, <1>1 DEF OwnerInv
<1>2. CASE Fetch
  BY <1>0, <1>2 DEF Fetch, Dispatch, OwnerInv
<1>3. CASE ParserExits
  BY <1>0, <1>3 DEF ParserExits, Dispatch, OwnerInv
<1>4. CASE SkipEvent \/ Dispatch
  <2>1. current \in DOMAIN Log /\ parser = "dispatch"
    BY <1>4, LogType DEF SkipEvent, Dispatch, TypesInv, CountInv, TypeOK
  <2>2. parser' \in {"poll", "delivering"} /\ idx' = idx
    BY <1>4 DEF SkipEvent, Dispatch
  <2>. QED BY <1>0, <1>4, <2>1, <2>2 DEF OwnerInv
<1>5. CASE Launch
  BY <1>5 DEF Launch, TypesInv, OwnerInv, Starting
<1>6. CASE Restart
  BY <1>6 DEF Restart
<1>7. CASE DeliveryReturns \/ AcknowledgeRaises \/ DeliveryGivesUp
  <2>1. /\ idx' = idx /\ owner' = NoThread
        /\ parser' = parser \/ (parser = "delivering" /\ parser' \in {"poll", "dead"})
    BY <1>0, <1>7 DEF DeliveryReturns, AcknowledgeRaises, DeliveryGivesUp, Continue, Raise, OwnerInv,
       D!Return, D!GiveUp, D!Release
  <2>2. ~Dispatch
    BY <1>7 DEF DeliveryReturns, AcknowledgeRaises, DeliveryGivesUp, Dispatch, D!Submit, D!Return, D!GiveUp,
       TypesInv, LockInv
  <2>. QED BY <1>0, <2>1, <2>2, ParametersAssumption
<1>8. CASE (StartStep /\ ~Launch) \/ StopParser \/ StopStep
  <2>1. UNCHANGED <<parser, idx>>
    BY <1>8 DEF StartStep, StartWithSnapshot, StartFromOffset, SnapshotRow, SnapshotTaken,
       FlushDelivers, FlushNothing, CompleteSnapshot, SnapshotRecorded, SnapshotNotRecorded,
       StopParser, StopStep, Joined, StopDelivery, pipelineVars, parserVars
  <2>. QED BY <1>1, <1>4, <2>1
<1>9. CASE DeliveryStep \/ Acknowledge \/ OffsetStep \/ UNCHANGED vars
  <2>1. UNCHANGED <<parser, idx>>
    BY <1>9 DEF DeliveryStep, ConsumerTakes, LoopFlushes, Acknowledge, OffsetStep, vars,
       pipelineVars, parserVars
  <2>. QED BY <1>1, <1>4, <2>1
<1>. QED BY <1>2, <1>3, <1>4, <1>5, <1>6, <1>7, <1>8, <1>9 DEF Next, ParserStep

(* The committed position never goes back while the process lives. *)
LEMMA CommittedGrows ==
    ASSUME TypesInv, [Next]_vars, ~Restart, committed \in Positions
    PROVE  committed' \in Positions /\ committed <= committed'
<1>0. OM!TypeOK /\ committed \in Nat
  BY LogType DEF TypesInv, TypeOK
<1>1. ASSUME NEW p \in Positions, committed' \in {committed, OM!Advanced(p)}
      PROVE  committed' \in Positions /\ committed <= committed'
  BY <1>0, <1>1, AdvancedFacts
<1>2. CASE Acknowledge
  <2>1. PICK p \in Positions : OM!Ack(p)
    BY <1>2 DEF Acknowledge
  <2>2. committed' \in {committed, OM!Advanced(p)}
    BY <2>1 DEF OM!Ack, OM!AckDuringSnapshot, OM!AckDeferred, OM!AckFlushing, OM!Record, OM!Flush
  <2>. QED BY <1>1, <2>2
<1>3. CASE CompleteSnapshot
  <2>1. snapPos \in Positions /\ committed' = OM!Advanced(snapPos)
    BY <1>3 DEF CompleteSnapshot, OM!MarkSnapshotComplete, OM!Flush, TypesInv, TypeOK
  <2>. QED BY <1>1, <2>1
<1>4. ASSUME committed' = committed PROVE committed' \in Positions /\ committed <= committed'
  BY <1>0, <1>4
<1>5. CASE StartStep /\ ~CompleteSnapshot
  BY <1>4, <1>5 DEF StartStep, StartWithSnapshot, StartFromOffset, SnapshotRow, SnapshotTaken,
     FlushDelivers, FlushNothing, SnapshotRecorded, SnapshotNotRecorded, Launch, offsetVars,
     OM!MarkSnapshotInProgress, OM!ErrorPropagates
<1>6. CASE StopParser \/ StopStep \/ ParserStep \/ DeliveryStep \/ UNCHANGED vars
  BY <1>4, <1>6 DEF StopParser, StopStep, Joined, StopDelivery, ParserStep, Fetch, ParserExits,
     SkipEvent, Dispatch, DeliveryStep, ConsumerTakes, LoopFlushes, offsetVars, vars
<1>7. CASE OffsetStep \/ DeliveryReturns \/ AcknowledgeRaises \/ DeliveryGivesUp
  BY <1>4, <1>7 DEF OffsetStep, OM!DumpTmp, OM!Replace, OM!StoreFails, DeliveryReturns,
     AcknowledgeRaises, DeliveryGivesUp, OM!ErrorPropagates, offsetVars
<1>. QED BY <1>2, <1>3, <1>5, <1>6, <1>7 DEF Next

LEMMA PastRemains ==
    ASSUME TypesInv, [Next]_vars, ~Restart, NEW p \in Nat, Past(p)
    PROVE  Past(p)'
<1>1. /\ committed \in Nat /\ p <= committed
      /\ committed' \in Nat /\ committed' \in Positions /\ committed <= committed'
  BY CommittedGrows, LogType DEF Past
<1>. QED BY <1>1 DEF Past

-----------------------------------------------------------------------------
(* What submit() does with an event: it opens, extends or ends its         *)
(* transaction, or there is none to join.                                  *)
Opens(e) ==
    /\ e.type = "tx_begin"
    /\ pendingTransactions' = [pendingTransactions EXCEPT ![e.tx] = <<e>>]
    /\ nonTxBuffer' = nonTxBuffer /\ owner' = owner /\ batch' = batch
Joins(e) ==
    /\ e.type \notin {"tx_begin", "tx_commit"}
    /\ pendingTransactions[e.tx] # <<>>
    /\ pendingTransactions' = [pendingTransactions EXCEPT ![e.tx] = Append(pendingTransactions[e.tx], e)]
    /\ nonTxBuffer' = nonTxBuffer /\ owner' = owner /\ batch' = batch
Ends(e) ==
    /\ e.type = "tx_commit"
    /\ pendingTransactions[e.tx] # <<>>
    /\ pendingTransactions' = [pendingTransactions EXCEPT ![e.tx] = <<>>]
    /\ nonTxBuffer' = nonTxBuffer /\ owner' = "parser"
    /\ batch' = Append(pendingTransactions[e.tx], e)
Strays(e) ==
    /\ e.type # "tx_begin"
    /\ pendingTransactions[e.tx] = <<>>
    /\ pendingTransactions' = pendingTransactions
    /\ nonTxBuffer' = Append(nonTxBuffer, e) /\ owner' = owner /\ batch' = batch

LEMMA EventIsSubmitted ==
    ASSUME WholeTransactions, TypesInv, OpenInv, Dispatch
    PROVE  LET e == EnvelopeOf(current, RowCount(current), crashes)
           IN  /\ current \in DOMAIN Log /\ current = idx - 1 /\ Deliverable(current)
               /\ parser = "dispatch" /\ parser' = IF Ends(e) THEN "delivering" ELSE "poll"
               /\ owner = NoThread /\ batch = <<>> /\ received' = received
               /\ UNCHANGED <<idx, main, snapPos, snapView, committed, offsetFile, tmpFile>>
               /\ e \in Envelopes /\ e.tx = Log[current].tx /\ e.tx \in TxIds /\ Is(e, current)
               /\ Opens(e) \/ Joins(e) \/ Ends(e) \/ Strays(e)
<1>. DEFINE e == EnvelopeOf(current, RowCount(current), crashes)
<1>1. /\ current \in 1..Len(Log) /\ current \in DOMAIN Log /\ current = idx - 1
      /\ parser = "dispatch" /\ Deliverable(current)
  BY LogType DEF Dispatch, TypesInv, CountInv, TypeOK, current
<1>2. RowCount(current) \in 0..Len(Log)
  BY LogType DEF RowCount, TypesInv, TypeOK
<1>3. /\ e \in Envelopes /\ e.tx = Log[current].tx /\ e.type = Log[current].type /\ Is(e, current)
  <2>1. e \in Envelopes
    BY <1>1, <1>2, EnvelopeTypes DEF TypesInv, TypeOK
  <2>. QED BY <2>1 DEF EnvelopeOf, Is
<1>4. e.tx \in TxIds
  BY <1>1, <1>3 DEF WholeTransactions, InTx
<1>5. /\ D!Submit("parser", e) /\ owner = NoThread /\ batch = <<>> /\ received' = received
      /\ UNCHANGED <<idx, main, snapPos, snapView, committed, offsetFile, tmpFile>>
      /\ parser' = IF owner' = "parser" THEN "delivering" ELSE "poll"
  BY DEF Dispatch, D!Submit, TypesInv, LockInv, snapshotVars, offsetVars
<1>6. D!Transactional(e)
  BY <1>4 DEF D!Transactional, WholeTransactions
<1>7. ASSUME e.type # "tx_begin", pendingTransactions[e.tx] # <<>>
      PROVE  ~(Len(pendingTransactions[e.tx]) + 1 > TxCap)
  <2>1. PICK b \in DOMAIN Log : Begins(b, e.tx)
    BY <1>1, <1>3, <1>4 DEF WholeTransactions, InTx
  <2>2. /\ b \in Nat /\ current \in Nat /\ TxCap \in Nat
        /\ Len(pendingTransactions[e.tx]) \in Nat
    BY <1>1, <1>4, LogIndices, ParametersAssumption DEF TypesInv, TypeOK, D!TypeOK
  <2>3. current - b < TxCap
    BY <1>1, <1>3, <2>1 DEF WholeTransactions
  <2>4. Len(pendingTransactions[e.tx]) <= current - b
    BY <1>1, <1>4, <1>7, <2>1 DEF OpenInv, Unread
  <2>. QED BY <2>2, <2>3, <2>4
<1>8. ASSUME D!OpenTransaction(e) PROVE Opens(e)
  BY <1>5, <1>8, ParametersAssumption DEF D!OpenTransaction, D!OpensTransaction, D!delivery, Opens
<1>9. ASSUME D!BufferEvent(e) PROVE Strays(e)
  <2>1. e.type # "tx_begin" /\ pendingTransactions[e.tx] = <<>>
    BY <1>6, <1>9 DEF D!BufferEvent, D!OpensTransaction, D!JoinsTransaction
  <2>. QED BY <1>5, <1>9, <2>1 DEF D!BufferEvent, D!delivery, Strays
<1>10. ASSUME D!ExtendTransaction(e) PROVE Joins(e)
  BY <1>5, <1>10 DEF D!ExtendTransaction, D!JoinsTransaction, D!EndsBatch, D!delivery, Joins
<1>11. ASSUME D!DeliverTransaction("parser", e) PROVE Ends(e)
  BY <1>5, <1>7, <1>11 DEF D!DeliverTransaction, D!JoinsTransaction, D!EndsBatch, D!StartDelivery, Ends
<1>12. Opens(e) \/ Joins(e) \/ Ends(e) \/ Strays(e)
  BY <1>5, <1>8, <1>9, <1>10, <1>11 DEF D!Submit
<1>13. Ends(e) <=> owner' = "parser"
  BY <1>5, <1>12, ParametersAssumption DEF Opens, Joins, Ends, Strays
<1>. QED BY <1>1, <1>3, <1>4, <1>5, <1>12, <1>13

(* An event whose BEGIN this process has not read is behind the offset: a  *)
(* process that starts in a transaction starts at the end of it.           *)
LEMMA StrayIsPast ==
    ASSUME WholeTransactions, TypesInv, OpenInv, BoundaryInv, Dispatch,
           Log[current].type # "tx_begin", pendingTransactions[Log[current].tx] = <<>>
    PROVE  Past(Log[current].pos)
<1>. DEFINE tx == Log[current].tx
<1>1. current \in DOMAIN Log /\ Deliverable(current) /\ parser = "dispatch" /\ tx \in TxIds
  BY EventIsSubmitted
<1>2. PICK b \in DOMAIN Log : Begins(b, tx)
  BY <1>1 DEF WholeTransactions, InTx
<1>3. b \in Nat /\ current \in Nat /\ b <= current /\ b # current
  BY <1>1, <1>2, LogIndices DEF WholeTransactions, Begins
<1>4. Reading /\ WasRead(b)
  BY <1>1, <1>3 DEF Reading, WasRead
<1>5. Open(tx)
  <2>. SUFFICES ASSUME NEW c \in DOMAIN Log, Commits(c, tx) PROVE ~WasRead(c)
    BY DEF Open
  <2>1. current <= c /\ c \in Nat
    BY <1>1, LogIndices DEF WholeTransactions
  <2>. QED BY <1>1, <1>3, <2>1 DEF WasRead
<1>6. Past(Log[b].pos)
  BY <1>1, <1>2, <1>4, <1>5 DEF OpenInv
<1>7. committed \in Persistent /\ Boundary(committed)
  BY <1>6 DEF Past, Persistent, BoundaryInv
<1>. QED BY <1>1, <1>2, <1>6, <1>7 DEF Past, Boundary, Begins

(* The other steps submit nothing. *)
LEMMA OtherSteps ==
    ASSUME TypesInv, [Next]_vars, ~Dispatch, ~SnapshotRow, ~Restart
    PROVE  /\ pendingTransactions' = pendingTransactions
           /\ Queued' \subseteq Queued
           /\ \/ owner = "parser" /\ owner' = "parser" /\ batch' = batch
              \/ /\ owner = "parser" /\ owner' = NoThread
                 /\ DeliveryReturns \/ AcknowledgeRaises \/ DeliveryGivesUp
              \/ owner # "parser" /\ owner' # "parser"
<1>0. /\ LockInv /\ OwnerInv /\ TypeOK /\ NoThread # "parser"
      /\ DeliveryKeeps \/ DeliveryGivesUp
  BY DeliverySteps, ParametersAssumption DEF TypesInv
<1>1. /\ pendingTransactions' = pendingTransactions
      /\ \/ UNCHANGED <<nonTxBuffer, batch, owner>>
         \/ /\ owner = NoThread /\ owner' # "parser" /\ batch = <<>>
            /\ batch' = nonTxBuffer /\ nonTxBuffer' = <<>>
         \/ owner # NoThread /\ owner' = NoThread /\ batch' = <<>> /\ nonTxBuffer' = nonTxBuffer
  <2>1. CASE D!Flush("main") \/ D!LoopFlush("loop")
    BY <1>0, <2>1 DEF D!Flush, D!LoopFlush, D!TakeBuffer, D!StartDelivery, LockInv
  <2>2. CASE D!Return \/ DeliveryGivesUp
    BY <1>0, <2>2 DEF D!Return, DeliveryGivesUp, D!GiveUp, D!Release, D!buffers, LockInv
  <2>3. CASE D!Start \/ D!Stop \/ D!LoopTop("loop") \/ D!LoopSkip("loop") \/ D!DeliverOk
             \/ D!DeliverRaises \/ D!Retry \/ (\E p \in Positions : D!Confirm(p))
             \/ UNCHANGED deliveryVars
    BY <2>3 DEF D!Start, D!Stop, D!LoopTop, D!LoopSkip, D!DeliverOk, D!DeliverRaises, D!Retry, D!Confirm,
       D!buffers, D!delivery, D!history, deliveryVars
  <2>. QED BY <1>0, <2>1, <2>2, <2>3 DEF DeliveryKeeps
<1>2. Queued' \subseteq Queued
  BY <1>0, <1>1, RangeOfEmpty DEF Queued
<1>3. ASSUME owner = "parser", owner' # "parser"
      PROVE  owner' = NoThread /\ (DeliveryReturns \/ AcknowledgeRaises \/ DeliveryGivesUp)
  <2>1. stage # "idle" /\ owner # NoThread
    BY <1>0, <1>3 DEF LockInv
  <2>2. DeliveryReturns \/ AcknowledgeRaises \/ DeliveryGivesUp
    BY <1>0, <1>3, <2>1 DEF Next, StartStep, StartWithSnapshot, StartFromOffset, SnapshotTaken,
       FlushDelivers, FlushNothing, CompleteSnapshot, SnapshotRecorded, SnapshotNotRecorded, Launch,
       StopParser, StopStep, Joined, StopDelivery, ParserStep, Fetch, ParserExits, SkipEvent,
       DeliveryStep, ConsumerTakes, LoopFlushes, Acknowledge, OffsetStep, D!Start, D!Stop, D!Flush,
       D!LoopTop, D!LoopSkip, D!LoopFlush, D!DeliverOk, D!DeliverRaises, D!Retry, D!Confirm, D!delivery,
       deliveryVars, vars
  <2>. QED BY <2>2 DEF DeliveryReturns, AcknowledgeRaises, DeliveryGivesUp, D!Return, D!GiveUp, D!Release
<1>. QED BY <1>0, <1>1, <1>2, <1>3

-----------------------------------------------------------------------------
(* What is buffered and delivered comes from where it should.              *)
LEMMA Submitted ==
    ASSUME WholeTransactions, TypesInv, OpenInv, Dispatch
    PROVE  LET e == EnvelopeOf(current, RowCount(current), crashes)
           IN  /\ \A tx \in TxIds \ {e.tx} : pendingTransactions'[tx] = pendingTransactions[tx]
               /\ D!Range(pendingTransactions'[e.tx]) \subseteq D!Range(pendingTransactions[e.tx]) \cup {e}
               /\ Ends(e) => D!Range(batch') = D!Range(pendingTransactions[e.tx]) \cup {e}
               /\ ~Ends(e) => owner' = NoThread /\ batch' = <<>>
               /\ ~Ends(e) /\ ~Strays(e) =>
                     D!Range(pendingTransactions'[e.tx]) =
                        IF Opens(e) THEN {e} ELSE D!Range(pendingTransactions[e.tx]) \cup {e}
               /\ Queued' \subseteq IF Strays(e) THEN Queued \cup {e} ELSE Queued
<1>. DEFINE e == EnvelopeOf(current, RowCount(current), crashes)
<1>1. /\ e \in Envelopes /\ e.tx \in TxIds /\ owner = NoThread /\ batch = <<>>
      /\ Opens(e) \/ Joins(e) \/ Ends(e) \/ Strays(e)
  BY EventIsSubmitted
<1>2. /\ pendingTransactions \in [TxIds -> Seq(Envelopes)] /\ nonTxBuffer \in Seq(Envelopes)
      /\ NoThread # "parser"
  BY ParametersAssumption DEF TypesInv, TypeOK, D!TypeOK
<1>. HIDE DEF e
<1>3. /\ D!Range(Append(pendingTransactions[e.tx], e)) = D!Range(pendingTransactions[e.tx]) \cup {e}
      /\ D!Range(Append(nonTxBuffer, e)) = D!Range(nonTxBuffer) \cup {e}
      /\ D!Range(<<>>) = {}
  BY <1>1, <1>2, RangeAppend, RangeOfEmpty
<1>4. D!Range(<<e>>) = {e}
  <2>1. DOMAIN <<e>> = {1} /\ <<e>>[1] = e
    OBVIOUS
  <2>. QED BY <2>1 DEF D!Range
<1>5. /\ \A tx \in TxIds \ {e.tx} : pendingTransactions'[tx] = pendingTransactions[tx]
      /\ D!Range(pendingTransactions'[e.tx]) \subseteq D!Range(pendingTransactions[e.tx]) \cup {e}
      /\ ~Ends(e) /\ ~Strays(e) =>
            D!Range(pendingTransactions'[e.tx]) =
               IF Opens(e) THEN {e} ELSE D!Range(pendingTransactions[e.tx]) \cup {e}
  <2>1. CASE Opens(e)
    <3>1. pendingTransactions'[e.tx] = <<e>>
      BY <1>1, <1>2, <2>1 DEF Opens
    <3>2. \A tx \in TxIds \ {e.tx} : pendingTransactions'[tx] = pendingTransactions[tx]
      BY <1>1, <1>2, <2>1 DEF Opens
    <3>. QED BY <1>4, <2>1, <3>1, <3>2
  <2>2. CASE Joins(e)
    <3>1. pendingTransactions'[e.tx] = Append(pendingTransactions[e.tx], e)
      BY <1>1, <1>2, <2>2 DEF Joins
    <3>2. \A tx \in TxIds \ {e.tx} : pendingTransactions'[tx] = pendingTransactions[tx]
      BY <1>1, <1>2, <2>2 DEF Joins
    <3>. QED BY <1>3, <2>2, <3>1, <3>2 DEF Opens, Joins
  <2>3. CASE Ends(e)
    <3>1. pendingTransactions'[e.tx] = <<>>
      BY <1>1, <1>2, <2>3 DEF Ends
    <3>2. \A tx \in TxIds \ {e.tx} : pendingTransactions'[tx] = pendingTransactions[tx]
      BY <1>1, <1>2, <2>3 DEF Ends
    <3>. QED BY <1>3, <2>3, <3>1, <3>2
  <2>4. CASE Strays(e)
    BY <2>4 DEF Strays
  <2>. QED BY <1>1, <2>1, <2>2, <2>3, <2>4
<1>6. ~Ends(e) => owner' = NoThread /\ batch' = <<>>
  BY <1>1 DEF Opens, Joins, Strays
<1>7. Ends(e) => D!Range(batch') = D!Range(pendingTransactions[e.tx]) \cup {e}
  BY <1>3 DEF Ends
<1>8. Queued' \subseteq IF Strays(e) THEN Queued \cup {e} ELSE Queued
  <2>1. CASE Ends(e)
    BY <1>1, <1>2, <1>3, <2>1 DEF Ends, Queued
  <2>2. CASE ~Ends(e) /\ ~Strays(e)
    BY <1>1, <1>2, <1>3, <1>6, <2>2 DEF Opens, Joins, Queued
  <2>3. CASE Strays(e)
    <3>1. batch' = <<>> /\ owner' = NoThread /\ nonTxBuffer' = Append(nonTxBuffer, e)
      BY <1>1, <2>3 DEF Strays
    <3>. QED BY <1>1, <1>2, <1>3, <2>3, <3>1 DEF Queued
  <2>. QED BY <2>1, <2>2, <2>3
<1>. QED BY <1>5, <1>6, <1>7, <1>8 DEF e

LEMMA QueuedPreserved ==
    ASSUME WholeTransactions, TypesInv, PhaseInv, ContentInv, BoundaryInv, OpenInv, [Next]_vars
    PROVE  /\ parser' = "off" =>
                 /\ Queued' \subseteq SnapshotsAtPosition
                 /\ \A tx \in TxIds : pendingTransactions'[tx] = <<>>
           /\ parser' # "off" => \A e \in Queued' : Past(e.pos)' /\ IsLogged(e)
<1>0. /\ LockInv /\ OwnerInv /\ TypeOK /\ NoThread # "parser"
  BY ParametersAssumption DEF TypesInv
<1>1. CASE Restart
  <2>1. parser' = "off" /\ nonTxBuffer' = <<>> /\ batch' = <<>>
        /\ pendingTransactions' = [tx \in TxIds |-> <<>>]
    BY <1>1 DEF Restart, D!Restart
  <2>. QED BY <2>1, RangeOfEmpty DEF Queued
<1>2. CASE SnapshotRow
  <2>. DEFINE e == SnapshotEnvelope(snapPos, snapView, snapSent + 1)
  <2>1. /\ e \in Envelopes /\ snapSent + 1 \in 1..SnapshotRows
        /\ nonTxBuffer' = Append(nonTxBuffer, e) /\ batch' = batch /\ owner' = owner
        /\ pendingTransactions' = pendingTransactions
    BY <1>0, <1>2, RowIsBuffered
  <2>2. e \in SnapshotsAtPosition
    <3>1. snapPos \in Positions /\ snapView = snapPos
      BY <1>0 DEF TypeOK, ContentInv
    <3>. QED BY <2>1, <3>1 DEF SnapshotsAtPosition
  <2>3. D!Range(Append(nonTxBuffer, e)) = D!Range(nonTxBuffer) \cup {e}
    BY <1>0, <2>1, RangeAppend DEF TypeOK, D!TypeOK
  <2>4. Queued' \subseteq Queued \cup {e}
    BY <2>1, <2>3 DEF Queued
  <2>5. parser = "off" /\ parser' = "off"
    BY <1>0, <1>2 DEF SnapshotRow, OwnerInv, Starting, parserVars
  <2>. QED BY <2>1, <2>2, <2>4, <2>5 DEF ContentInv
<1>3. CASE Dispatch
  <2>. DEFINE e == EnvelopeOf(current, RowCount(current), crashes)
  <2>1. /\ current \in DOMAIN Log /\ Deliverable(current) /\ parser = "dispatch" /\ parser' # "off"
        /\ e \in Envelopes /\ Is(e, current)
    BY <1>3, EventIsSubmitted
  <2>2. Queued' \subseteq IF Strays(e) THEN Queued \cup {e} ELSE Queued
    BY <1>3, Submitted
  <2>3. ~Restart
    BY <1>3 DEF Dispatch, Restart
  <2>4. ASSUME Strays(e) PROVE Past(e.pos)
    <3>1. Log[current].type # "tx_begin" /\ pendingTransactions[Log[current].tx] = <<>> /\ e.pos = Log[current].pos
      BY <2>1, <2>4 DEF Strays, Is, EnvelopeOf
    <3>. QED BY <1>3, <3>1, StrayIsPast
  <2>5. \A f \in Queued' : Past(f.pos) /\ IsLogged(f) /\ f.pos \in Nat
    <3>1. IsLogged(e) /\ e.pos \in Nat
      BY <2>1, EnvelopeTypes, LogType DEF IsLogged
    <3>2. \A f \in Queued : Past(f.pos) /\ IsLogged(f)
      BY <2>1 DEF ContentInv
    <3>3. \A f \in Queued : f.pos \in Nat
      <4>1. Queued \subseteq Envelopes
        BY <1>0, RangeSubset DEF Queued, TypeOK, D!TypeOK
      <4>. QED BY <4>1, EnvelopeTypes, LogType
    <3>. QED BY <2>2, <2>4, <3>1, <3>2, <3>3
  <2>. QED BY <2>1, <2>3, <2>5, PastRemains
<1>4. CASE ~Restart /\ ~SnapshotRow /\ ~Dispatch
  <2>1. pendingTransactions' = pendingTransactions /\ Queued' \subseteq Queued
    BY <1>4, OtherSteps
  <2>2. CASE parser = "off" /\ parser' = "off"
    BY <2>1, <2>2 DEF ContentInv
  <2>3. CASE parser = "off" /\ parser' # "off"
    <3>1. Launch
      BY <2>3, ReaderSteps
    <3>2. nonTxBuffer = <<>> /\ batch = <<>>
      BY <1>0, <3>1 DEF Launch, PhaseInv, LockInv
    <3>3. Queued = {}
      BY <3>2, RangeOfEmpty DEF Queued
    <3>. QED BY <2>1, <2>3, <3>3
  <2>4. CASE parser # "off" /\ parser' = "off"
    BY <1>4, <2>4, ReaderSteps
  <2>5. CASE parser # "off" /\ parser' # "off"
    <3>1. ASSUME NEW f \in Queued' PROVE Past(f.pos)' /\ IsLogged(f)
      <4>1. Past(f.pos) /\ IsLogged(f)
        BY <2>1, <2>5, <3>1 DEF ContentInv
      <4>2. f.pos \in Nat
        BY <4>1, LogIndices DEF IsLogged, Is
      <4>. QED BY <1>4, <4>1, <4>2, PastRemains
    <3>. QED BY <2>5, <3>1
  <2>. QED BY <2>2, <2>3, <2>4, <2>5
<1>. QED BY <1>1, <1>2, <1>3, <1>4

LEMMA ContentPreserved ==
    ASSUME WholeTransactions, TypesInv, PhaseInv, ContentInv, BoundaryInv, OpenInv, [Next]_vars
    PROVE  ContentInv'
<1>0. /\ LockInv /\ OwnerInv /\ TypeOK /\ NoThread # "parser"
      /\ pendingTransactions \in [TxIds -> Seq(Envelopes)]
  BY ParametersAssumption DEF TypesInv, TypeOK, D!TypeOK
<1>1. snapView' = snapPos'
  BY ViewAtPosition DEF WholeTransactions, ContentInv
<1>2. \A e \in D!Range(batch) : e \in SnapshotsAtPosition \/ IsLogged(e)
  BY DEF ContentInv, OfTx, IsLogged, Queued
<1>3. \A e \in received' : e \in SnapshotsAtPosition \/ IsLogged(e)
  <2>1. received' \subseteq received \cup D!Range(batch)
    <3>1. CASE received' = received
      BY <3>1
    <3>2. CASE \E n \in 0..Len(batch) : received' = received \cup D!Range(SubSeq(batch, 1, n))
      BY <1>0, <3>2, RangeOfPrefix DEF TypeOK, D!TypeOK
    <3>. QED BY <3>1, <3>2, ReceivedSteps
  <2>. QED BY <1>2, <2>1 DEF ContentInv
<1>4. /\ parser' = "off" =>
            /\ Queued' \subseteq SnapshotsAtPosition
            /\ \A tx \in TxIds : pendingTransactions'[tx] = <<>>
      /\ parser' # "off" => \A e \in Queued' : Past(e.pos)' /\ IsLogged(e)
  BY QueuedPreserved
<1>5. ASSUME NEW e, NEW tx, OfTx(e, tx), parser # "off", parser' # "off" PROVE OfTx(e, tx)'
  BY <1>5, ReaderSteps DEF OfTx
<1>6. ASSUME NEW e, NEW tx, OfTx(e, tx) PROVE parser # "off"
  BY <1>6 DEF OfTx, WasRead
<1>7. ASSUME Dispatch
      PROVE  \E e : /\ e = EnvelopeOf(current, RowCount(current), crashes)
                    /\ OfTx(e, e.tx)' /\ parser # "off" /\ parser' # "off"
  <2>0. PICK e : e = EnvelopeOf(current, RowCount(current), crashes)
    OBVIOUS
  <2>1. /\ current \in DOMAIN Log /\ Deliverable(current) /\ e.tx = Log[current].tx /\ Is(e, current)
        /\ parser = "dispatch" /\ parser' \in {"poll", "delivering"} /\ idx' = idx /\ current = idx - 1
        /\ idx \in Nat
    BY <1>7, <2>0, EventIsSubmitted, LogType DEF TypesInv, TypeOK
  <2>2. PICK i \in DOMAIN Log : i = current
    BY <2>1
  <2>3. WasRead(i)'
    BY <2>1, <2>2, LogIndices DEF WasRead
  <2>4. Deliverable(i) /\ Log[i].tx = e.tx /\ Is(e, i)
    BY <2>1, <2>2
  <2>5. OfTx(e, e.tx)'
    BY <2>3, <2>4 DEF OfTx, Is, Deliverable
  <2>. QED BY <2>0, <2>1, <2>5
<1>8. ASSUME NEW tx \in TxIds, NEW e \in D!Range(pendingTransactions'[tx]) PROVE OfTx(e, tx)'
  <2>1. CASE Restart
    <3>1. pendingTransactions'[tx] = <<>>
      BY <2>1 DEF Restart, D!Restart
    <3>. QED BY <1>8, <3>1, RangeOfEmpty
  <2>2. CASE Dispatch
    <3>1. PICK f : /\ f = EnvelopeOf(current, RowCount(current), crashes)
                   /\ OfTx(f, f.tx)' /\ parser # "off" /\ parser' # "off"
      BY <1>7, <2>2
    <3>2. /\ tx # f.tx => pendingTransactions'[tx] = pendingTransactions[tx]
          /\ tx = f.tx => D!Range(pendingTransactions'[tx]) \subseteq D!Range(pendingTransactions[tx]) \cup {f}
      BY <2>2, <3>1, Submitted
    <3>3. CASE e \in D!Range(pendingTransactions[tx])
      BY <1>5, <3>1, <3>3 DEF ContentInv
    <3>4. CASE e = f /\ tx = f.tx
      BY <3>1, <3>4
    <3>. QED BY <1>8, <3>2, <3>3, <3>4
  <2>3. CASE ~Restart /\ ~Dispatch
    <3>1. pendingTransactions' = pendingTransactions
      BY <1>0, <2>3, OtherSteps, RowIsBuffered
    <3>2. OfTx(e, tx) /\ parser # "off"
      BY <1>6, <1>8, <3>1 DEF ContentInv
    <3>3. parser' # "off"
      BY <2>3, <3>2, ReaderSteps
    <3>. QED BY <1>5, <3>2, <3>3
  <2>. QED BY <2>1, <2>2, <2>3
<1>9. ASSUME owner' = "parser"
      PROVE  /\ current' \in DOMAIN Log
             /\ Log[current'].type = "tx_commit"
             /\ \A e \in D!Range(batch') : OfTx(e, Log[current].tx)'
             /\ \E e \in D!Range(batch') : Is(e, current')
  <2>0. ~Restart
    BY <1>0, <1>9 DEF Restart, D!Restart
  <2>1. CASE Dispatch
    <3>1. PICK f : /\ f = EnvelopeOf(current, RowCount(current), crashes)
                   /\ OfTx(f, f.tx)' /\ parser # "off" /\ parser' # "off"
      BY <1>7, <2>1
    <3>2. /\ current \in DOMAIN Log /\ f.tx = Log[current].tx /\ f.tx \in TxIds /\ Is(f, current) /\ idx' = idx
      BY <2>1, <3>1, EventIsSubmitted
    <3>3. Ends(f) /\ D!Range(batch') = D!Range(pendingTransactions[f.tx]) \cup {f}
      BY <1>0, <1>9, <2>1, <3>1, Submitted
    <3>4. \A e \in D!Range(batch') : OfTx(e, f.tx)'
      BY <1>5, <3>1, <3>2, <3>3 DEF ContentInv
    <3>5. current' = current
      BY <3>2 DEF current
    <3>6. Log[current].type = "tx_commit"
      BY <3>2, <3>3 DEF Ends, Is
    <3>. QED BY <3>2, <3>3, <3>4, <3>5, <3>6
  <2>2. CASE ~Dispatch
    <3>1. owner = "parser" /\ batch' = batch
      <4>1. CASE SnapshotRow
        BY <1>0, <1>9, <4>1, RowIsBuffered
      <4>2. CASE ~SnapshotRow
        BY <1>0, <1>9, <2>0, <2>2, <4>2, OtherSteps
      <4>. QED BY <4>1, <4>2
    <3>2. parser # "off" /\ parser' # "off"
      BY <1>0, <2>0, <3>1, ReaderSteps DEF OwnerInv
    <3>3. idx' = idx /\ current' = current
      BY <1>9, <3>1, <3>2, ReaderMoves DEF current
    <3>4. \A e \in D!Range(batch) : OfTx(e, Log[current].tx)'
      <4>1. \A e \in D!Range(batch) : OfTx(e, Log[current].tx)
        BY <3>1 DEF ContentInv
      <4>2. ASSUME NEW e, NEW tx, OfTx(e, tx) PROVE OfTx(e, tx)'
        BY <1>5, <3>2, <4>2
      <4>3. ASSUME NEW e \in D!Range(batch) PROVE OfTx(e, Log[current].tx)'
        <5>. DEFINE tx == Log[current].tx
        <5>1. OfTx(e, tx)
          BY <4>1
        <5>2. tx' = tx
          BY <3>3
        <5>. HIDE DEF tx
        <5>3. OfTx(e, tx)'
          BY <3>2, <5>1, <5>2, ReaderSteps DEF OfTx
        <5>. QED BY <5>2, <5>3 DEF tx
      <4>. QED BY <4>3
    <3>. QED BY <3>1, <3>3, <3>4 DEF ContentInv
  <2>. QED BY <2>1, <2>2
<1>10. \A tx \in TxIds : \A e \in D!Range(pendingTransactions'[tx]) : OfTx(e, tx)'
  BY <1>8
<1>. QED BY <1>1, <1>3, <1>4, <1>9, <1>10 DEF ContentInv, IsLogged, Is, Deliverable

-----------------------------------------------------------------------------
(* Beyond the offset, only the position of a COMMIT is acknowledged.       *)
LEMMA CommitIsAcknowledged ==
    ASSUME WholeTransactions, TypesInv, PhaseInv, ContentInv, NEW p \in Positions, D!Confirm(p),
           ~snapshotModeActive, committed \in Positions => committed < p
    PROVE  /\ owner = "parser" /\ parser = "delivering" /\ stage = "delivered"
           /\ current \in DOMAIN Log /\ Log[current].type = "tx_commit" /\ p = Log[current].pos
<1>1. /\ stage = "delivered" /\ p \in Nat /\ OwnerInv
      /\ \E e \in D!Range(batch) : e.pos = p
      /\ \A e \in D!Range(batch) : e.pos <= p
  BY LogType DEF D!Confirm, D!MaxPosition, TypesInv
<1>2. PICK e \in D!Range(batch) : e.pos = p
  BY <1>1
<1>3. parser # "off"
  BY <1>2 DEF PhaseInv, InFlight
<1>4. owner = "parser"
  <2>. SUFFICES ASSUME owner # "parser" PROVE FALSE
    OBVIOUS
  <2>1. Past(p)
    BY <1>2, <1>3 DEF ContentInv, Queued
  <2>2. committed \in Nat /\ p <= committed /\ committed < p
    BY <2>1, LogType DEF Past
  <2>. QED BY <1>1, <2>2
<1>5. current \in DOMAIN Log /\ Log[current].type = "tx_commit"
  BY <1>4 DEF ContentInv
<1>6. p <= Log[current].pos
  <2>1. PICK i \in DOMAIN Log : Log[i].tx = Log[current].tx /\ Is(e, i)
    BY <1>2, <1>4 DEF ContentInv, OfTx
  <2>2. i <= current
    BY <1>5, <2>1 DEF WholeTransactions, Commits
  <2>. QED BY <1>2, <1>5, <2>1, <2>2, LogIsMonotonic DEF Is
<1>7. Log[current].pos <= p
  <2>1. PICK f \in D!Range(batch) : Is(f, current)
    BY <1>4 DEF ContentInv
  <2>. QED BY <1>1, <2>1 DEF Is
<1>8. Log[current].pos \in Nat
  BY <1>5, LogIndices
<1>. QED BY <1>1, <1>4, <1>5, <1>6, <1>7, <1>8 DEF OwnerInv

LEMMA SnapshotPhase ==
    ASSUME TypesInv, [Next]_vars, main' \in {"snapshot", "flushSnapshot", "complete"}
    PROVE  \/ StartWithSnapshot
           \/ main \in {"snapshot", "flushSnapshot", "complete"} /\ snapPos' = snapPos
<1>1. CASE StartStep
  BY <1>1 DEF StartStep, StartFromOffset, SnapshotRow, SnapshotTaken, FlushDelivers, FlushNothing,
     AfterFlush, CompleteSnapshot, SnapshotRecorded, SnapshotNotRecorded, Launch, snapshotVars, pipelineVars
<1>2. CASE StopParser \/ StopStep \/ Restart
  BY <1>2 DEF StopParser, StopStep, Joined, StopDelivery, Restart
<1>3. CASE ParserStep \/ DeliveryStep \/ Acknowledge \/ OffsetStep \/ UNCHANGED vars
  BY <1>3 DEF ParserStep, Fetch, ParserExits, SkipEvent, Dispatch, DeliveryStep, ConsumerTakes,
     LoopFlushes, Acknowledge, OffsetStep, snapshotVars, pipelineVars, vars
<1>4. CASE DeliveryReturns \/ AcknowledgeRaises \/ DeliveryGivesUp
  BY <1>4 DEF DeliveryReturns, AcknowledgeRaises, DeliveryGivesUp, Continue, Raise, AfterFlush,
     snapshotVars, TypesInv, OwnerInv
<1>. QED BY <1>1, <1>2, <1>3, <1>4 DEF Next

LEMMA BoundaryPreserved ==
    ASSUME WholeTransactions, TypesInv, PhaseInv, ContentInv, BoundaryInv, [Next]_vars
    PROVE  BoundaryInv'
<1>1. ASSUME main' \in {"snapshot", "flushSnapshot", "complete"} PROVE Boundary(snapPos')
  <2>1. CASE StartWithSnapshot
    BY <2>1 DEF StartWithSnapshot
  <2>2. CASE main \in {"snapshot", "flushSnapshot", "complete"} /\ snapPos' = snapPos
    BY <2>2 DEF BoundaryInv
  <2>. QED BY <1>1, <2>1, <2>2, SnapshotPhase
<1>2. ASSUME NEW p \in Persistent' PROVE Boundary(p)
  <2>1. CASE p \in Persistent
    BY <2>1 DEF BoundaryInv
  <2>2. CASE p \notin Persistent /\ CompleteSnapshot /\ p = snapPos
    BY <2>2 DEF BoundaryInv, CompleteSnapshot
  <2>3. CASE p \notin Persistent /\ Acknowledge /\ D!Confirm(p) /\ ~snapshotModeActive
    <3>1. p \in Positions /\ (committed \in Positions => committed < p)
      BY <2>3, Recorded
    <3>. QED BY <2>3, <3>1, CommitIsAcknowledged, CommitIsBoundary
  <2>. QED BY <2>1, <2>2, <2>3, Recorded
<1>3. \A p : Boundary(p)' <=> Boundary(p)
  BY DEF Boundary
<1>. QED BY <1>1, <1>2 DEF BoundaryInv, Boundary

-----------------------------------------------------------------------------
(* Buffers and batches of transactions are in log order.                   *)
LEMMA AppendInLogOrder ==
    ASSUME WholeTransactions, NEW s \in Seq(Envelopes), InLogOrder(s), NEW e \in Envelopes,
           NEW n \in DOMAIN Log, Is(e, n),
           \A f \in D!Range(s) : \E i \in DOMAIN Log : i < n /\ Is(f, i)
    PROVE  InLogOrder(Append(s, e))
<1>1. Len(s) \in Nat /\ DOMAIN s = 1..Len(s)
  OBVIOUS
<1>2. /\ DOMAIN Append(s, e) = 1..Len(s) + 1
      /\ \A k \in 1..Len(s) : Append(s, e)[k] = s[k]
      /\ Append(s, e)[Len(s) + 1] = e
  BY <1>1
<1>. SUFFICES ASSUME NEW a \in 1..Len(s) + 1, NEW b \in 1..Len(s) + 1, a < b,
                     NEW i \in DOMAIN Log, NEW j \in DOMAIN Log,
                     Is(Append(s, e)[a], i), Is(Append(s, e)[b], j)
              PROVE  i < j
  BY <1>2 DEF InLogOrder
<1>3. a \in 1..Len(s)
  BY <1>1
<1>4. CASE b \in 1..Len(s)
  BY <1>1, <1>2, <1>3, <1>4 DEF InLogOrder
<1>5. CASE b = Len(s) + 1
  <2>1. Append(s, e)[a] \in D!Range(s) /\ Append(s, e)[b] = e
    BY <1>1, <1>2, <1>3, <1>5 DEF D!Range
  <2>2. PICK k \in DOMAIN Log : k < n /\ Is(Append(s, e)[a], k)
    BY <2>1
  <2>3. k = i /\ n = j
    BY <2>1, <2>2, KeysIdentify
  <2>. QED BY <2>2, <2>3
<1>. QED BY <1>1, <1>4, <1>5

LEMMA SequencePreserved ==
    ASSUME WholeTransactions, TypesInv, ContentInv, SequenceInv, OpenInv, [Next]_vars
    PROVE  SequenceInv'
<1>0. /\ NoThread # "parser" /\ InLogOrder(<<>>)
      /\ pendingTransactions \in [TxIds -> Seq(Envelopes)]
  BY ParametersAssumption DEF TypesInv, TypeOK, D!TypeOK, InLogOrder
<1>1. CASE Restart
  <2>1. owner' # "parser" /\ pendingTransactions' = [tx \in TxIds |-> <<>>]
    BY <1>0, <1>1 DEF Restart, D!Restart
  <2>. QED BY <1>0, <2>1 DEF SequenceInv, InLogOrder, Is
<1>2. CASE Dispatch
  <2>1. PICK e \in Envelopes :
           /\ e = EnvelopeOf(current, RowCount(current), crashes)
           /\ current \in DOMAIN Log /\ parser = "dispatch" /\ e.tx \in TxIds /\ Is(e, current)
           /\ owner = NoThread
           /\ Opens(e) \/ Joins(e) \/ Ends(e) \/ Strays(e)
    BY <1>2, EventIsSubmitted
  <2>2. \A f \in D!Range(pendingTransactions[e.tx]) : \E i \in DOMAIN Log : i < current /\ Is(f, i)
    BY <2>1 DEF ContentInv, OfTx, WasRead
  <2>3. InLogOrder(Append(pendingTransactions[e.tx], e))
    BY <1>0, <2>1, <2>2, AppendInLogOrder DEF SequenceInv
  <2>4. InLogOrder(<<e>>)
    <3>1. DOMAIN <<e>> = {1}
      OBVIOUS
    <3>2. \A a, b \in {1} : ~(a < b)
      OBVIOUS
    <3>. QED BY <3>1, <3>2 DEF InLogOrder
  <2>5. \A tx \in TxIds : pendingTransactions'[tx] \in {pendingTransactions[tx], <<>>, <<e>>}
                          \/ (tx = e.tx /\ pendingTransactions'[tx] = Append(pendingTransactions[e.tx], e))
    BY <1>0, <2>1 DEF Opens, Joins, Ends, Strays
  <2>6. owner' = "parser" => batch' = Append(pendingTransactions[e.tx], e)
    BY <1>0, <2>1 DEF Opens, Joins, Ends, Strays
  <2>7. \A tx \in TxIds : InLogOrder(pendingTransactions'[tx])
    BY <1>0, <2>3, <2>4, <2>5 DEF SequenceInv
  <2>8. owner' = "parser" => InLogOrder(batch')
    BY <2>3, <2>6
  <2>. QED BY <2>7, <2>8 DEF SequenceInv, InLogOrder, Is
<1>3. CASE ~Restart /\ ~Dispatch
  <2>1. pendingTransactions' = pendingTransactions /\ (owner' = "parser" => owner = "parser" /\ batch' = batch)
    <3>1. CASE SnapshotRow
      BY <3>1, RowIsBuffered DEF TypesInv
    <3>2. CASE ~SnapshotRow
      BY <1>0, <1>3, <3>2, OtherSteps
    <3>. QED BY <3>1, <3>2
  <2>. QED BY <2>1 DEF SequenceInv, InLogOrder, Is
<1>. QED BY <1>1, <1>2, <1>3

-----------------------------------------------------------------------------
(* From BEGIN to COMMIT.                                                   *)
LEMMA ReadOn ==
    ASSUME TypesInv, [Next]_vars, parser # "off", parser' # "off", NEW i \in DOMAIN Log
    PROVE  WasRead(i)' <=> WasRead(i) \/ (i = current /\ (SkipEvent \/ Dispatch))
<1>1. /\ Unread \in Int /\ i \in Nat
      /\ WasRead(i) <=> i < Unread
      /\ WasRead(i)' <=> i < Unread'
  BY ReaderMoves, LogIndices DEF WasRead, Unread
<1>2. CASE SkipEvent \/ Dispatch
  <2>1. Unread = current /\ Unread' = current + 1
    <3>1. parser = "dispatch" /\ parser' \in {"poll", "delivering"} /\ idx' = idx /\ idx \in Nat
      BY <1>2, LogType DEF SkipEvent, Dispatch, TypesInv, TypeOK
    <3>. QED BY <3>1 DEF Unread, current
  <2>. QED BY <1>1, <1>2, <2>1
<1>3. CASE ~SkipEvent /\ ~Dispatch
  <2>1. Unread' = Unread
    BY <1>3, ReaderMoves
  <2>. QED BY <1>1, <1>3, <2>1
<1>. QED BY <1>2, <1>3

LEMMA OpenWhileReading ==
    ASSUME WholeTransactions, TypesInv, ContentInv, BoundaryInv, OpenInv, Dispatch, [Next]_vars,
           NEW b \in DOMAIN Log, NEW tx \in TxIds, Begins(b, tx)
    PROVE  /\ pendingTransactions'[tx] # <<>> =>
                 Open(tx)' /\ Len(pendingTransactions'[tx]) <= Unread' - b
           /\ WasRead(b)' /\ Open(tx)' =>
                 pendingTransactions'[tx] # <<>> \/ Past(Log[b].pos)'
<1>1. PICK e \in Envelopes :
         /\ e = EnvelopeOf(current, RowCount(current), crashes)
         /\ current \in DOMAIN Log /\ current = idx - 1 /\ parser = "dispatch" /\ parser' # "off"
         /\ e.tx = Log[current].tx /\ e.tx \in TxIds /\ e.type = Log[current].type
         /\ Opens(e) \/ Joins(e) \/ Ends(e) \/ Strays(e)
  BY EventIsSubmitted DEF Is
<1>2. /\ b \in Nat /\ current \in Nat /\ Log[b].pos \in Nat
      /\ pendingTransactions \in [TxIds -> Seq(Envelopes)]
      /\ Len(pendingTransactions[tx]) \in Nat
      /\ Unread = current /\ Unread' = current + 1
  <2>1. parser' \in {"poll", "delivering"} /\ idx' = idx /\ idx \in Nat
    BY LogType DEF Dispatch, TypesInv, TypeOK
  <2>2. Unread = current /\ Unread' = current + 1
    BY <1>1, <2>1 DEF Unread, current
  <2>3. pendingTransactions \in [TxIds -> Seq(Envelopes)]
    BY DEF TypesInv, TypeOK, D!TypeOK
  <2>. QED BY <1>1, <2>2, <2>3, LogIndices
<1>3. \A i \in DOMAIN Log : WasRead(i)' <=> WasRead(i) \/ i = current
  BY <1>1, ReadOn
<1>4. Open(tx)' <=> Open(tx) /\ ~Commits(current, tx)
  BY <1>1, <1>3 DEF Open, Commits
<1>5. /\ pendingTransactions[tx] # <<>> => Open(tx) /\ Len(pendingTransactions[tx]) <= current - b
      /\ WasRead(b) /\ Open(tx) => pendingTransactions[tx] # <<>> \/ Past(Log[b].pos)
  BY <1>1, <1>2 DEF OpenInv, Reading
<1>6. ~Restart
  BY DEF Dispatch, Restart
<1>7. Past(Log[b].pos) => Past(Log[b].pos)'
  BY <1>2, <1>6, PastRemains
<1>8. CASE tx # e.tx
  <2>1. pendingTransactions'[tx] = pendingTransactions[tx]
    BY <1>1, <1>2, <1>8 DEF Opens, Joins, Ends, Strays
  <2>2. ~Commits(current, tx) /\ b # current
    BY <1>1, <1>8 DEF Commits, Begins
  <2>. QED BY <1>2, <1>3, <1>4, <1>5, <1>7, <2>1, <2>2
<1>9. CASE tx = e.tx /\ Opens(e)
  <2>1. pendingTransactions'[tx] = <<e>>
    BY <1>2, <1>9 DEF Opens
  <2>2. b = current
    <3>1. b <= current /\ current <= b
      BY <1>1, <1>9 DEF WholeTransactions, Begins, Opens
    <3>. QED BY <1>2, <3>1
  <2>3. Open(tx)
    <3>. SUFFICES ASSUME NEW c \in DOMAIN Log, Commits(c, tx) PROVE ~WasRead(c)
      BY DEF Open
    <3>1. current <= c /\ c \in Nat
      BY <1>1, <1>9, <2>2, LogIndices DEF WholeTransactions, Commits
    <3>. QED BY <1>1, <1>2, <3>1 DEF WasRead
  <2>4. ~Commits(current, tx)
    BY <1>1, <1>9 DEF Opens, Commits
  <2>5. Len(<<e>>) <= Unread' - b /\ <<e>> # <<>>
    BY <1>2, <2>2
  <2>. QED BY <1>4, <2>1, <2>3, <2>4, <2>5
<1>10. CASE tx = e.tx /\ Joins(e)
  <2>1. pendingTransactions'[tx] = Append(pendingTransactions[tx], e) /\ pendingTransactions[tx] # <<>>
    BY <1>2, <1>10 DEF Joins
  <2>2. Len(pendingTransactions'[tx]) = Len(pendingTransactions[tx]) + 1 /\ pendingTransactions'[tx] # <<>>
    BY <1>1, <1>2, <2>1
  <2>3. ~Commits(current, tx)
    BY <1>1, <1>10 DEF Joins, Commits
  <2>. QED BY <1>2, <1>4, <1>5, <2>1, <2>2, <2>3
<1>11. CASE tx = e.tx /\ Ends(e)
  <2>1. pendingTransactions'[tx] = <<>>
    BY <1>2, <1>11 DEF Ends
  <2>2. Commits(current, tx)
    BY <1>1, <1>11 DEF Ends, Commits
  <2>. QED BY <1>4, <2>1, <2>2
<1>12. CASE tx = e.tx /\ Strays(e)
  <2>1. pendingTransactions'[tx] = <<>> /\ pendingTransactions[tx] = <<>>
    BY <1>12 DEF Strays
  <2>2. b # current
    BY <1>1, <1>12 DEF Begins, Strays
  <2>. QED BY <1>3, <1>4, <1>5, <1>7, <2>1, <2>2
<1>. QED BY <1>1, <1>8, <1>9, <1>10, <1>11, <1>12

LEMMA OpenPreserved ==
    ASSUME WholeTransactions, TypesInv, PhaseInv, ContentInv, BoundaryInv, OpenInv, [Next]_vars
    PROVE  OpenInv'
<1>0. pendingTransactions \in [TxIds -> Seq(Envelopes)]
  BY DEF TypesInv, TypeOK, D!TypeOK
<1>. SUFFICES ASSUME NEW b \in DOMAIN Log, NEW tx \in TxIds, Begins(b, tx)
              PROVE  /\ pendingTransactions'[tx] # <<>> =>
                           Open(tx)' /\ Len(pendingTransactions'[tx]) <= Unread' - b
                     /\ Reading' /\ WasRead(b)' /\ Open(tx)' =>
                           pendingTransactions'[tx] # <<>> \/ Past(Log[b].pos)'
  BY DEF OpenInv, Begins
<1>1. CASE Restart
  <2>1. parser' = "off" /\ pendingTransactions' = [t \in TxIds |-> <<>>]
    BY <1>1 DEF Restart, D!Restart
  <2>. QED BY <2>1 DEF Reading
<1>2. CASE Dispatch
  BY <1>2, OpenWhileReading
<1>3. CASE ~Restart /\ ~Dispatch
  <2>1. pendingTransactions' = pendingTransactions
    <3>1. CASE SnapshotRow
      BY <3>1, RowIsBuffered DEF TypesInv
    <3>2. CASE ~SnapshotRow
      BY <1>3, <3>2, OtherSteps
    <3>. QED BY <3>1, <3>2
  <2>2. CASE parser = "off" /\ parser' = "off"
    BY <2>1, <2>2 DEF ContentInv, Reading
  <2>3. CASE parser = "off" /\ parser' # "off"
    <3>1. Launch
      BY <2>3, ReaderSteps
    <3>2. ASSUME WasRead(b)' PROVE Past(Log[b].pos)'
      <4>1. b < FirstIndex /\ committed' = committed
        BY <3>1, <3>2 DEF Launch, WasRead, offsetVars
      <4>2. committed \in Positions /\ Log[b].pos <= committed
        BY <4>1, BeforeFirstIndex DEF TypesInv
      <4>. QED BY <4>1, <4>2 DEF Past
    <3>. QED BY <2>1, <2>3, <3>2 DEF ContentInv
  <2>4. CASE parser # "off"
    <3>1. parser' # "off"
      BY <1>3, <2>4, ReaderSteps
    <3>2. Deliverable(b) /\ \A c \in DOMAIN Log : Commits(c, tx) => Deliverable(c)
      BY DEF WholeTransactions, Deliverable, Begins, Commits
    <3>3. Open(tx)' <=> Open(tx)
      BY <1>3, <2>4, <3>1, <3>2, ReadOn DEF Open, SkipEvent, Commits
    <3>4. WasRead(b)' => WasRead(b)
      BY <1>3, <2>4, <3>1, <3>2, ReadOn DEF SkipEvent
    <3>5. Reading' => Reading
      BY <2>4, <3>1, ReaderMoves DEF Reading
    <3>6. Past(Log[b].pos) => Past(Log[b].pos)'
      BY <1>3, LogIndices, PastRemains
    <3>7. Unread' >= Unread /\ Unread \in Int /\ Unread' \in Int /\ b \in Nat
      BY <2>4, <3>1, ReaderMoves, LogIndices
    <3>8. Len(pendingTransactions[tx]) \in Nat
      BY <1>0
    <3>. QED BY <2>1, <3>3, <3>4, <3>5, <3>6, <3>7, <3>8 DEF OpenInv
  <2>. QED BY <2>2, <2>3, <2>4
<1>. QED BY <1>1, <1>2, <1>3

-----------------------------------------------------------------------------
(* What was read is buffered or being delivered.                           *)
LEMMA MissingIsNowhere ==
    ASSUME NEW i \in Missing, NEW e, Is(e, i)
    PROVE  e \notin received
BY DEF Missing, Covered, HasEvent, Is

LEMMA ReadIsHeld ==
    ASSUME WholeTransactions, TypesInv, PhaseInv, ContentInv, BoundaryInv, OpenInv, KeptInv, [Next]_vars,
           Reading', NEW i \in Missing', WasRead(i)'
    PROVE  Held(i)'
<1>0. /\ LockInv /\ OwnerInv /\ TypeOK /\ parser' # "off" /\ NoThread # "parser"
      /\ received \subseteq received'
  BY DeliverySteps, NothingDropped, ParametersAssumption DEF TypesInv, Reading
<1>1. /\ i \in DOMAIN Log /\ i \in Missing /\ Deliverable(i) /\ i \in Nat
      /\ Log[i].tx \in TxIds
  BY <1>0, CoverageGrows, LogIndices DEF Missing, WholeTransactions, InTx
<1>2. \A e : Is(e, i) => e \notin received'
  <2>1. \A e : Is(e, i) => Is(e, i)' /\ (e \notin received)'
    BY MissingIsNowhere DEF Missing, Covered, HasEvent, Is
  <2>. QED BY <2>1
<1>3. CASE parser = "off"
  <2>1. Launch
    BY <1>0, <1>3, ReaderSteps
  <2>2. i < FirstIndex
    BY <2>1 DEF Launch, WasRead
  <2>3. committed \in Persistent /\ committed \in Nat /\ Log[i].pos \in Nat /\ Log[i].pos <= committed
    BY <1>0, <1>1, <2>2, BeforeFirstIndex, LogType, LogIndices DEF Persistent
  <2>4. Log[i].pos > committed
    BY <1>1, <2>3 DEF KeptInv, CoveredUpTo
  <2>. QED BY <2>3, <2>4
<1>4. CASE parser # "off" /\ Dispatch
  <2>1. PICK f \in Envelopes :
           /\ f = EnvelopeOf(current, RowCount(current), crashes)
           /\ current \in DOMAIN Log /\ parser = "dispatch" /\ owner = NoThread
           /\ f.tx = Log[current].tx /\ f.tx \in TxIds /\ f.type = Log[current].type /\ Is(f, current)
           /\ f.pos = Log[current].pos
           /\ Opens(f) \/ Joins(f) \/ Ends(f) \/ Strays(f)
    BY <1>4, EventIsSubmitted DEF Is
  <2>2. /\ \A tx \in TxIds \ {f.tx} : pendingTransactions'[tx] = pendingTransactions[tx]
        /\ Ends(f) => D!Range(batch') = D!Range(pendingTransactions[f.tx]) \cup {f}
        /\ ~Ends(f) /\ ~Strays(f) =>
              D!Range(pendingTransactions'[f.tx]) =
                 IF Opens(f) THEN {f} ELSE D!Range(pendingTransactions[f.tx]) \cup {f}
    BY <1>4, <2>1, Submitted
  <2>3. CASE WasRead(i)
    <3>1. PICK e \in D!Range(pendingTransactions[Log[i].tx]) : Is(e, i)
      <4>1. Held(i) /\ Delivers = {}
        BY <1>0, <1>1, <2>1, <2>3 DEF KeptInv, Reading, Delivers
      <4>. QED BY <4>1 DEF Held
    <3>2. CASE Log[i].tx # f.tx
      BY <1>1, <2>2, <3>1, <3>2 DEF Held, Is
    <3>3. CASE Log[i].tx = f.tx
      <4>1. ~Opens(f)
        <5>1. ASSUME Opens(f) PROVE current <= i
          BY <1>1, <2>1, <3>3, <5>1 DEF Opens, WholeTransactions, Begins
        <5>2. i < current /\ current \in Nat
          BY <2>1, <2>3, LogIndices DEF WasRead
        <5>. QED BY <1>1, <5>1, <5>2
      <4>2. ~Strays(f)
        BY <3>1, <3>3, RangeOfEmpty DEF Strays
      <4>3. CASE Joins(f)
        <5>1. e \in D!Range(pendingTransactions'[Log[i].tx])
          BY <2>2, <3>1, <3>3, <4>1, <4>2, <4>3 DEF Joins, Ends
        <5>. QED BY <3>1, <5>1 DEF Held, Is
      <4>4. CASE Ends(f)
        <5>1. e \in Delivers'
          BY <2>2, <3>1, <3>3, <4>4 DEF Ends, Delivers
        <5>. QED BY <3>1, <5>1 DEF Held, Is
      <4>. QED BY <2>1, <4>1, <4>2, <4>3, <4>4
    <3>. QED BY <3>2, <3>3
  <2>4. CASE i = current
    <3>1. ~Strays(f)
      <4>1. SUFFICES ASSUME Strays(f) PROVE FALSE
        OBVIOUS
      <4>2. Past(Log[current].pos)
        BY <1>4, <2>1, <4>1, StrayIsPast DEF Strays
      <4>3. committed \in Persistent /\ committed \in Nat /\ Log[i].pos <= committed /\ Log[i].pos \in Nat
        BY <1>1, <2>4, <4>2, LogType, LogIndices DEF Past, Persistent
      <4>4. Log[i].pos > committed
        BY <1>1, <4>3 DEF KeptInv, CoveredUpTo
      <4>. QED BY <4>3, <4>4
    <3>2. CASE Ends(f)
      <4>1. f \in Delivers'
        BY <2>2, <3>2 DEF Ends, Delivers
      <4>. QED BY <2>1, <2>4, <4>1 DEF Held, Is
    <3>3. CASE ~Ends(f)
      <4>1. f \in D!Range(pendingTransactions'[Log[i].tx])
        BY <2>1, <2>2, <2>4, <3>1, <3>3
      <4>. QED BY <2>1, <2>4, <4>1 DEF Held, Is
    <3>. QED BY <3>2, <3>3
  <2>. QED BY <1>0, <1>1, <1>4, <2>3, <2>4, ReadOn
<1>5. CASE parser # "off" /\ ~Dispatch
  <2>1. WasRead(i) /\ Reading
    <3>1. ~(i = current /\ SkipEvent)
      BY <1>1 DEF SkipEvent
    <3>. QED BY <1>0, <1>1, <1>5, <3>1, ReadOn, ReaderMoves DEF Reading
  <2>2. PICK e : e \in D!Range(pendingTransactions[Log[i].tx]) \cup Delivers /\ Is(e, i)
    BY <1>1, <2>1 DEF KeptInv, Held
  <2>3. CASE SnapshotRow
    <3>1. UNCHANGED <<pendingTransactions, owner, batch>>
      BY <1>0, <2>3, RowIsBuffered
    <3>. QED BY <2>2, <3>1 DEF Held, Delivers, Is
  <2>4. CASE ~SnapshotRow
    <3>0. ~Restart
      BY <1>0 DEF Restart
    <3>1. pendingTransactions' = pendingTransactions
      BY <1>5, <2>4, <3>0, OtherSteps
    <3>2. CASE e \in D!Range(pendingTransactions[Log[i].tx])
      BY <2>2, <3>1, <3>2 DEF Held, Is
    <3>3. CASE e \in Delivers /\ owner' = "parser"
      <4>1. batch' = batch
        BY <1>0, <1>5, <2>4, <3>0, <3>3, OtherSteps DEF Delivers
      <4>. QED BY <2>2, <3>3, <4>1 DEF Held, Delivers, Is
    <3>4. CASE e \in Delivers /\ owner' # "parser"
      <4>1. owner = "parser" /\ e \in D!Range(batch)
        BY <3>4 DEF Delivers
      <4>2. DeliveryReturns \/ AcknowledgeRaises \/ DeliveryGivesUp
        BY <1>0, <1>5, <2>4, <3>0, <3>4, <4>1, OtherSteps
      <4>3. ~DeliveryGivesUp
        BY <4>1 DEF DeliveryGivesUp, Raise, Reading
      <4>4. D!Range(batch) \subseteq received
        BY <1>0, <4>2, <4>3 DEF DeliveryReturns, AcknowledgeRaises, D!Return, LockInv
      <4>. QED BY <1>1, <2>2, <4>1, <4>4, MissingIsNowhere
    <3>. QED BY <2>2, <3>2, <3>3, <3>4
  <2>. QED BY <2>3, <2>4
<1>. QED BY <1>3, <1>4, <1>5

(* A transaction is delivered when no other one is open: what the consumer *)
(* misses up to its COMMIT is in the batch.                                *)
LEMMA BatchHasTheRest ==
    ASSUME WholeTransactions, TypesInv, ContentInv, OpenInv, KeptInv, owner = "parser",
           NEW i \in Missing, i <= current
    PROVE  \E e \in D!Range(batch) : Is(e, i)
<1>1. /\ parser = "delivering" /\ Reading
      /\ current \in DOMAIN Log /\ Log[current].type = "tx_commit" /\ Log[current].tx \in TxIds
  BY LogType, LogEvents DEF TypesInv, OwnerInv, ContentInv, Reading
<1>2. i \in DOMAIN Log /\ Deliverable(i) /\ InTx(i)
  BY DEF Missing, WholeTransactions
<1>3. \A c \in DOMAIN Log : c <= current => WasRead(c)
  <2>1. idx \in Nat /\ \A c \in DOMAIN Log : c \in Nat
    BY LogType, LogIndices DEF TypesInv, TypeOK
  <2>. QED BY <1>1, <2>1 DEF WasRead, current
<1>4. PICK e : e \in D!Range(pendingTransactions[Log[i].tx]) \cup Delivers /\ Is(e, i)
  BY <1>1, <1>2, <1>3 DEF KeptInv, Held
<1>5. CASE e \in D!Range(pendingTransactions[Log[i].tx])
  <2>1. pendingTransactions[Log[i].tx] # <<>>
    BY <1>5, RangeOfEmpty
  <2>2. Open(Log[i].tx)
    BY <1>2, <2>1 DEF WholeTransactions, OpenInv, InTx
  <2>3. \E c \in DOMAIN Log : c <= current /\ Commits(c, Log[i].tx)
    <3>1. CASE Log[i].tx = Log[current].tx
      BY <1>1, <3>1, LogIndices DEF Commits
    <3>2. CASE Log[i].tx # Log[current].tx
      <4>1. i < current /\ current \in Nat
        BY <1>1, <1>2, <3>2, LogIndices
      <4>2. PICK c \in DOMAIN Log : c < current /\ Commits(c, Log[i].tx)
        BY <1>1, <1>2, <3>2, <4>1 DEF WholeTransactions, InTx
      <4>3. c <= current
        BY <4>1, <4>2, LogIndices
      <4>. QED BY <4>2, <4>3
    <3>. QED BY <3>1, <3>2
  <2>. QED BY <1>3, <2>2, <2>3 DEF Open
<1>. QED BY <1>4, <1>5 DEF Delivers

LEMMA OffsetIsCovered ==
    ASSUME WholeTransactions, TypesInv, PhaseInv, RowsInv, ContentInv, OpenInv, KeptInv, [Next]_vars,
           NEW p \in Persistent'
    PROVE  CoveredUpTo(p)'
<1>0. LockInv /\ TypeOK /\ received \subseteq received'
  BY DeliverySteps, NothingDropped DEF TypesInv
<1>1. SUFFICES CoveredUpTo(p)
  BY <1>0, CoverageGrows DEF CoveredUpTo
<1>2. CASE p \in Persistent
  BY <1>2 DEF KeptInv
<1>3. CASE p \notin Persistent /\ CompleteSnapshot /\ p = snapPos
  BY <1>3, SnapshotCovers DEF ContentInv
<1>4. CASE p \notin Persistent /\ Acknowledge /\ D!Confirm(p) /\ ~snapshotModeActive
  <2>1. /\ owner = "parser" /\ stage = "delivered"
        /\ current \in DOMAIN Log /\ Log[current].type = "tx_commit" /\ p = Log[current].pos
    BY <1>4, Recorded, CommitIsAcknowledged
  <2>2. SUFFICES ASSUME NEW i \in Missing, ~(Log[i].pos > p) PROVE FALSE
    BY DEF CoveredUpTo
  <2>3. /\ i \in DOMAIN Log /\ InTx(i) /\ InTx(current)
        /\ i \in Nat /\ current \in Nat /\ Log[i].pos \in Nat /\ Log[current].pos \in Nat
    BY <2>1, LogIndices, LogType, LogEvents DEF Missing, WholeTransactions, InTx
  <2>4. i <= current
    <3>1. CASE Log[i].tx = Log[current].tx
      BY <2>1, <2>3, <3>1 DEF WholeTransactions, Commits
    <3>2. CASE Log[i].tx # Log[current].tx
      <4>1. current < i => Log[current].pos < Log[i].pos
        BY <2>1, <2>3, <3>2 DEF WholeTransactions
      <4>. QED BY <2>1, <2>2, <2>3, <4>1
    <3>. QED BY <3>1, <3>2
  <2>5. PICK e \in D!Range(batch) : Is(e, i)
    BY <2>1, <2>4, BatchHasTheRest
  <2>6. D!Range(batch) \subseteq received
    BY <1>0, <2>1 DEF LockInv
  <2>. QED BY <2>5, <2>6, MissingIsNowhere
<1>. QED BY <1>2, <1>3, <1>4, Recorded

LEMMA LogOrderKept ==
    ASSUME WholeTransactions, TypesInv, ContentInv, SequenceInv, OpenInv, KeptInv, [Next]_vars
    PROVE  NothingOvertakes'
<1>0. LockInv /\ TypeOK /\ received \subseteq received'
  BY DeliverySteps, NothingDropped DEF TypesInv
<1>1. SUFFICES ASSUME NEW i \in Missing', NEW j \in DOMAIN Log, j > i, HasEvent(j)' PROVE FALSE
  BY DEF NothingOvertakes
<1>2. i \in Missing /\ i \in DOMAIN Log /\ i \in Nat /\ j \in Nat /\ i < j
      /\ Log[i].pos \in Nat /\ Log[j].pos \in Nat
  <2>1. i \in Missing /\ i \in DOMAIN Log
    BY <1>0, CoverageGrows, MissingTypes
  <2>. QED BY <1>1, <2>1, LogIndices
<1>3. Log[i].pos <= Log[j].pos
  BY <1>2, LogIsMonotonic
<1>4. PICK e \in received' : Is(e, j) /\ e \notin received
  <2>1. ~HasEvent(j)
    BY <1>1, <1>2 DEF KeptInv, NothingOvertakes
  <2>. QED BY <1>1, <2>1 DEF HasEvent, Is
<1>5. \A f : Is(f, i) => f \notin received'
  <2>1. \A f : Is(f, i) => (f \notin received)'
    BY DEF Missing, Covered, HasEvent, Is
  <2>. QED BY <2>1
<1>6. PICK n \in 0..Len(batch) : received' = received \cup D!Range(SubSeq(batch, 1, n))
  BY <1>4, ReceivedSteps
<1>7. batch \in Seq(Envelopes) /\ Len(batch) \in Nat /\ DOMAIN batch = 1..Len(batch)
  BY <1>0 DEF TypeOK, D!TypeOK
<1>8. /\ DOMAIN SubSeq(batch, 1, n) = 1..n
      /\ \A k \in 1..n : SubSeq(batch, 1, n)[k] = batch[k] /\ k \in DOMAIN batch
  BY <1>6, <1>7
<1>9. PICK b \in 1..n : e = batch[b]
  BY <1>4, <1>6, <1>8 DEF D!Range
<1>10. e \in D!Range(batch) /\ b \in DOMAIN batch
  BY <1>8, <1>9 DEF D!Range
<1>11. CASE owner # "parser"
  <2>1. e \in Queued
    BY <1>10, <1>11 DEF Queued
  <2>2. parser # "off"
    <3>1. e.type # "snapshot"
      BY <1>4, LogEvents, LogType DEF Is
    <3>. QED BY <2>1, <3>1, EnvelopeFields DEF ContentInv
  <2>3. committed \in Positions /\ Log[j].pos <= committed
    BY <1>4, <2>1, <2>2 DEF ContentInv, Past, Is
  <2>4. Log[i].pos > committed /\ committed \in Nat
    BY <1>2, <2>3, LogType DEF KeptInv, CoveredUpTo, Persistent
  <2>. QED BY <1>2, <1>3, <2>3, <2>4
<1>12. CASE owner = "parser"
  <2>1. j <= current
    <3>1. PICK k \in DOMAIN Log : WasRead(k) /\ Is(e, k)
      BY <1>10, <1>12 DEF ContentInv, OfTx
    <3>2. k = j
      BY <1>4, <3>1, KeysIdentify
    <3>3. parser = "delivering" /\ idx \in Nat
      BY <1>12, LogType DEF TypesInv, TypeOK, OwnerInv
    <3>. QED BY <1>2, <3>1, <3>2, <3>3 DEF WasRead, current
  <2>2. i <= current
    <3>1. current \in Int
      BY LogType DEF TypesInv, TypeOK, current
    <3>. QED BY <1>2, <2>1, <3>1
  <2>3. PICK m \in DOMAIN batch : Is(batch[m], i)
    BY <1>2, <1>12, <2>2, BatchHasTheRest DEF D!Range
  <2>4. CASE m \in 1..n
    BY <1>5, <1>6, <1>8, <2>3, <2>4 DEF D!Range
  <2>5. CASE m \notin 1..n
    <3>1. b < m
      <4>1. m \in 1..Len(batch) /\ b \in 1..n /\ n \in 0..Len(batch)
        BY <1>6, <1>7, <1>9, <2>3
      <4>. QED BY <1>7, <2>5, <4>1
    <3>2. j < i
      BY <1>2, <1>4, <1>9, <1>10, <1>12, <2>3, <3>1 DEF SequenceInv, InLogOrder
    <3>. QED BY <1>2, <3>2
  <2>. QED BY <2>4, <2>5
<1>. QED BY <1>11, <1>12

LEMMA TransactionsPreserved ==
    ASSUME WholeTransactions, TypesInv, SnapshotInv, TransactionInv, [Next]_vars
    PROVE  TransactionInv'
<1>1. /\ PhaseInv /\ RowsInv
      /\ ContentInv /\ BoundaryInv /\ SequenceInv /\ OpenInv /\ KeptInv
  BY DEF SnapshotInv, TransactionInv
<1>2. ContentInv' /\ BoundaryInv' /\ SequenceInv' /\ OpenInv'
  BY <1>1, ContentPreserved, BoundaryPreserved, SequencePreserved, OpenPreserved
<1>3. KeptInv'
  BY <1>1, ReadIsHeld, OffsetIsCovered, LogOrderKept DEF KeptInv
<1>. QED BY <1>2, <1>3 DEF TransactionInv

LEMMA TransactionInvHolds ==
    ASSUME WholeTransactions PROVE Spec => [](TypesInv /\ SnapshotInv /\ TransactionInv)
<1>1. Init => TransactionInv
  <2>. SUFFICES ASSUME Init PROVE TransactionInv
    OBVIOUS
  <2>1. /\ parser = "off" /\ Persistent = {} /\ received = {}
        /\ owner = NoThread /\ owner # "parser" /\ main = "new" /\ snapPos = snapView
        /\ nonTxBuffer = <<>> /\ batch = <<>>
        /\ pendingTransactions = [tx \in TxIds |-> <<>>]
    BY LogType, ParametersAssumption DEF Init, D!Init, OM!Init, Persistent
  <2>2. Queued = {} /\ \A tx \in TxIds : D!Range(pendingTransactions[tx]) = {}
    BY <2>1, RangeOfEmpty DEF Queued
  <2>3. ContentInv /\ BoundaryInv
    BY <2>1, <2>2 DEF ContentInv, BoundaryInv
  <2>4. SequenceInv /\ OpenInv
    BY <2>1 DEF SequenceInv, InLogOrder, OpenInv, Reading
  <2>5. KeptInv
    BY <2>1 DEF KeptInv, Reading, NothingOvertakes, HasEvent
  <2>. QED BY <2>3, <2>4, <2>5 DEF TransactionInv
<1>2. TypesInv /\ SnapshotInv /\ TransactionInv /\ [Next]_vars => TransactionInv'
  BY TransactionsPreserved
<1>. QED BY <1>1, <1>2, SnapshotInvHolds, PTL DEF Spec

(* At-least-once delivery of transactions: although a transaction is held  *)
(* back until its COMMIT and the consumer may die, fail or give up in the  *)
(* middle of it, the offset never passes one the consumer does not have.   *)
THEOREM TransactionsDeliverAtLeastOnce ==
    ASSUME WholeTransactions PROVE Spec => []AtLeastOnce
<1>1. TransactionInv => AtLeastOnce
  <2>. SUFFICES ASSUME TransactionInv, OM!Stored # NoOffset
                PROVE  /\ OM!Stored \in Positions
                       /\ \A i \in Missing : Log[i].pos > OM!Stored
    BY DEF AtLeastOnce
  <2>1. OM!Stored \in Persistent /\ OM!Stored \in Positions
    BY DEF OM!Stored, Persistent
  <2>. QED BY <2>1 DEF TransactionInv, KeptInv, CoveredUpTo
<1>. QED BY <1>1, TransactionInvHolds, PTL

(* Buffering by transaction keeps the log's order: the consumer never has  *)
(* an event without everything that was written before it.                 *)
THEOREM TransactionsKeepLogOrder ==
    ASSUME WholeTransactions PROVE Spec => []NothingOvertakes
<1>1. TransactionInv => NothingOvertakes
  BY DEF TransactionInv, KeptInv
<1>. QED BY <1>1, TransactionInvHolds, PTL

-----------------------------------------------------------------------------
(* Replay: a log that is read again behind the offset is read from a BEGIN *)
(* on (FromBeginInv), so that every COMMIT finds the count of all rows of  *)
(* its transaction (CountedInv), as it did the first time.                 *)
FromBeginInv ==
    \A b \in DOMAIN Log : \A tx \in TxIds :
        Begins(b, tx) /\ Reading /\ WasRead(b) /\ Open(tx) =>
            \/ pendingTransactions[tx] # <<>>
            \/ \A i \in DOMAIN Log : Log[i].tx = tx => WasRead(i)

RowsOf(tx) == {r \in DOMAIN Log : Log[r].type = "row" /\ Log[r].included /\ Log[r].tx = tx}
RowsRead(tx) == {r \in RowsOf(tx) : WasRead(r)}
CountedInv ==
    Reading =>
        \A b \in DOMAIN Log : \A tx \in TxIds : Begins(b, tx) =>
            /\ ~WasRead(b) => txRowCounts[tx] = 0
            /\ pendingTransactions[tx] # <<>> => txRowCounts[tx] = Cardinality(RowsRead(tx))

(* The one envelope of an event in a process p. *)
WholeEvent(i, p) ==
    EnvelopeOf(i, IF Log[i].type = "tx_commit" THEN Cardinality(RowsOf(Log[i].tx)) ELSE 0, p)
IsWhole(e, i) == \E p \in 0..MaxCrashes : e = WholeEvent(i, p)
IsKnown(e) == e \in SnapshotsAtPosition \/ \E i \in DOMAIN Log : IsWhole(e, i)
Carried == received \cup InFlight \cup UNION {D!Range(pendingTransactions[tx]) : tx \in TxIds}
WholeInv == \A e \in Carried : IsKnown(e)

ReplayInv == FromBeginInv /\ CountedInv /\ WholeInv

LEMMA ResumesBehindOffset ==
    ASSUME ~ResumeInclusive, NEW i \in DOMAIN Log, committed \in Positions, Log[i].pos <= committed
    PROVE  i < FirstIndex
<1>. DEFINE UpTo == {j \in DOMAIN Log : Log[j].pos <= committed}
<1>1. i \in 1..Len(Log) /\ Len(Log) \in Nat /\ committed \in Nat /\ committed # NoOffset
      /\ \A j \in DOMAIN Log : Log[j].pos \in Nat
  BY LogType, LogIndices, ParametersAssumption
<1>2. 1..i \subseteq UpTo
  <2>. SUFFICES ASSUME NEW j \in 1..i PROVE j \in UpTo
    OBVIOUS
  <2>1. j \in DOMAIN Log /\ j <= i
    BY <1>1, LogType
  <2>2. Log[j].pos <= Log[i].pos
    BY <2>1, LogIsMonotonic
  <2>. QED BY <1>1, <2>1, <2>2
<1>3. IsFiniteSet(UpTo)
  <2>1. UpTo \subseteq 1..Len(Log)
    BY LogType
  <2>. QED BY <2>1, LogIsFinite, FS_Subset
<1>4. Cardinality(1..i) = i
  <2>1. i \in Nat /\ 1 \in Int /\ i \in Int /\ ~(1 > i) /\ i - 1 + 1 = i
    BY <1>1
  <2>. QED BY <2>1, FS_Interval
<1>5. Cardinality(UpTo) \in Nat /\ i <= Cardinality(UpTo)
  <2>. HIDE DEF UpTo
  <2>1. Cardinality(1..i) <= Cardinality(UpTo)
    BY <1>2, <1>3, FS_Subset
  <2>2. Cardinality(UpTo) \in Nat
    BY <1>3, FS_CardinalityType
  <2>. QED BY <1>4, <2>1, <2>2
<1>. QED BY <1>1, <1>5 DEF FirstIndex, EventsUpTo

LEMMA NoStrays ==
    ASSUME WholeTransactions, TypesInv, OpenInv, FromBeginInv, Dispatch
    PROVE  ~Strays(EnvelopeOf(current, RowCount(current), crashes))
<1>1. PICK e \in Envelopes :
         /\ e = EnvelopeOf(current, RowCount(current), crashes)
         /\ current \in DOMAIN Log /\ current = idx - 1 /\ parser = "dispatch"
         /\ e.tx = Log[current].tx /\ e.tx \in TxIds /\ e.type = Log[current].type
  BY EventIsSubmitted DEF Is
<1>2. SUFFICES ASSUME Log[current].type # "tx_begin", pendingTransactions[e.tx] = <<>> PROVE FALSE
  BY <1>1 DEF Strays
<1>3. PICK b \in DOMAIN Log : Begins(b, e.tx)
  BY <1>1 DEF WholeTransactions, InTx
<1>4. b \in Nat /\ current \in Nat /\ b <= current /\ b # current
  BY <1>1, <1>2, <1>3, LogIndices DEF WholeTransactions, Begins
<1>5. Reading /\ WasRead(b) /\ ~WasRead(current)
  BY <1>1, <1>4 DEF Reading, WasRead
<1>6. Open(e.tx)
  <2>. SUFFICES ASSUME NEW c \in DOMAIN Log, Commits(c, e.tx) PROVE ~WasRead(c)
    BY DEF Open
  <2>1. current <= c /\ c \in Nat
    BY <1>1, LogIndices DEF WholeTransactions
  <2>. QED BY <1>1, <1>4, <2>1 DEF WasRead
<1>. QED BY <1>1, <1>2, <1>3, <1>5, <1>6 DEF FromBeginInv

LEMMA FromBeginPreserved ==
    ASSUME WholeTransactions, ~ResumeInclusive, TypesInv, BoundaryInv, OpenInv, FromBeginInv, [Next]_vars
    PROVE  FromBeginInv'
<1>. SUFFICES ASSUME NEW b \in DOMAIN Log, NEW tx \in TxIds, Begins(b, tx),
                     Reading', WasRead(b)', Open(tx)'
              PROVE  \/ pendingTransactions'[tx] # <<>>
                     \/ \A i \in DOMAIN Log : Log[i].tx = tx => WasRead(i)'
  BY DEF FromBeginInv, Begins
<1>0. parser' # "off" /\ TypeOK /\ pendingTransactions \in [TxIds -> Seq(Envelopes)]
  BY DEF Reading, TypesInv, TypeOK, D!TypeOK
<1>1. CASE parser = "off"
  <2>1. Launch
    BY <1>0, <1>1, ReaderSteps
  <2>2. parser' = "poll" /\ idx' = FirstIndex
    BY <2>1 DEF Launch
  <2>3. committed \in Positions /\ Log[b].pos <= committed
    BY <1>0, <2>2, BeforeFirstIndex DEF WasRead
  <2>4. \A i \in DOMAIN Log : Log[i].tx = tx => Log[i].pos <= committed
    BY <2>3 DEF BoundaryInv, Persistent, Boundary, Begins
  <2>. QED BY <2>2, <2>3, <2>4, ResumesBehindOffset DEF WasRead
<1>2. CASE parser # "off"
  <2>1. \A i \in DOMAIN Log : WasRead(i) => WasRead(i)'
    BY <1>0, <1>2, ReaderSteps
  <2>2. Open(tx) /\ Reading
    BY <1>0, <1>2, <2>1, ReaderMoves DEF Open, Reading, Commits
  <2>3. CASE Dispatch
    <3>1. PICK e \in Envelopes, n \in DOMAIN Log :
             /\ n = current /\ e.tx = Log[n].tx /\ e.tx \in TxIds /\ e.type = Log[n].type
             /\ Opens(e) \/ Joins(e) \/ Ends(e)
      BY <2>3, EventIsSubmitted, NoStrays DEF Is
    <3>2. WasRead(n)'
      BY <1>0, <1>2, <2>3, <3>1, ReadOn
    <3>3. CASE tx # e.tx
      <4>1. b # current
        BY <3>1, <3>3 DEF Begins
      <4>2. WasRead(b)
        BY <1>0, <1>2, <4>1, ReadOn
      <4>3. pendingTransactions'[tx] = pendingTransactions[tx]
        BY <1>0, <3>1, <3>3 DEF Opens, Joins, Ends
      <4>. QED BY <2>1, <2>2, <4>2, <4>3 DEF FromBeginInv
    <3>4. CASE tx = e.tx /\ Opens(e)
      <4>1. pendingTransactions'[tx] = <<e>>
        BY <1>0, <3>4 DEF Opens
      <4>. QED BY <4>1
    <3>5. CASE tx = e.tx /\ Joins(e)
      <4>1. pendingTransactions'[tx] = Append(pendingTransactions[tx], e)
        BY <1>0, <3>5 DEF Joins
      <4>. QED BY <1>0, <3>1, <4>1
    <3>6. CASE tx = e.tx /\ Ends(e)
      <4>1. Commits(n, tx)
        BY <3>1, <3>6 DEF Ends, Commits
      <4>2. \A c \in DOMAIN Log : Commits(c, tx) => ~WasRead(c)'
        BY DEF Open, Commits
      <4>. QED BY <3>1, <3>2, <4>1, <4>2
    <3>. QED BY <3>1, <3>3, <3>4, <3>5, <3>6
  <2>4. CASE ~Dispatch
    <3>1. pendingTransactions' = pendingTransactions
      <4>1. CASE SnapshotRow
        BY <1>0, <4>1, RowIsBuffered
      <4>2. CASE ~SnapshotRow
        <5>1. ~Restart
          BY <1>0 DEF Restart
        <5>. QED BY <2>4, <4>2, <5>1, OtherSteps
      <4>. QED BY <4>1, <4>2
    <3>2. WasRead(b)
      <4>1. Deliverable(b)
        BY DEF WholeTransactions, Deliverable, Begins
      <4>. QED BY <1>0, <1>2, <2>4, <4>1, ReadOn DEF SkipEvent
    <3>. QED BY <2>1, <2>2, <3>1, <3>2 DEF FromBeginInv
  <2>. QED BY <2>3, <2>4
<1>. QED BY <1>1, <1>2

(* Rows are counted where they are read. *)
LEMMA CountSteps ==
    ASSUME TypesInv, [Next]_vars
    PROVE  SkipEvent \/ Dispatch \/ Restart \/ txRowCounts' = txRowCounts
BY DEF Next, StartStep, StartWithSnapshot, StartFromOffset, SnapshotRow, SnapshotTaken,
   FlushDelivers, FlushNothing, CompleteSnapshot, SnapshotRecorded, SnapshotNotRecorded, Launch,
   StopParser, StopStep, Joined, StopDelivery, ParserStep, Fetch, ParserExits, DeliveryStep,
   ConsumerTakes, LoopFlushes, Acknowledge, OffsetStep, DeliveryReturns, AcknowledgeRaises,
   DeliveryGivesUp, pipelineVars, parserVars, vars

LEMMA RowsAreFinite ==
    \A tx \in TxIds :
        /\ IsFiniteSet(RowsOf(tx)) /\ IsFiniteSet(RowsRead(tx))
        /\ Cardinality(RowsRead(tx)) \in Nat
<1>. SUFFICES ASSUME NEW tx \in TxIds
              PROVE  /\ IsFiniteSet(RowsOf(tx)) /\ IsFiniteSet(RowsRead(tx))
                     /\ Cardinality(RowsRead(tx)) \in Nat
  OBVIOUS
<1>1. RowsOf(tx) \in SUBSET (1..Len(Log))
  BY LogType DEF RowsOf
<1>2. RowsRead(tx) \in SUBSET (1..Len(Log))
  BY <1>1 DEF RowsRead
<1>3. IsFiniteSet(RowsOf(tx)) /\ IsFiniteSet(RowsRead(tx))
  BY <1>1, <1>2, LogIsFinite, FS_Subset
<1>. QED BY <1>3, FS_CardinalityType

LEMMA DispatchCounts ==
    ASSUME WholeTransactions, TypesInv, OpenInv, FromBeginInv, CountedInv, Dispatch, [Next]_vars,
           NEW b \in DOMAIN Log, NEW tx \in TxIds, Begins(b, tx)
    PROVE  /\ ~WasRead(b)' => txRowCounts'[tx] = 0
           /\ pendingTransactions'[tx] # <<>> => txRowCounts'[tx] = Cardinality(RowsRead(tx)')
<1>1. PICK e \in Envelopes, n \in DOMAIN Log :
         /\ n = current /\ n = idx - 1 /\ parser = "dispatch" /\ parser' # "off"
         /\ e.tx = Log[n].tx /\ e.tx \in TxIds /\ e.type = Log[n].type /\ Deliverable(n)
         /\ Opens(e) \/ Joins(e) \/ Ends(e)
  BY EventIsSubmitted, NoStrays DEF Is
<1>2. /\ pendingTransactions \in [TxIds -> Seq(Envelopes)]
      /\ txRowCounts \in [TxIds -> 0..Len(Log)] /\ Len(Log) \in Nat
      /\ b \in Nat /\ n \in Nat /\ Log[n].included
  BY <1>1, LogType, LogIndices DEF TypesInv, TypeOK, D!TypeOK, Deliverable
<1>3. \A i \in DOMAIN Log : WasRead(i)' <=> WasRead(i) \/ i = n
  BY <1>1, ReadOn
<1>4. /\ ~WasRead(b) => txRowCounts[tx] = 0
      /\ pendingTransactions[tx] # <<>> => txRowCounts[tx] = Cardinality(RowsRead(tx))
  BY <1>1 DEF CountedInv, Reading
<1>5. RowsRead(tx)' = {r \in RowsOf(tx) : WasRead(r) \/ r = n}
  <2>1. RowsRead(tx)' = {r \in RowsOf(tx) : WasRead(r)'}
    BY DEF RowsRead, RowsOf
  <2>2. RowsOf(tx) \subseteq DOMAIN Log
    BY DEF RowsOf
  <2>. QED BY <1>3, <2>1, <2>2
<1>6. ~WasRead(n) /\ \A i \in DOMAIN Log : n < i => ~WasRead(i)
  BY <1>1, <1>2, LogIndices DEF WasRead
<1>7. /\ Log[n].type = "row" => txRowCounts' = [txRowCounts EXCEPT ![e.tx] = txRowCounts[e.tx] + 1]
      /\ Log[n].type \notin {"row", "tx_commit"} => txRowCounts'[tx] = txRowCounts[tx]
      /\ Log[n].type = "tx_commit" => txRowCounts' = [txRowCounts EXCEPT ![e.tx] = 0]
  BY <1>1, <1>2 DEF Dispatch, CountRow
<1>8. CASE tx # e.tx
  <2>1. txRowCounts'[tx] = txRowCounts[tx]
    BY <1>2, <1>7, <1>8
  <2>2. pendingTransactions'[tx] = pendingTransactions[tx]
    BY <1>1, <1>2, <1>8 DEF Opens, Joins, Ends
  <2>3. RowsRead(tx)' = RowsRead(tx)
    BY <1>1, <1>5, <1>8 DEF RowsRead, RowsOf
  <2>. QED BY <1>3, <1>4, <2>1, <2>2, <2>3
<1>9. CASE tx = e.tx /\ Opens(e)
  <2>1. b = n
    <3>1. b <= n /\ n <= b
      BY <1>1, <1>9 DEF WholeTransactions, Begins, Opens
    <3>. QED BY <1>2, <3>1
  <2>2. txRowCounts'[tx] = 0
    BY <1>1, <1>4, <1>6, <1>7, <1>9, <2>1 DEF Opens
  <2>3. RowsRead(tx)' = {}
    <3>1. \A r \in RowsOf(tx) : r \in DOMAIN Log /\ r \in Nat /\ n <= r /\ r # n
      BY <1>1, <1>9, <2>1, LogIndices DEF WholeTransactions, RowsOf, Opens
    <3>2. \A r \in RowsOf(tx) : ~WasRead(r) /\ r # n
      BY <1>2, <1>6, <3>1
    <3>. QED BY <1>5, <3>2
  <2>. QED BY <1>3, <2>1, <2>2, <2>3, FS_EmptySet
<1>10. CASE tx = e.tx /\ ~Opens(e)
  <2>1. b <= n /\ b # n
    BY <1>1, <1>10 DEF WholeTransactions, Begins, Joins, Ends
  <2>2. WasRead(b)'
    <3>1. b < n
      BY <1>2, <2>1
    <3>. QED BY <1>1, <1>3, <3>1 DEF WasRead
  <2>3. CASE Joins(e) /\ Log[n].type = "row"
    <3>1. txRowCounts'[tx] = Cardinality(RowsRead(tx)) + 1
      BY <1>2, <1>4, <1>7, <1>10, <2>3 DEF Joins
    <3>2. RowsRead(tx)' = RowsRead(tx) \cup {n} /\ n \notin RowsRead(tx)
      <4>1. n \in RowsOf(tx)
        BY <1>1, <1>2, <1>10, <2>3 DEF RowsOf
      <4>. QED BY <1>5, <1>6, <4>1 DEF RowsRead
    <3>3. Cardinality(RowsRead(tx) \cup {n}) = Cardinality(RowsRead(tx)) + 1
      BY <3>2, RowsAreFinite, FS_AddElement
    <3>. QED BY <2>2, <3>1, <3>2, <3>3
  <2>4. CASE Joins(e) /\ Log[n].type # "row"
    <3>1. txRowCounts'[tx] = txRowCounts[tx]
      BY <1>1, <1>7, <2>4 DEF Joins
    <3>2. RowsRead(tx)' = RowsRead(tx)
      BY <1>5, <2>4 DEF RowsRead, RowsOf
    <3>. QED BY <1>4, <1>10, <2>2, <2>4, <3>1, <3>2 DEF Joins
  <2>5. CASE Ends(e)
    <3>1. pendingTransactions'[tx] = <<>>
      BY <1>2, <1>10, <2>5 DEF Ends
    <3>. QED BY <2>2, <3>1
  <2>. QED BY <1>1, <1>10, <2>3, <2>4, <2>5
<1>. QED BY <1>8, <1>9, <1>10

LEMMA CountedPreserved ==
    ASSUME WholeTransactions, TypesInv, ContentInv, OpenInv, FromBeginInv, CountedInv, [Next]_vars
    PROVE  CountedInv'
<1>. SUFFICES ASSUME Reading', NEW b \in DOMAIN Log, NEW tx \in TxIds, Begins(b, tx)
              PROVE  /\ ~WasRead(b)' => txRowCounts'[tx] = 0
                     /\ pendingTransactions'[tx] # <<>> => txRowCounts'[tx] = Cardinality(RowsRead(tx)')
  BY DEF CountedInv, Begins
<1>0. parser' # "off" /\ ~Restart /\ TypeOK
  BY DEF Reading, Restart, TypesInv
<1>1. CASE parser = "off"
  <2>1. Launch
    BY <1>0, <1>1, ReaderSteps
  <2>2. txRowCounts' = txRowCounts /\ pendingTransactions' = pendingTransactions
    BY <2>1 DEF Launch, deliveryVars
  <2>. QED BY <1>1, <2>2 DEF TypesInv, CountInv, ContentInv
<1>2. CASE Dispatch
  BY <1>2, DispatchCounts
<1>3. CASE parser # "off" /\ ~Dispatch
  <2>1. Reading
    BY <1>0, <1>3, ReaderMoves DEF Reading
  <2>2. pendingTransactions' = pendingTransactions
    <3>1. CASE SnapshotRow
      BY <1>0, <3>1, RowIsBuffered
    <3>2. CASE ~SnapshotRow
      BY <1>0, <1>3, <3>2, OtherSteps
    <3>. QED BY <3>1, <3>2
  <2>3. SkipEvent => ~Log[current].included
    BY DEF SkipEvent, Deliverable, WholeTransactions
  <2>4. txRowCounts' = txRowCounts
    <3>1. CASE SkipEvent
      BY <2>3, <3>1 DEF SkipEvent, CountRow
    <3>2. CASE ~SkipEvent
      BY <1>0, <1>3, <3>2, CountSteps
    <3>. QED BY <3>1, <3>2
  <2>5. \A i \in DOMAIN Log : Log[i].included => (WasRead(i)' <=> WasRead(i))
    BY <1>0, <1>3, <2>3, ReadOn
  <2>6. RowsRead(tx)' = RowsRead(tx)
    <3>1. RowsRead(tx)' = {r \in RowsOf(tx) : WasRead(r)'}
      BY DEF RowsRead, RowsOf
    <3>2. \A r \in RowsOf(tx) : r \in DOMAIN Log /\ Log[r].included
      BY DEF RowsOf
    <3>. QED BY <2>5, <3>1, <3>2 DEF RowsRead
  <2>7. Log[b].included
    BY DEF WholeTransactions, Begins
  <2>. QED BY <2>1, <2>2, <2>4, <2>5, <2>6, <2>7 DEF CountedInv
<1>. QED BY <1>1, <1>2, <1>3

(* An event is submitted as the one envelope it has in this process. *)
LEMMA EventIsWhole ==
    ASSUME WholeTransactions, TypesInv, OpenInv, FromBeginInv, CountedInv, Dispatch
    PROVE  IsWhole(EnvelopeOf(current, RowCount(current), crashes), current)
<1>0. /\ crashes \in 0..MaxCrashes
      /\ EnvelopeOf(current, RowCount(current), crashes) = WholeEvent(current, crashes)
              => IsWhole(EnvelopeOf(current, RowCount(current), crashes), current)
  BY DEF TypesInv, TypeOK, IsWhole
<1>1. PICK e \in Envelopes :
         /\ e = EnvelopeOf(current, RowCount(current), crashes)
         /\ current \in DOMAIN Log /\ parser = "dispatch"
         /\ e.tx = Log[current].tx /\ e.tx \in TxIds /\ e.type = Log[current].type
         /\ Opens(e) \/ Joins(e) \/ Ends(e)
  BY EventIsSubmitted, NoStrays DEF Is
<1>2. CASE Log[current].type # "tx_commit"
  BY <1>0, <1>2 DEF WholeEvent, RowCount
<1>3. CASE Log[current].type = "tx_commit"
  <2>. DEFINE tx == Log[current].tx
  <2>1. pendingTransactions[tx] # <<>>
    BY <1>1, <1>3 DEF Opens, Joins, Ends
  <2>2. PICK b \in DOMAIN Log : Begins(b, tx)
    BY <1>1 DEF WholeTransactions, InTx
  <2>3. txRowCounts[tx] = Cardinality(RowsRead(tx))
    BY <1>1, <2>1, <2>2 DEF CountedInv, Reading
  <2>4. RowsRead(tx) = RowsOf(tx)
    <3>1. \A r \in RowsOf(tx) : r <= current /\ r # current /\ r \in Nat /\ current \in Nat
      BY <1>1, <1>3, LogIndices DEF WholeTransactions, Commits, RowsOf
    <3>2. \A r \in RowsOf(tx) : r < current
      BY <3>1
    <3>. QED BY <1>1, <3>2 DEF RowsRead, WasRead
  <2>. QED BY <1>0, <1>1, <1>3, <2>3, <2>4 DEF WholeEvent, RowCount
<1>. QED BY <1>2, <1>3

LEMMA CarriedSteps ==
    ASSUME WholeTransactions, TypesInv, OpenInv, FromBeginInv, [Next]_vars
    PROVE  \/ Carried' \subseteq Carried
           \/ Dispatch /\ Carried' \subseteq Carried \cup {EnvelopeOf(current, RowCount(current), crashes)}
           \/ SnapshotRow /\ Carried' \subseteq Carried \cup {SnapshotEnvelope(snapPos, snapView, snapSent + 1)}
<1>0. TypeOK /\ LockInv /\ (SnapshotRow \/ Dispatch \/ DeliveryAdvance)
  BY DeliverySteps DEF TypesInv
<1>1. CASE Dispatch
  <2>1. PICK e \in Envelopes :
           /\ e = EnvelopeOf(current, RowCount(current), crashes) /\ e.tx \in TxIds
           /\ batch = <<>> /\ received' = received
           /\ Opens(e) \/ Joins(e) \/ Ends(e)
    BY <1>1, EventIsSubmitted, NoStrays
  <2>2. /\ \A tx \in TxIds \ {e.tx} : pendingTransactions'[tx] = pendingTransactions[tx]
        /\ D!Range(pendingTransactions'[e.tx]) \subseteq D!Range(pendingTransactions[e.tx]) \cup {e}
        /\ Ends(e) => D!Range(batch') = D!Range(pendingTransactions[e.tx]) \cup {e}
    BY <1>1, <2>1, Submitted
  <2>3. nonTxBuffer' = nonTxBuffer /\ (batch' = batch \/ Ends(e))
    BY <2>1 DEF Opens, Joins, Ends
  <2>4. InFlight' \subseteq Carried \cup {e}
    BY <2>1, <2>2, <2>3 DEF InFlight, Carried
  <2>5. \A tx \in TxIds : D!Range(pendingTransactions'[tx]) \subseteq Carried \cup {e}
    BY <2>1, <2>2 DEF Carried
  <2>6. Carried' \subseteq Carried \cup {e}
    BY <2>1, <2>4, <2>5 DEF Carried
  <2>. QED BY <1>1, <2>1, <2>6
<1>2. CASE SnapshotRow
  <2>1. PICK e \in Envelopes :
           /\ e = SnapshotEnvelope(snapPos, snapView, snapSent + 1)
           /\ nonTxBuffer' = Append(nonTxBuffer, e)
           /\ UNCHANGED <<pendingTransactions, batch, received>>
    BY <1>0, <1>2, RowIsBuffered
  <2>2. D!Range(Append(nonTxBuffer, e)) = D!Range(nonTxBuffer) \cup {e}
    BY <1>0, RangeAppend DEF TypeOK, D!TypeOK
  <2>3. Carried' \subseteq Carried \cup {e}
    BY <2>1, <2>2 DEF InFlight, Carried
  <2>. QED BY <1>2, <2>1, <2>3
<1>3. CASE DeliveryAdvance /\ ~Dispatch /\ ~SnapshotRow
  <2>1. InFlight' \subseteq InFlight /\ received' \subseteq received \cup InFlight
    BY <1>0, <1>3, NothingInvented DEF InFlight
  <2>2. \A tx \in TxIds : D!Range(pendingTransactions'[tx]) \subseteq D!Range(pendingTransactions[tx])
    <3>1. CASE Restart
      BY <3>1, RangeOfEmpty DEF Restart, D!Restart
    <3>2. CASE ~Restart
      BY <1>3, <3>2, OtherSteps
    <3>. QED BY <3>1, <3>2
  <2>. QED BY <2>1, <2>2 DEF Carried
<1>. QED BY <1>0, <1>1, <1>2, <1>3

LEMMA WholePreserved ==
    ASSUME WholeTransactions, TypesInv, ContentInv, OpenInv, FromBeginInv, CountedInv, WholeInv, [Next]_vars
    PROVE  WholeInv'
<1>. SUFFICES ASSUME NEW e \in Carried'
              PROVE  IsKnown(e)
  BY DEF WholeInv
<1>1. CASE e \in Carried
  BY <1>1 DEF WholeInv
<1>2. CASE Dispatch /\ e = EnvelopeOf(current, RowCount(current), crashes)
  BY <1>2, EventIsWhole, EventIsSubmitted DEF IsKnown
<1>3. CASE SnapshotRow /\ e = SnapshotEnvelope(snapPos, snapView, snapSent + 1)
  <2>1. snapSent + 1 \in 1..SnapshotRows /\ snapPos \in Positions /\ snapView = snapPos
    BY <1>3, RowIsBuffered DEF TypesInv, TypeOK, ContentInv
  <2>. QED BY <1>3, <2>1 DEF SnapshotsAtPosition, IsKnown
<1>. QED BY <1>1, <1>2, <1>3, CarriedSteps

(* Replaying transactions gives the consumer the envelopes it has already, *)
(* the row counts of their COMMITs included, where the log is read from    *)
(* behind the offset: the idempotency key determines the content, but for  *)
(* the transaction id, which the parser makes anew in every process.       *)
THEOREM TransactionsReplayTheSame ==
    ASSUME WholeTransactions, ~ResumeInclusive PROVE Spec => []ReplaySameOutcome
<1>1. Init => ReplayInv
  <2>. SUFFICES ASSUME Init PROVE ReplayInv
    OBVIOUS
  <2>1. /\ parser = "off" /\ received = {} /\ nonTxBuffer = <<>> /\ batch = <<>>
        /\ pendingTransactions = [tx \in TxIds |-> <<>>]
    BY DEF Init, D!Init
  <2>2. Carried = {}
    BY <2>1, RangeOfEmpty DEF Carried, InFlight
  <2>. QED BY <2>1, <2>2 DEF ReplayInv, FromBeginInv, CountedInv, WholeInv, Reading
<1>2. TypesInv /\ TransactionInv /\ ReplayInv /\ [Next]_vars => ReplayInv'
  BY FromBeginPreserved, CountedPreserved, WholePreserved DEF TransactionInv, ReplayInv
<1>3. ReplayInv => ReplaySameOutcome
  <2>. SUFFICES ASSUME ReplayInv, NEW e \in received, NEW f \in received,
                       IdempotencyKey(e) = IdempotencyKey(f)
                PROVE  Content(e) = Content(f)
    BY DEF ReplaySameOutcome
  <2>1. e.type = f.type /\ e.pos = f.pos /\ e.pk = f.pk
    BY DEF IdempotencyKey
  <2>2. /\ e \in SnapshotsAtPosition \/ \E i \in DOMAIN Log : IsWhole(e, i)
        /\ f \in SnapshotsAtPosition \/ \E i \in DOMAIN Log : IsWhole(f, i)
    BY DEF ReplayInv, WholeInv, Carried, IsKnown
  <2>3. \A i \in DOMAIN Log, p \in 0..MaxCrashes :
            /\ Is(WholeEvent(i, p), i) /\ WholeEvent(i, p).type # "snapshot"
            /\ Content(WholeEvent(i, p)) = WholeEvent(i, 0)
    <3>. SUFFICES ASSUME NEW i \in DOMAIN Log, NEW p \in 0..MaxCrashes
                  PROVE  /\ Is(WholeEvent(i, p), i) /\ WholeEvent(i, p).type # "snapshot"
                         /\ Content(WholeEvent(i, p)) = WholeEvent(i, 0)
      OBVIOUS
    <3>1. IdMadeBy(i, 0) = 0
      BY DEF IdMadeBy
    <3>. QED BY <3>1, LogEvents, LogType DEF WholeEvent, EnvelopeOf, Is, Content
  <2>4. CASE e \in SnapshotsAtPosition /\ f \in SnapshotsAtPosition
    BY <2>1, <2>4 DEF SnapshotsAtPosition, SnapshotEnvelope
  <2>5. CASE e \notin SnapshotsAtPosition /\ f \notin SnapshotsAtPosition
    <3>1. PICK i \in DOMAIN Log, j \in DOMAIN Log, p \in 0..MaxCrashes, q \in 0..MaxCrashes :
              e = WholeEvent(i, p) /\ f = WholeEvent(j, q)
      BY <2>2, <2>5 DEF IsWhole
    <3>2. Is(e, i) /\ Is(e, j)
      BY <2>1, <2>3, <3>1 DEF Is
    <3>3. i = j
      BY <3>2, KeysIdentify
    <3>. QED BY <2>3, <3>1, <3>3
  <2>6. e \in SnapshotsAtPosition <=> e.type = "snapshot"
    BY <2>2, <2>3, EnvelopeFields DEF IsWhole
  <2>7. f \in SnapshotsAtPosition <=> f.type = "snapshot"
    BY <2>2, <2>3, EnvelopeFields DEF IsWhole
  <2>. QED BY <2>1, <2>4, <2>5, <2>6, <2>7
<1>. QED BY <1>1, <1>2, <1>3, TransactionInvHolds, PTL DEF Spec
===============================================================================
