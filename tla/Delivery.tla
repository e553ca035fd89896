------------------------------ MODULE Delivery ------------------------------
(***************************************************************************)
(* DeliveryManager, cdc_pipeline/downstream/delivery.py.                   *)
(*                                                                         *)
(* Transactions are buffered until their COMMIT, everything else goes      *)
(* through a size/time buffer drained by the delivery loop thread.  One    *)
(* RLock protects it all, and _deliver_with_retry runs entirely under it:  *)
(* the call of the consumer, the backoff sleeps and the acknowledgement.   *)
(* "owner" is the thread that holds the lock across steps; a method that   *)
(* delivers nothing takes and releases the lock in one step.               *)
(*                                                                         *)
(* An envelope is a record with at least the fields type, tx and pos.  It  *)
(* carries a fresh event_id, so it is submitted at most once.  Time is     *)
(* abstract: a buffer that is marked may be old enough to flush at any     *)
(* moment, and a sleep takes any time.                                     *)
(***************************************************************************)
EXTENDS Integers, Sequences, FiniteSetsExt, Functions

CONSTANTS
    Envelopes,       \* the envelopes that may be submitted
    TxIds, NoTx,     \* transaction ids, and Python's None
    Callers,         \* threads that call the public methods
    LoopThreads,     \* threads available to run _delivery_loop
    NoThread,        \* the lock is free
    BatchSize,       \* downstream_batch_size
    TxCap,           \* the safety cap on a buffered transaction
    BoundaryEnabled, \* transaction_boundary_enabled
    MaxRetries       \* bound: batches_retried is counted up to here

EnvelopeTypes == {"snapshot", "row", "schema", "tx_begin", "tx_commit"}

ASSUME EnvelopesAssumption ==
    \A e \in Envelopes :
        /\ e.type \in EnvelopeTypes
        /\ e.tx \in TxIds \cup {NoTx}
        /\ e.pos \in Nat
        /\ e.type \in {"tx_begin", "tx_commit"} => e.tx \in TxIds

(* Parsers make a fresh id for every BEGIN, and forget it at the COMMIT: a *)
(* BEGIN is before, and a COMMIT behind, all else with its id.             *)
ASSUME TransactionsAssumption ==
    \A e \in Envelopes : \A f \in Envelopes \ {e} :
        e.tx = f.tx => /\ e.type = "tx_begin" => e.pos < f.pos
                       /\ e.type = "tx_commit" => f.pos < e.pos

ASSUME ParametersAssumption ==
    /\ NoTx \notin TxIds
    /\ NoThread \notin Callers \cup LoopThreads
    /\ Callers \cap LoopThreads = {}
    /\ BatchSize \in Nat \ {0}
    /\ TxCap \in Nat \ {0}
    /\ BoundaryEnabled \in BOOLEAN
    /\ MaxRetries \in Nat

VARIABLES
    pendingTransactions, \* _pending_transactions; <<>> for an absent key
    nonTxBuffer,         \* _non_tx_buffer
    bufferMarked,        \* _buffer_full_at is not None
    running,             \* _running
    loop,                \* where each _delivery_loop thread is
    owner,               \* the thread inside _deliver_with_retry
    batch,               \* the batch it delivers
    stage,               \* how far it has got
    stats,               \* _stats
    submitted,           \* history: envelopes handed to submit
    received,            \* the consumer: envelopes it durably has
    lost                 \* history: envelopes of batches that were given up

buffers  == <<pendingTransactions, nonTxBuffer, bufferMarked>>
delivery == <<owner, batch, stage>>
history  == <<submitted, received, lost>>
deliveryVars == <<buffers, delivery, history, running, loop, stats>>

Threads == Callers \cup LoopThreads

DeliveryStats ==
    [submitted : Nat, delivered : Nat, batches : Nat, retried : Nat,
     failed : Nat, lastPosition : Nat]

InitialStats ==
    [submitted |-> 0, delivered |-> 0, batches |-> 0, retried |-> 0,
     failed |-> 0, lastPosition |-> 0]

(* __init__ *)
Init ==
    /\ pendingTransactions = [tx \in TxIds |-> <<>>]
    /\ nonTxBuffer = <<>>
    /\ bufferMarked = FALSE
    /\ running = FALSE
    /\ loop = [l \in LoopThreads |-> "off"]
    /\ owner = NoThread
    /\ batch = <<>>
    /\ stage = "idle"
    /\ stats = InitialStats
    /\ submitted = {}
    /\ received = {}
    /\ lost = {}

(* The process ends and another one constructs its manager: the consumer   *)
(* alone remembers anything.                                               *)
Restart ==
    /\ pendingTransactions' = [tx \in TxIds |-> <<>>]
    /\ nonTxBuffer' = <<>>
    /\ bufferMarked' = FALSE
    /\ running' = FALSE
    /\ loop' = [l \in LoopThreads |-> "off"]
    /\ owner' = NoThread
    /\ batch' = <<>>
    /\ stage' = "idle"
    /\ stats' = InitialStats
    /\ submitted' = {}
    /\ lost' = {}
    /\ UNCHANGED received

-----------------------------------------------------------------------------
(* _deliver_with_retry starts: the caller keeps the lock. *)
StartDelivery(t, events) ==
    /\ owner' = t
    /\ batch' = events
    /\ stage' = "deliver"

(* _submit_transactional is taken by events of a transaction when          *)
(* transaction boundaries are honoured.                                    *)
Transactional(e) == BoundaryEnabled /\ e.tx \in TxIds

OpensTransaction(e) == Transactional(e) /\ e.type = "tx_begin"

(* Mutant: a DDL inside a transaction is not buffered with it. *)
OnlyRowsJoin(e) ==
    /\ Transactional(e)
    /\ e.type \in {"row", "tx_commit"}
    /\ pendingTransactions[e.tx] # <<>>

JoinsTransaction(e) ==
    /\ Transactional(e)
    /\ e.type # "tx_begin"
    /\ pendingTransactions[e.tx] # <<>>

OpenTransaction(e) ==
    /\ OpensTransaction(e)
    /\ pendingTransactions' = [pendingTransactions EXCEPT ![e.tx] = <<e>>]
    /\ UNCHANGED <<nonTxBuffer, bufferMarked, delivery>>

(* Mutant: the newest event goes first. *)
BufferInFront(e) ==
    /\ ~OpensTransaction(e)
    /\ ~JoinsTransaction(e)
    /\ nonTxBuffer' = <<e>> \o nonTxBuffer
    /\ bufferMarked' = TRUE
    /\ UNCHANGED <<pendingTransactions, delivery>>

(* Mutant: the arrival time of the first event is not recorded. *)
BufferUnmarked(e) ==
    /\ ~OpensTransaction(e)
    /\ ~JoinsTransaction(e)
    /\ nonTxBuffer' = Append(nonTxBuffer, e)
    /\ UNCHANGED <<pendingTransactions, bufferMarked, delivery>>

(* Also the way of an event whose BEGIN was missed, or whose transaction   *)
(* outgrew the cap.                                                        *)
BufferEvent(e) ==
    /\ ~OpensTransaction(e)
    /\ ~JoinsTransaction(e)
    /\ nonTxBuffer' = Append(nonTxBuffer, e)
    /\ bufferMarked' = TRUE
    /\ UNCHANGED <<pendingTransactions, delivery>>

EndsBatch(e) ==
    e.type = "tx_commit" \/ Len(pendingTransactions[e.tx]) + 1 > TxCap

ExtendTransaction(e) ==
    /\ JoinsTransaction(e)
    /\ ~EndsBatch(e)
    /\ pendingTransactions' = [pendingTransactions EXCEPT ![e.tx] = Append(@, e)]
    /\ UNCHANGED <<nonTxBuffer, bufferMarked, delivery>>

(* Mutant: the id is taken out of _pending_transactions for good, so that  *)
(* later lookups of it fail.                                               *)
DeliverAndForget(t, e) ==
    /\ JoinsTransaction(e)
    /\ EndsBatch(e)
    /\ pendingTransactions' = [tx \in TxIds \ {e.tx} |-> pendingTransactions[tx]]
    /\ StartDelivery(t, Append(pendingTransactions[e.tx], e))
    /\ UNCHANGED <<nonTxBuffer, bufferMarked>>

(* Mutant: the delivered transaction stays in _pending_transactions. *)
DeliverWithoutPop(t, e) ==
    /\ JoinsTransaction(e)
    /\ EndsBatch(e)
    /\ StartDelivery(t, Append(pendingTransactions[e.tx], e))
    /\ UNCHANGED buffers

DeliverTransaction(t, e) ==
    /\ JoinsTransaction(e)
    /\ EndsBatch(e)
    /\ pendingTransactions' = [pendingTransactions EXCEPT ![e.tx] = <<>>]
    /\ StartDelivery(t, Append(pendingTransactions[e.tx], e))
    /\ UNCHANGED <<nonTxBuffer, bufferMarked>>

Submit(t, e) ==
    /\ owner = NoThread
    /\ stats' = [stats EXCEPT !.submitted = @ + 1]
    /\ submitted' = submitted \cup {e}
    /\ \/ OpenTransaction(e)
       \/ BufferEvent(e)
       \/ ExtendTransaction(e)
       \/ DeliverTransaction(t, e)
    /\ UNCHANGED <<running, loop, received, lost>>

(* Mutant: at most downstream_batch_size events are kept. *)
TakeFirst(t) ==
    /\ nonTxBuffer # <<>>
    /\ StartDelivery(t, SubSeq(nonTxBuffer, 1, Min({BatchSize, Len(nonTxBuffer)})))
    /\ nonTxBuffer' = <<>>
    /\ bufferMarked' = FALSE
    /\ UNCHANGED pendingTransactions

(* _flush_non_tx_locked: the whole buffer becomes one batch. *)
TakeBuffer(t) ==
    /\ nonTxBuffer # <<>>
    /\ StartDelivery(t, nonTxBuffer)
    /\ nonTxBuffer' = <<>>
    /\ bufferMarked' = FALSE
    /\ UNCHANGED pendingTransactions

(* flush(); with an empty buffer it does nothing. *)
Flush(t) ==
    /\ owner = NoThread
    /\ TakeBuffer(t)
    /\ UNCHANGED <<running, loop, stats, history>>

-----------------------------------------------------------------------------
(* start(): a thread whose join() timed out in an earlier stop() may still *)
(* be in its loop, so a new one is taken.                                  *)
Start ==
    /\ ~running
    /\ running' = TRUE
    /\ \E l \in LoopThreads :
          loop[l] = "off" /\ loop' = [loop EXCEPT ![l] = "top"]
    /\ UNCHANGED <<buffers, delivery, history, stats>>

(* stop() *)
Stop ==
    /\ running' = FALSE
    /\ UNCHANGED <<buffers, delivery, history, loop, stats>>

(* _delivery_loop: "while self._running", then sleep, then the lock. *)
LoopTop(l) ==
    /\ loop[l] = "top"
    /\ loop' = [loop EXCEPT ![l] = IF running THEN "asleep" ELSE "off"]
    /\ UNCHANGED <<buffers, delivery, history, running, stats>>

LoopFlush(l) ==
    /\ loop[l] = "asleep"
    /\ owner = NoThread
    /\ Len(nonTxBuffer) >= BatchSize \/ bufferMarked
    /\ TakeBuffer(l)
    /\ loop' = [loop EXCEPT ![l] = "flushing"]
    /\ UNCHANGED <<running, stats, history>>

LoopSkip(l) ==
    /\ loop[l] = "asleep"
    /\ owner = NoThread
    /\ Len(nonTxBuffer) < BatchSize
    /\ loop' = [loop EXCEPT ![l] = "top"]
    /\ UNCHANGED <<buffers, delivery, history, running, stats>>

-----------------------------------------------------------------------------
(* _deliver_with_retry *)
DeliverOk ==
    /\ stage = "deliver"
    /\ received' = received \cup Range(batch)
    /\ stage' = "delivered"
    /\ UNCHANGED <<buffers, owner, batch, submitted, lost, running, loop, stats>>

(* The consumer raises, having taken nothing, a part or all of the batch.  *)
DeliverRaises ==
    /\ stage = "deliver"
    /\ \E n \in 0..Len(batch) : received' = received \cup Range(SubSeq(batch, 1, n))
    /\ stage' = "backoff"
    /\ stats' = [stats EXCEPT !.retried = IF @ < MaxRetries THEN @ + 1 ELSE @]
    /\ UNCHANGED <<buffers, owner, batch, submitted, lost, running, loop>>

(* Mutant: retries go on after stop(). *)
RetryForever ==
    /\ stage = "backoff"
    /\ stage' = "deliver"
    /\ UNCHANGED <<buffers, owner, batch, history, running, loop, stats>>

Retry ==
    /\ stage = "backoff"
    /\ running
    /\ stage' = "deliver"
    /\ UNCHANGED <<buffers, owner, batch, history, running, loop, stats>>

(* The lock is released; a loop thread goes back to its loop condition. *)
Release ==
    /\ owner' = NoThread
    /\ batch' = <<>>
    /\ stage' = "idle"
    /\ loop' = [l \in LoopThreads |-> IF l = owner THEN "top" ELSE loop[l]]

(* After stop() a failing delivery raises to its caller instead. *)
GiveUp ==
    /\ stage = "backoff"
    /\ ~running
    /\ lost' = lost \cup Range(batch)
    /\ stats' = [stats EXCEPT !.failed = @ + 1]
    /\ Release
    /\ UNCHANGED <<buffers, submitted, received, running>>

(* p is batch.max_position(), the position given to _on_ack. *)
MaxPosition(p) ==
    /\ p \in {e.pos : e \in Range(batch)}
    /\ \A e \in Range(batch) : e.pos <= p

(* Mutant: the position is acknowledged before the consumer has the batch. *)
ConfirmEarly(p) ==
    /\ stage \in {"deliver", "delivered"}
    /\ MaxPosition(p)
    /\ stats' = [stats EXCEPT !.batches = @ + 1,
                              !.delivered = @ + Len(batch),
                              !.lastPosition = p]
    /\ stage' = "acking"
    /\ UNCHANGED <<buffers, owner, batch, history, running, loop>>

Confirm(p) ==
    /\ stage = "delivered"
    /\ MaxPosition(p)
    /\ stats' = [stats EXCEPT !.batches = @ + 1,
                              !.delivered = @ + Len(batch),
                              !.lastPosition = p]
    /\ stage' = "acking"
    /\ UNCHANGED <<buffers, owner, batch, history, running, loop>>

(* _on_ack has returned, or raised. *)
Return ==
    /\ stage = "acking"
    /\ Release
    /\ UNCHANGED <<buffers, history, running, stats>>

-----------------------------------------------------------------------------
(* A parser reports events in log order and may pass over some of them:    *)
(* tables that are filtered out, or everything before a resume position.   *)
Submissible(e) ==
    e \notin submitted /\ \A f \in submitted : f.pos <= e.pos

Resolve == DeliverOk \/ DeliverRaises
Advance == Retry \/ GiveUp \/ Return \/ \E e \in Envelopes : Confirm(e.pos)

Next ==
    \/ \E t \in Callers :
          \/ \E e \in Envelopes : Submissible(e) /\ Submit(t, e)
          \/ Flush(t)
    \/ Start
    \/ Stop
    \/ \E l \in LoopThreads : LoopTop(l) \/ LoopFlush(l) \/ LoopSkip(l)
    \/ Resolve
    \/ Advance

Spec == Init /\ [][Next]_deliveryVars

(* Threads run, a call of the consumer returns or raises, and a loop thread *)
(* that keeps waking up finds the lock free and the flush interval elapsed. *)
ThreadFairness ==
    /\ WF_deliveryVars(Resolve)
    /\ WF_deliveryVars(Advance)
    /\ \A l \in LoopThreads :
          /\ WF_deliveryVars(LoopTop(l))
          /\ SF_deliveryVars(LoopFlush(l))
          /\ SF_deliveryVars(LoopFlush(l) \/ LoopSkip(l))

(* An outage of the consumer does not last forever. *)
ConsumerRecovers == SF_deliveryVars(DeliverOk)

ThreadSpec == Spec /\ ThreadFairness

-----------------------------------------------------------------------------
(* The variables have their types.                                         *)
TypeOK ==
    /\ pendingTransactions \in [TxIds -> Seq(Envelopes)]
    /\ nonTxBuffer \in Seq(Envelopes)
    /\ bufferMarked \in BOOLEAN
    /\ running \in BOOLEAN
    /\ loop \in [LoopThreads -> {"off", "top", "asleep", "flushing"}]
    /\ owner \in Threads \cup {NoThread}
    /\ batch \in Seq(Envelopes)
    /\ stage \in {"idle", "deliver", "backoff", "delivered", "acking"}
    /\ stats \in DeliveryStats
    /\ submitted \subseteq Envelopes
    /\ received \subseteq Envelopes
    /\ lost \subseteq Envelopes

Pending == UNION {Range(pendingTransactions[tx]) : tx \in TxIds}

(* No event disappears between submit() and the consumer: through opening, *)
(* capping and completing transactions, the swap of the buffer and every   *)
(* retry it is in a buffer, in the batch being delivered, with the consumer *)
(* or in a batch that was given up after stop().                           *)
NoEventLost ==
    submitted \subseteq Pending \cup Range(nonTxBuffer) \cup Range(batch)
                         \cup received \cup lost

Waiting == UNION {{tx} \X DOMAIN pendingTransactions[tx] : tx \in TxIds}

(* The metrics add up, so nothing is delivered twice in one run either:    *)
(* events_submitted is what was delivered, what waits in the buffers that  *)
(* stats() counts, what is in flight and what was given up.                *)
StatsBalance ==
    stats.submitted =
        stats.delivered
        + Cardinality(Waiting)
        + Len(nonTxBuffer)
        + (IF stage = "acking" THEN 0 ELSE Len(batch))
        + Cardinality(lost)

(* A buffered transaction is all of it that has been submitted, in order,  *)
(* and so is a batch that opens with BEGIN: a transaction never reaches    *)
(* the consumer with a piece of it left in another buffer.                 *)
InLogOrder(s) == \A i, j \in DOMAIN s : i < j => s[i].pos <= s[j].pos
OfTransaction(tx) == {e \in submitted : e.tx = tx}
WholeTransaction(s) ==
    s # <<>> /\ s[1].type = "tx_begin" /\ BoundaryEnabled =>
        Range(s) = OfTransaction(s[1].tx) /\ InLogOrder(s)
TransactionsUndivided ==
    /\ \A tx \in TxIds : WholeTransaction(pendingTransactions[tx])
    /\ stage = "deliver" /\ owner \in Callers => WholeTransaction(batch)

(* The consumer never sees a COMMIT before the events it commits, capped   *)
(* and orphaned transactions, partial batches and retries included.        *)
CommitNeverOvertakes ==
    \A c \in received, e \in submitted :
        c.type = "tx_commit" /\ e.tx = c.tx => e \in received \cup lost

(* Events outside transactions -- all of them when transaction boundaries  *)
(* are off -- form one queue, and the consumer receives it in log order:   *)
(* nothing in it overtakes, whichever thread drains it, whatever is        *)
(* retried, and whatever part of a batch a failing consumer took.          *)
QueueInOrder ==
    \A e \in received, f \in submitted :
        ~Transactional(e) /\ ~Transactional(f) /\ f.pos < e.pos
            => f \in received \cup lost

(* A buffered event reaches the consumer without another submit, flush or  *)
(* stop, however short the buffer (the purpose of _maybe_mark_buffer), if  *)
(* the consumer recovers from its outages.                                 *)
BufferedEventDelivered ==
    ConsumerRecovers =>
        \A e \in Envelopes :
            e \in Range(nonTxBuffer) \cup Range(batch)
                ~> e \in received \cup lost \/ ~running

(* stop() ends the delivery loop even if the consumer never recovers.      *)
LoopEndsAfterStop ==
    ~running ~> running \/ \A l \in LoopThreads : loop[l] = "off"
=============================================================================
