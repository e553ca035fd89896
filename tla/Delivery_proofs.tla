--------------------------- MODULE Delivery_proofs ---------------------------
(***************************************************************************)
(* Proofs about Delivery for any set of envelopes, threads and             *)
(* transactions, any batch size and cap, with and without boundaries.      *)
(*                                                                         *)
(* NoEventLost needs three facts beside itself.  A new batch never         *)
(* overwrites one in flight, because only the lock holder has one; a batch *)
(* is dropped on success only once the consumer has it; and a BEGIN never  *)
(* overwrites a buffered transaction, because that transaction's BEGIN was *)
(* submitted before and there is only one.                                 *)
(*                                                                         *)
(* QueueInOrder is not inductive either: it needs to know that a batch     *)
(* with such an event is in log order and is the whole queue, because      *)
(* nobody refills the buffer while the batch holds the lock; that the      *)
(* buffer is in log order; that no such event waits in a transaction; and  *)
(* that everything on its way was submitted, so that the next event is     *)
(* behind all of it.                                                       *)
(***************************************************************************)
EXTENDS Delivery, FiniteSetTheorems, TLAPS

(* The lock is held exactly while a batch is delivered. *)
LockInv ==
    /\ owner = NoThread <=> stage = "idle"
    /\ stage = "idle" => batch = <<>>

ReceivedInv == stage \in {"delivered", "acking"} => Range(batch) \subseteq received

BeginInv ==
    \A tx \in TxIds : pendingTransactions[tx] # <<>> =>
        \E b \in submitted : b.type = "tx_begin" /\ b.tx = tx

IInv == TypeOK /\ LockInv /\ ReceivedInv /\ BeginInv /\ NoEventLost

-----------------------------------------------------------------------------
(* What the elements of a sequence are after the operations used here.     *)
LEMMA RangeAppend ==
    ASSUME NEW S, NEW s \in Seq(S), NEW e \in S
    PROVE  Range(Append(s, e)) = Range(s) \cup {e}
<1>1. \A i \in 1..Len(s) : Append(s, e)[i] = s[i]
  OBVIOUS
<1>2. Append(s, e)[Len(s) + 1] = e /\ Len(Append(s, e)) = Len(s) + 1 /\ Len(s) \in Nat
  OBVIOUS
<1>3. DOMAIN Append(s, e) = 1..Len(s) + 1 /\ DOMAIN s = 1..Len(s)
  OBVIOUS
<1>4. ASSUME NEW x \in Range(Append(s, e)) PROVE x \in Range(s) \cup {e}
  <2>1. PICK i \in 1..Len(s) + 1 : x = Append(s, e)[i]
    BY <1>3, <1>4 DEF Range
  <2>2. CASE i = Len(s) + 1
    BY <1>2, <2>1, <2>2
  <2>3. CASE i \in 1..Len(s)
    BY <1>1, <1>3, <2>1, <2>3 DEF Range
  <2>. QED BY <1>2, <2>1, <2>2, <2>3
<1>5. ASSUME NEW x \in Range(s) PROVE x \in Range(Append(s, e))
  <2>1. PICK i \in 1..Len(s) : x = s[i]
    BY <1>3, <1>5 DEF Range
  <2>2. i \in 1..Len(s) + 1 /\ Append(s, e)[i] = x
    BY <1>1, <1>2, <2>1
  <2>. QED BY <1>3, <2>2 DEF Range
<1>6. e \in Range(Append(s, e))
  <2>1. Len(s) + 1 \in 1..Len(s) + 1
    BY <1>2
  <2>. QED BY <1>2, <1>3, <2>1 DEF Range
<1>. QED BY <1>4, <1>5, <1>6

LEMMA RangeSubset ==
    ASSUME NEW S, NEW s \in Seq(S)
    PROVE  Range(s) \subseteq S
<1>. SUFFICES ASSUME NEW x \in Range(s) PROVE x \in S
  OBVIOUS
<1>1. PICK i \in DOMAIN s : x = s[i]
  BY DEF Range
<1>. QED BY <1>1

LEMMA RangeOfEmpty == Range(<<>>) = {}
BY DEF Range

LEMMA RangeOfOne == \A e : Range(<<e>>) = {e}
BY DEF Range

LEMMA RangeOfPrefix ==
    ASSUME NEW S, NEW s \in Seq(S), NEW n \in 0..Len(s)
    PROVE  Range(SubSeq(s, 1, n)) \subseteq Range(s)
<1>. SUFFICES ASSUME NEW x \in Range(SubSeq(s, 1, n)) PROVE x \in Range(s)
  OBVIOUS
<1>1. DOMAIN SubSeq(s, 1, n) = 1..n /\ DOMAIN s = 1..Len(s) /\ Len(s) \in Nat
  OBVIOUS
<1>2. PICK i \in 1..n : x = SubSeq(s, 1, n)[i]
  BY <1>1 DEF Range
<1>3. x = s[i]
  BY <1>1, <1>2
<1>. QED BY <1>1, <1>2, <1>3 DEF Range

-----------------------------------------------------------------------------
(* A batch given to the consumer is a sequence of envelopes. *)
LEMMA SubmitBuffers ==
    ASSUME TypeOK, NEW e \in Envelopes, e.tx \in TxIds
    PROVE  /\ pendingTransactions[e.tx] \in Seq(Envelopes)
           /\ Append(pendingTransactions[e.tx], e) \in Seq(Envelopes)
BY DEF TypeOK

LEMMA InitTypes == Init => TypeOK
<1>1. InitialStats \in DeliveryStats
  BY DEF InitialStats, DeliveryStats
<1>2. <<>> \in Seq(Envelopes)
  OBVIOUS
<1>. QED BY <1>1, <1>2 DEF Init, TypeOK, Threads

(* Counting an event, a delivery, a retry or a failure keeps the types. *)
LEMMA StatsTypes ==
    ASSUME NEW s \in DeliveryStats, NEW n \in Nat, NEW p \in Nat
    PROVE  /\ [s EXCEPT !.submitted = @ + 1] \in DeliveryStats
           /\ [s EXCEPT !.failed = @ + 1] \in DeliveryStats
           /\ [s EXCEPT !.retried = IF @ < MaxRetries THEN @ + 1 ELSE @] \in DeliveryStats
           /\ [s EXCEPT !.batches = @ + 1, !.delivered = @ + n, !.lastPosition = p]
                 \in DeliveryStats
<1>1. [s EXCEPT !.submitted = @ + 1] \in DeliveryStats
  BY DEF DeliveryStats
<1>2. [s EXCEPT !.failed = @ + 1] \in DeliveryStats
  BY DEF DeliveryStats
<1>3. [s EXCEPT !.retried = IF @ < MaxRetries THEN @ + 1 ELSE @] \in DeliveryStats
  <2>1. (IF s.retried < MaxRetries THEN s.retried + 1 ELSE s.retried) \in Nat
    BY DEF DeliveryStats
  <2>. QED BY <2>1 DEF DeliveryStats
<1>4. [s EXCEPT !.batches = @ + 1, !.delivered = @ + n, !.lastPosition = p]
         \in DeliveryStats
  <2>1. s.batches + 1 \in Nat /\ s.delivered + n \in Nat
    BY DEF DeliveryStats
  <2>. QED BY <2>1 DEF DeliveryStats
<1>. QED BY <1>1, <1>2, <1>3, <1>4

LEMMA SubmitTypes ==
    ASSUME TypeOK, NEW t \in Callers, NEW e \in Envelopes, Submit(t, e)
    PROVE  TypeOK'
<1>1. /\ running' \in BOOLEAN
      /\ loop' \in [LoopThreads -> {"off", "top", "asleep", "flushing"}]
      /\ submitted' \subseteq Envelopes
      /\ received' \subseteq Envelopes
      /\ lost' \subseteq Envelopes
  BY DEF Submit, TypeOK
<1>2. stats' \in DeliveryStats
  BY StatsTypes DEF Submit, TypeOK
<1>3. /\ pendingTransactions' \in [TxIds -> Seq(Envelopes)]
      /\ nonTxBuffer' \in Seq(Envelopes)
      /\ bufferMarked' \in BOOLEAN
      /\ owner' \in Threads \cup {NoThread}
      /\ batch' \in Seq(Envelopes)
      /\ stage' \in {"idle", "deliver", "backoff", "delivered", "acking"}
  <2>1. CASE OpenTransaction(e)
    BY <2>1 DEF OpenTransaction, OpensTransaction, Transactional, delivery, TypeOK
  <2>2. CASE BufferEvent(e)
    BY <2>2 DEF BufferEvent, delivery, TypeOK
  <2>3. CASE ExtendTransaction(e)
    BY <2>3 DEF ExtendTransaction, JoinsTransaction, Transactional, delivery, TypeOK
  <2>4. CASE DeliverTransaction(t, e)
    BY <2>4 DEF DeliverTransaction, StartDelivery, JoinsTransaction, Transactional,
                Threads, TypeOK
  <2>. QED BY <2>1, <2>2, <2>3, <2>4 DEF Submit
<1>. QED BY <1>1, <1>2, <1>3 DEF TypeOK

LEMMA NextTypes == TypeOK /\ [Next]_deliveryVars => TypeOK'
<1>. SUFFICES ASSUME TypeOK, [Next]_deliveryVars PROVE TypeOK'
  OBVIOUS
<1>. USE DEF TypeOK
<1>1. ASSUME NEW t \in Callers, NEW e \in Envelopes, Submit(t, e) PROVE TypeOK'
  BY <1>1, SubmitTypes
<1>2. ASSUME NEW t \in Callers, Flush(t) PROVE TypeOK'
  <2>1. <<>> \in Seq(Envelopes)
    OBVIOUS
  <2>. QED BY <1>2, <2>1 DEF Flush, TakeBuffer, StartDelivery, history, Threads
<1>3. CASE Start
  BY <1>3 DEF Start, buffers, delivery, history
<1>4. CASE Stop
  BY <1>4 DEF Stop, buffers, delivery, history
<1>5. ASSUME NEW l \in LoopThreads, LoopTop(l) \/ LoopSkip(l) PROVE TypeOK'
  BY <1>5 DEF LoopTop, LoopSkip, buffers, delivery, history
<1>6. ASSUME NEW l \in LoopThreads, LoopFlush(l) PROVE TypeOK'
  <2>1. <<>> \in Seq(Envelopes)
    OBVIOUS
  <2>. QED BY <1>6, <2>1 DEF LoopFlush, TakeBuffer, StartDelivery, history, Threads
<1>7. CASE DeliverOk
  BY <1>7, RangeSubset DEF DeliverOk, buffers
<1>8. CASE DeliverRaises
  <2>1. PICK n \in 0..Len(batch) : received' = received \cup Range(SubSeq(batch, 1, n))
    BY <1>8 DEF DeliverRaises
  <2>2. received' \subseteq Envelopes
    BY <2>1, RangeSubset, RangeOfPrefix
  <2>3. stats' \in DeliveryStats
    BY <1>8, StatsTypes DEF DeliverRaises
  <2>. QED BY <1>8, <2>2, <2>3 DEF DeliverRaises, buffers
<1>9. CASE Retry
  BY <1>9 DEF Retry, buffers, history
<1>10. CASE GiveUp
  <2>1. lost' \subseteq Envelopes
    BY <1>10, RangeSubset DEF GiveUp
  <2>2. stats' \in DeliveryStats
    BY <1>10, StatsTypes DEF GiveUp
  <2>3. loop' \in [LoopThreads -> {"off", "top", "asleep", "flushing"}]
    BY <1>10 DEF GiveUp, Release
  <2>. QED BY <1>10, <2>1, <2>2, <2>3 DEF GiveUp, Release, buffers
<1>11. CASE Return
  <2>1. loop' \in [LoopThreads -> {"off", "top", "asleep", "flushing"}]
    BY <1>11 DEF Return, Release
  <2>. QED BY <1>11, <2>1 DEF Return, Release, buffers, history
<1>12. ASSUME NEW e \in Envelopes, Confirm(e.pos) PROVE TypeOK'
  <2>1. e.pos \in Nat /\ Len(batch) \in Nat
    BY EnvelopesAssumption
  <2>2. stats' \in DeliveryStats
    BY <1>12, <2>1, StatsTypes DEF Confirm
  <2>. QED BY <1>12, <2>2 DEF Confirm, buffers, history
<1>13. CASE UNCHANGED deliveryVars
  BY <1>13 DEF deliveryVars, buffers, delivery, history
<1>. QED
  BY <1>1, <1>2, <1>3, <1>4, <1>5, <1>6, <1>7, <1>8, <1>9, <1>10, <1>11, <1>12,
     <1>13 DEF Next, Resolve, Advance

(* Every field of DeliveryManager and of its statistics keeps its type.    *)
THEOREM TypeCorrect == Spec => []TypeOK
BY InitTypes, NextTypes, PTL DEF Spec

-----------------------------------------------------------------------------
LEMMA InitEstablishes == Init => IInv
BY InitTypes DEF Init, IInv, LockInv, ReceivedInv, BeginInv, NoEventLost

(* Replacing one pending transaction keeps the events of all others. *)
LEMMA PendingUpdate ==
    ASSUME TypeOK, NEW tx \in TxIds, NEW s,
           pendingTransactions' = [pendingTransactions EXCEPT ![tx] = s]
    PROVE  /\ Pending \ Range(pendingTransactions[tx]) \subseteq Pending'
           /\ Range(s) \subseteq Pending'
<1>1. pendingTransactions'[tx] = s
  BY DEF TypeOK
<1>2. ASSUME NEW x \in Pending, x \notin Range(pendingTransactions[tx])
      PROVE  x \in Pending'
  <2>1. PICK u \in TxIds : x \in Range(pendingTransactions[u])
    BY DEF Pending
  <2>2. u # tx /\ pendingTransactions'[u] = pendingTransactions[u]
    BY <1>2, <2>1 DEF TypeOK
  <2>. QED BY <2>1, <2>2 DEF Pending
<1>. QED BY <1>1, <1>2 DEF Pending

(* No transaction is buffered under the id of a BEGIN not submitted yet. *)
LEMMA FreshBegin ==
    ASSUME IInv, NEW e \in Envelopes, e \notin submitted, OpensTransaction(e)
    PROVE  e.tx \in TxIds /\ pendingTransactions[e.tx] = <<>>
<1>1. e.tx \in TxIds /\ e.type = "tx_begin"
  BY DEF OpensTransaction, Transactional
<1>2. ASSUME pendingTransactions[e.tx] # <<>> PROVE FALSE
  <2>1. PICK b \in submitted : b.type = "tx_begin" /\ b.tx = e.tx
    BY <1>1, <1>2 DEF IInv, BeginInv
  <2>2. b \in Envelopes
    BY DEF IInv, TypeOK
  <2>3. b = e
    <3>. SUFFICES ASSUME b # e PROVE FALSE
      OBVIOUS
    <3>1. e.pos < b.pos /\ b.pos < e.pos
      BY <1>1, <2>1, <2>2, TransactionsAssumption
    <3>2. e.pos \in Nat /\ b.pos \in Nat
      BY <2>2, EnvelopesAssumption
    <3>. QED BY <3>1, <3>2
  <2>. QED BY <2>3
<1>. QED BY <1>1, <1>2

LEMMA SubmitPreserves ==
    ASSUME IInv, NEW t \in Callers, NEW e \in Envelopes, e \notin submitted,
           Submit(t, e)
    PROVE  LockInv' /\ ReceivedInv' /\ BeginInv' /\ NoEventLost'
<1>. USE DEF IInv
<1>1. /\ owner = NoThread /\ stage = "idle" /\ batch = <<>> /\ t # NoThread
      /\ submitted' = submitted \cup {e} /\ received' = received /\ lost' = lost
  BY ParametersAssumption DEF Submit, LockInv
<1>2. CASE OpenTransaction(e)
  <2>1. /\ e.tx \in TxIds /\ e.type = "tx_begin" /\ pendingTransactions[e.tx] = <<>>
        /\ pendingTransactions' = [pendingTransactions EXCEPT ![e.tx] = <<e>>]
        /\ nonTxBuffer' = nonTxBuffer /\ UNCHANGED delivery
    BY <1>2, FreshBegin DEF OpenTransaction, OpensTransaction
  <2>2. Pending \subseteq Pending' /\ e \in Pending'
    BY <2>1, PendingUpdate, RangeOfEmpty, RangeOfOne
  <2>3. NoEventLost'
    BY <1>1, <2>1, <2>2 DEF NoEventLost, delivery
  <2>4. BeginInv'
    BY <1>1, <2>1 DEF BeginInv, TypeOK
  <2>. QED BY <1>1, <2>1, <2>3, <2>4 DEF LockInv, ReceivedInv, delivery
<1>3. CASE BufferEvent(e)
  <2>1. /\ pendingTransactions' = pendingTransactions /\ UNCHANGED delivery
        /\ nonTxBuffer' = Append(nonTxBuffer, e)
    BY <1>3 DEF BufferEvent
  <2>2. Range(nonTxBuffer') = Range(nonTxBuffer) \cup {e}
    BY <2>1, RangeAppend DEF TypeOK
  <2>3. NoEventLost'
    BY <1>1, <2>1, <2>2 DEF NoEventLost, delivery, Pending
  <2>. QED BY <1>1, <2>1, <2>3 DEF LockInv, ReceivedInv, BeginInv, delivery
<1>4. CASE ExtendTransaction(e)
  <2>1. /\ e.tx \in TxIds /\ pendingTransactions[e.tx] # <<>>
        /\ pendingTransactions' =
              [pendingTransactions EXCEPT ![e.tx] = Append(pendingTransactions[e.tx], e)]
        /\ nonTxBuffer' = nonTxBuffer /\ UNCHANGED delivery
    BY <1>4 DEF ExtendTransaction, JoinsTransaction, Transactional
  <2>2. Range(Append(pendingTransactions[e.tx], e))
            = Range(pendingTransactions[e.tx]) \cup {e}
    BY <2>1, RangeAppend DEF TypeOK
  <2>3. Pending \subseteq Pending' /\ e \in Pending'
    BY <2>1, <2>2, PendingUpdate
  <2>4. NoEventLost'
    BY <1>1, <2>1, <2>3 DEF NoEventLost, delivery
  <2>5. BeginInv'
    BY <1>1, <2>1 DEF BeginInv, TypeOK
  <2>. QED BY <1>1, <2>1, <2>4, <2>5 DEF LockInv, ReceivedInv, delivery
<1>5. CASE DeliverTransaction(t, e)
  <2>1. /\ e.tx \in TxIds
        /\ pendingTransactions' = [pendingTransactions EXCEPT ![e.tx] = <<>>]
        /\ owner' = t /\ stage' = "deliver" /\ nonTxBuffer' = nonTxBuffer
        /\ batch' = Append(pendingTransactions[e.tx], e)
    BY <1>5 DEF DeliverTransaction, JoinsTransaction, Transactional, StartDelivery
  <2>2. Range(batch') = Range(pendingTransactions[e.tx]) \cup {e}
    BY <2>1, RangeAppend DEF TypeOK
  <2>3. Pending \subseteq Pending' \cup Range(batch')
    BY <2>1, <2>2, PendingUpdate
  <2>4. NoEventLost'
    BY <1>1, <2>1, <2>2, <2>3, RangeOfEmpty DEF NoEventLost
  <2>5. BeginInv'
    BY <1>1, <2>1 DEF BeginInv, TypeOK
  <2>. QED BY <1>1, <2>1, <2>4, <2>5 DEF LockInv, ReceivedInv
<1>. QED BY <1>2, <1>3, <1>4, <1>5 DEF Submit

(* The buffer becomes the batch of a thread that found the lock free. *)
LEMMA TakePreserves ==
    ASSUME IInv, NEW t \in Threads, owner = NoThread, TakeBuffer(t), UNCHANGED history
    PROVE  LockInv' /\ ReceivedInv' /\ BeginInv' /\ NoEventLost'
<1>. USE DEF IInv
<1>1. /\ batch = <<>> /\ t # NoThread /\ owner' = t /\ stage' = "deliver"
      /\ batch' = nonTxBuffer /\ nonTxBuffer' = <<>>
      /\ pendingTransactions' = pendingTransactions
      /\ submitted' = submitted /\ received' = received /\ lost' = lost
  BY ParametersAssumption
     DEF TakeBuffer, StartDelivery, LockInv, history, Threads
<1>2. NoEventLost'
  BY <1>1, RangeOfEmpty DEF NoEventLost, Pending
<1>. QED BY <1>1, <1>2 DEF LockInv, ReceivedInv, BeginInv

LEMMA NextPreserves == IInv /\ [Next]_deliveryVars => IInv'
<1>. SUFFICES ASSUME IInv, [Next]_deliveryVars
              PROVE  LockInv' /\ ReceivedInv' /\ BeginInv' /\ NoEventLost'
  BY NextTypes DEF IInv
<1>. USE DEF IInv
<1>1. ASSUME NEW t \in Callers, NEW e \in Envelopes, Submissible(e), Submit(t, e)
      PROVE  LockInv' /\ ReceivedInv' /\ BeginInv' /\ NoEventLost'
  BY <1>1, SubmitPreserves DEF Submissible
<1>2. ASSUME NEW t \in Callers, Flush(t)
      PROVE  LockInv' /\ ReceivedInv' /\ BeginInv' /\ NoEventLost'
  BY <1>2, TakePreserves DEF Flush, Threads
<1>3. ASSUME NEW l \in LoopThreads, LoopFlush(l)
      PROVE  LockInv' /\ ReceivedInv' /\ BeginInv' /\ NoEventLost'
  BY <1>3, TakePreserves DEF LoopFlush, Threads
<1>4. ASSUME UNCHANGED <<buffers, delivery, history>>
      PROVE  LockInv' /\ ReceivedInv' /\ BeginInv' /\ NoEventLost'
  BY <1>4 DEF buffers, delivery, history, LockInv, ReceivedInv, BeginInv, NoEventLost,
              Pending
<1>5. CASE DeliverOk
  BY <1>5 DEF DeliverOk, buffers, LockInv, ReceivedInv, BeginInv, NoEventLost, Pending
<1>6. CASE DeliverRaises
  BY <1>6 DEF DeliverRaises, buffers, LockInv, ReceivedInv, BeginInv, NoEventLost,
              Pending
<1>7. CASE Retry
  BY <1>7 DEF Retry, buffers, history, LockInv, ReceivedInv, BeginInv, NoEventLost,
              Pending
<1>8. CASE GiveUp
  BY <1>8, RangeOfEmpty
     DEF GiveUp, Release, buffers, LockInv, ReceivedInv, BeginInv, NoEventLost, Pending
<1>9. CASE Return
  BY <1>9, RangeOfEmpty
     DEF Return, Release, buffers, history, LockInv, ReceivedInv, BeginInv, NoEventLost,
         Pending
<1>10. ASSUME NEW e \in Envelopes, Confirm(e.pos)
       PROVE  LockInv' /\ ReceivedInv' /\ BeginInv' /\ NoEventLost'
  BY <1>10 DEF Confirm, buffers, history, LockInv, ReceivedInv, BeginInv, NoEventLost,
               Pending
<1>11. Start \/ Stop \/ UNCHANGED deliveryVars
         \/ (\E l \in LoopThreads : LoopTop(l) \/ LoopSkip(l))
         => UNCHANGED <<buffers, delivery, history>>
  BY DEF Start, Stop, LoopTop, LoopSkip, deliveryVars
<1>. QED
  BY <1>1, <1>2, <1>3, <1>4, <1>5, <1>6, <1>7, <1>8, <1>9, <1>10, <1>11
     DEF Next, Resolve, Advance

(* Every submitted event is in a buffer, in flight, with the consumer, or  *)
(* in a batch given up after stop(): delivery.py drops nothing on its way  *)
(* through capped, orphaned and completed transactions and retries.        *)
THEOREM NothingLost == Spec => []NoEventLost
<1>1. IInv => NoEventLost
  BY DEF IInv
<1>. QED BY <1>1, InitEstablishes, NextPreserves, PTL DEF Spec

-----------------------------------------------------------------------------
(* The order of delivery: events outside transactions come in log order.   *)

OnItsWay == Pending \cup Range(nonTxBuffer) \cup Range(batch) \cup received

OriginInv == OnItsWay \subseteq submitted

PendingInv == \A e \in Pending : Transactional(e)

BufferInv == InLogOrder(nonTxBuffer)

BatchInv ==
    \A e \in Range(batch) :
        ~Transactional(e) => nonTxBuffer = <<>> /\ InLogOrder(batch)

QueueInv == OriginInv /\ PendingInv /\ BufferInv /\ BatchInv

OrderInv == IInv /\ QueueInv /\ QueueInOrder

-----------------------------------------------------------------------------
LEMMA EmptyInOrder == InLogOrder(<<>>)
BY DEF InLogOrder

LEMMA AppendInOrder ==
    ASSUME NEW s \in Seq(Envelopes), InLogOrder(s), NEW e \in Envelopes,
           \A x \in Range(s) : x.pos <= e.pos
    PROVE  InLogOrder(Append(s, e))
<1>1. /\ Len(s) \in Nat /\ DOMAIN s = 1..Len(s)
      /\ DOMAIN Append(s, e) = 1..Len(s) + 1
      /\ Append(s, e)[Len(s) + 1] = e
  OBVIOUS
<1>2. \A i \in 1..Len(s) : Append(s, e)[i] = s[i] /\ s[i] \in Range(s)
  BY <1>1 DEF Range
<1>. SUFFICES ASSUME NEW i \in 1..Len(s) + 1, NEW j \in 1..Len(s) + 1, i < j
              PROVE  Append(s, e)[i].pos <= Append(s, e)[j].pos
  BY <1>1 DEF InLogOrder
<1>3. i \in 1..Len(s)
  BY <1>1
<1>4. CASE j = Len(s) + 1
  BY <1>1, <1>2, <1>3, <1>4
<1>5. CASE j \in 1..Len(s)
  BY <1>1, <1>2, <1>3, <1>5 DEF InLogOrder
<1>. QED BY <1>1, <1>4, <1>5

(* A prefix of a sequence in log order has all that is before its events. *)
LEMMA PrefixClosed ==
    ASSUME NEW s \in Seq(Envelopes), InLogOrder(s), NEW n \in 0..Len(s),
           NEW e \in Range(SubSeq(s, 1, n)), NEW f \in Range(s), f.pos < e.pos
    PROVE  f \in Range(SubSeq(s, 1, n))
<1>1. /\ DOMAIN SubSeq(s, 1, n) = 1..n /\ DOMAIN s = 1..Len(s) /\ Len(s) \in Nat
      /\ \A k \in 1..n : SubSeq(s, 1, n)[k] = s[k]
  OBVIOUS
<1>2. PICK i \in 1..n : e = s[i]
  BY <1>1 DEF Range
<1>3. PICK j \in 1..Len(s) : f = s[j]
  BY <1>1 DEF Range
<1>4. s[i].pos \in Nat /\ s[j].pos \in Nat
  <2>1. s[i] \in Envelopes /\ s[j] \in Envelopes
    BY <1>1
  <2>. QED BY <2>1, EnvelopesAssumption
<1>5. ~ i < j
  BY <1>1, <1>2, <1>3, <1>4 DEF InLogOrder
<1>6. j \in 1..n /\ f = SubSeq(s, 1, n)[j]
  BY <1>1, <1>3, <1>5
<1>. QED BY <1>1, <1>6 DEF Range

(* Replacing one pending transaction adds at most its new events. *)
LEMMA PendingAtMost ==
    ASSUME TypeOK, NEW tx \in TxIds, NEW s,
           pendingTransactions' = [pendingTransactions EXCEPT ![tx] = s]
    PROVE  Pending' \subseteq Pending \cup Range(s)
<1>. SUFFICES ASSUME NEW x \in Pending' PROVE x \in Pending \cup Range(s)
  OBVIOUS
<1>1. PICK u \in TxIds : x \in Range(pendingTransactions'[u])
  BY DEF Pending
<1>2. pendingTransactions'[u] = IF u = tx THEN s ELSE pendingTransactions[u]
  BY DEF TypeOK
<1>. QED BY <1>1, <1>2 DEF Pending

-----------------------------------------------------------------------------
LEMMA InitInOrder == Init => QueueInv /\ QueueInOrder
<1>. SUFFICES ASSUME Init PROVE QueueInv /\ QueueInOrder
  OBVIOUS
<1>1. Pending = {}
  BY RangeOfEmpty DEF Init, Pending
<1>. QED
  BY <1>1, RangeOfEmpty, EmptyInOrder
     DEF Init, QueueInv, OriginInv, OnItsWay, PendingInv, BufferInv, BatchInv,
         QueueInOrder

(* A new event is not before anything the consumer has. *)
LEMMA SubmitInOrder ==
    ASSUME OrderInv, NEW e \in Envelopes, Submissible(e),
           submitted' = submitted \cup {e}, received' = received, lost' = lost
    PROVE  QueueInOrder'
<1>. SUFFICES ASSUME NEW g \in received, NEW f \in submitted \cup {e},
                     ~Transactional(g), ~Transactional(f), f.pos < g.pos
              PROVE  f \in received \cup lost
  BY DEF QueueInOrder, Transactional
<1>1. g \in submitted /\ g \in Envelopes
  BY DEF OrderInv, QueueInv, OriginInv, OnItsWay, IInv, TypeOK
<1>2. f # e
  <2>1. g.pos <= e.pos /\ g.pos \in Nat /\ e.pos \in Nat
    BY <1>1, EnvelopesAssumption DEF Submissible
  <2>. QED BY <2>1
<1>. QED BY <1>2 DEF OrderInv, QueueInOrder

LEMMA SubmitQueue ==
    ASSUME OrderInv, NEW t \in Callers, NEW e \in Envelopes, Submissible(e),
           Submit(t, e)
    PROVE  QueueInv'
<1>. USE DEF OrderInv, IInv
<1>1. /\ batch = <<>> /\ stage = "idle" /\ Range(batch) = {}
      /\ submitted' = submitted \cup {e} /\ received' = received
  BY RangeOfEmpty DEF Submit, LockInv
<1>2. /\ Pending \subseteq submitted /\ Range(nonTxBuffer) \subseteq submitted
      /\ received \subseteq submitted
  BY DEF QueueInv, OriginInv, OnItsWay
<1>3. CASE OpenTransaction(e)
  <2>1. /\ e.tx \in TxIds /\ Transactional(e)
        /\ pendingTransactions' = [pendingTransactions EXCEPT ![e.tx] = <<e>>]
        /\ nonTxBuffer' = nonTxBuffer /\ batch' = batch
    BY <1>3 DEF OpenTransaction, OpensTransaction, Transactional, delivery
  <2>2. Pending' \subseteq Pending \cup {e}
    BY <2>1, PendingAtMost, RangeOfOne
  <2>3. OriginInv' /\ PendingInv'
    BY <1>1, <1>2, <2>1, <2>2
       DEF OriginInv, OnItsWay, PendingInv, QueueInv, Transactional
  <2>. QED BY <1>1, <2>1, <2>3 DEF QueueInv, BufferInv, BatchInv
<1>4. CASE BufferEvent(e)
  <2>1. /\ pendingTransactions' = pendingTransactions /\ batch' = batch
        /\ nonTxBuffer' = Append(nonTxBuffer, e)
    BY <1>4 DEF BufferEvent, delivery
  <2>2. Range(nonTxBuffer') = Range(nonTxBuffer) \cup {e}
    BY <2>1, RangeAppend DEF TypeOK
  <2>3. OriginInv' /\ PendingInv'
    BY <1>1, <1>2, <2>1, <2>2
       DEF OriginInv, OnItsWay, PendingInv, QueueInv, Transactional, Pending
  <2>4. \A x \in Range(nonTxBuffer) : x.pos <= e.pos
    BY <1>2 DEF Submissible
  <2>5. BufferInv'
    BY <2>1, <2>4, AppendInOrder DEF QueueInv, BufferInv, TypeOK
  <2>. QED BY <1>1, <2>1, <2>3, <2>5 DEF QueueInv, BatchInv
<1>5. CASE ExtendTransaction(e)
  <2>1. /\ e.tx \in TxIds /\ Transactional(e)
        /\ pendingTransactions' =
              [pendingTransactions EXCEPT ![e.tx] = Append(pendingTransactions[e.tx], e)]
        /\ nonTxBuffer' = nonTxBuffer /\ batch' = batch
    BY <1>5 DEF ExtendTransaction, JoinsTransaction, Transactional, delivery
  <2>2. Range(Append(pendingTransactions[e.tx], e))
            = Range(pendingTransactions[e.tx]) \cup {e}
    BY <2>1, RangeAppend DEF TypeOK
  <2>3. Pending' \subseteq Pending \cup {e}
    BY <2>1, <2>2, PendingAtMost DEF Pending
  <2>4. OriginInv' /\ PendingInv'
    BY <1>1, <1>2, <2>1, <2>3
       DEF OriginInv, OnItsWay, PendingInv, QueueInv, Transactional
  <2>. QED BY <1>1, <2>1, <2>4 DEF QueueInv, BufferInv, BatchInv
<1>6. CASE DeliverTransaction(t, e)
  <2>1. /\ e.tx \in TxIds /\ Transactional(e)
        /\ pendingTransactions' = [pendingTransactions EXCEPT ![e.tx] = <<>>]
        /\ nonTxBuffer' = nonTxBuffer
        /\ batch' = Append(pendingTransactions[e.tx], e)
    BY <1>6 DEF DeliverTransaction, JoinsTransaction, Transactional, StartDelivery
  <2>2. Range(batch') = Range(pendingTransactions[e.tx]) \cup {e}
    BY <2>1, RangeAppend DEF TypeOK
  <2>3. Pending' \subseteq Pending /\ Range(batch') \subseteq Pending \cup {e}
    BY <2>1, <2>2, PendingAtMost, RangeOfEmpty DEF Pending
  <2>4. OriginInv' /\ PendingInv' /\ \A x \in Range(batch') : Transactional(x)
    BY <1>1, <1>2, <2>1, <2>3
       DEF OriginInv, OnItsWay, PendingInv, QueueInv, Transactional
  <2>. QED BY <2>1, <2>4 DEF QueueInv, BufferInv, BatchInv, Transactional
<1>. QED BY <1>3, <1>4, <1>5, <1>6 DEF Submit

(* The whole queue becomes the batch. *)
LEMMA TakeInOrder ==
    ASSUME OrderInv, NEW t \in Threads, owner = NoThread, TakeBuffer(t), UNCHANGED history
    PROVE  QueueInv' /\ QueueInOrder'
<1>1. /\ batch' = nonTxBuffer /\ nonTxBuffer' = <<>>
      /\ pendingTransactions' = pendingTransactions
      /\ submitted' = submitted /\ received' = received /\ lost' = lost
  BY DEF TakeBuffer, StartDelivery, history
<1>2. OriginInv' /\ PendingInv'
  BY <1>1, RangeOfEmpty
     DEF OrderInv, QueueInv, OriginInv, OnItsWay, PendingInv, Pending, Transactional
<1>3. BufferInv' /\ BatchInv'
  BY <1>1, EmptyInOrder DEF OrderInv, QueueInv, BufferInv, BatchInv, InLogOrder
<1>. QED BY <1>1, <1>2, <1>3 DEF OrderInv, QueueInv, QueueInOrder, Transactional

(* The consumer takes a prefix of the batch, which may be all of it: what  *)
(* precedes one of its events in the queue is in the prefix or was         *)
(* delivered or given up before.                                           *)
LEMMA ReceiveInOrder ==
    ASSUME OrderInv, NEW n \in 0..Len(batch),
           received' = received \cup Range(SubSeq(batch, 1, n)),
           UNCHANGED <<buffers, batch, submitted, lost>>
    PROVE  QueueInv' /\ QueueInOrder'
<1>. USE DEF OrderInv, IInv
<1>1. batch \in Seq(Envelopes)
  BY DEF TypeOK
<1>2. Range(SubSeq(batch, 1, n)) \subseteq Range(batch)
  BY <1>1, RangeOfPrefix
<1>3. QueueInv'
  BY <1>2 DEF QueueInv, OriginInv, OnItsWay, PendingInv, BufferInv, BatchInv, Pending,
              Transactional, InLogOrder, buffers
<1>4. ASSUME NEW e \in Range(SubSeq(batch, 1, n)), NEW f \in submitted,
             ~Transactional(e), ~Transactional(f), f.pos < e.pos
      PROVE  f \in received \cup Range(SubSeq(batch, 1, n)) \cup lost
  <2>1. nonTxBuffer = <<>> /\ InLogOrder(batch)
    BY <1>2, <1>4 DEF QueueInv, BatchInv
  <2>2. f \in Range(batch) \cup received \cup lost
    BY <1>4, <2>1, RangeOfEmpty DEF NoEventLost, QueueInv, PendingInv
  <2>. QED BY <1>1, <1>4, <2>1, <2>2, PrefixClosed
<1>5. QueueInOrder'
  BY <1>4 DEF QueueInOrder, Transactional
<1>. QED BY <1>3, <1>5

LEMMA WholeBatch ==
    ASSUME NEW S, NEW s \in Seq(S)
    PROVE  Len(s) \in 0..Len(s) /\ SubSeq(s, 1, Len(s)) = s
OBVIOUS

LEMMA NextInOrder == OrderInv /\ [Next]_deliveryVars => OrderInv'
<1>. SUFFICES ASSUME OrderInv, [Next]_deliveryVars
              PROVE  QueueInv' /\ QueueInOrder'
  BY NextPreserves DEF OrderInv
<1>1. ASSUME NEW t \in Callers, NEW e \in Envelopes, Submissible(e), Submit(t, e)
      PROVE  QueueInv' /\ QueueInOrder'
  BY <1>1, SubmitQueue, SubmitInOrder DEF Submit
<1>2. ASSUME NEW t \in Callers, Flush(t) PROVE QueueInv' /\ QueueInOrder'
  BY <1>2, TakeInOrder DEF Flush, Threads
<1>3. ASSUME NEW l \in LoopThreads, LoopFlush(l) PROVE QueueInv' /\ QueueInOrder'
  BY <1>3, TakeInOrder DEF LoopFlush, Threads
<1>4. CASE DeliverOk
  <2>1. batch \in Seq(Envelopes)
    BY DEF OrderInv, IInv, TypeOK
  <2>2. Len(batch) \in 0..Len(batch) /\ SubSeq(batch, 1, Len(batch)) = batch
    BY <2>1, WholeBatch
  <2>. QED BY <1>4, <2>2, ReceiveInOrder DEF DeliverOk
<1>5. CASE DeliverRaises
  BY <1>5, ReceiveInOrder DEF DeliverRaises
<1>6. ASSUME UNCHANGED <<buffers, received, submitted>>, lost \subseteq lost',
             batch' = batch \/ batch' = <<>>
      PROVE  QueueInv' /\ QueueInOrder'
  <2>1. Range(batch') \subseteq Range(batch)
    BY <1>6, RangeOfEmpty
  <2>2. OriginInv' /\ PendingInv'
    BY <1>6, <2>1 DEF OrderInv, QueueInv, OriginInv, OnItsWay, PendingInv, Pending,
                      Transactional, buffers
  <2>3. BufferInv' /\ BatchInv'
    BY <1>6, <2>1, EmptyInOrder
       DEF OrderInv, QueueInv, BufferInv, BatchInv, InLogOrder, Transactional, buffers
  <2>. QED BY <1>6, <2>2, <2>3 DEF OrderInv, QueueInv, QueueInOrder, Transactional
<1>7. \/ Retry \/ GiveUp \/ Return \/ Start \/ Stop \/ UNCHANGED deliveryVars
      \/ \E e \in Envelopes : Confirm(e.pos)
      \/ \E l \in LoopThreads : LoopTop(l) \/ LoopSkip(l)
      => /\ UNCHANGED <<buffers, received, submitted>>
         /\ lost \subseteq lost'
         /\ batch' = batch \/ batch' = <<>>
  BY DEF Retry, GiveUp, Return, Release, Start, Stop, Confirm, LoopTop, LoopSkip,
         deliveryVars, history, delivery
<1>. QED
  BY <1>1, <1>2, <1>3, <1>4, <1>5, <1>6, <1>7 DEF Next, Resolve, Advance

(* The consumer receives what is outside transactions in log order, and    *)
(* everything if transaction boundaries are off: the loop, flush() and     *)
(* submit() share one buffer, and a failing consumer may stop anywhere in  *)
(* a batch of it (delivery.py, _flush_non_tx_locked, _deliver_with_retry). *)
THEOREM DeliveredInOrder == Spec => []QueueInOrder
<1>1. Init => OrderInv
  BY InitEstablishes, InitInOrder DEF OrderInv
<1>2. OrderInv => QueueInOrder
  BY DEF OrderInv
<1>. QED BY <1>1, <1>2, NextInOrder, PTL DEF Spec

-----------------------------------------------------------------------------
(* A transaction reaches the consumer in one piece and in order, and no    *)
(* COMMIT is delivered before what it commits.                             *)
(*                                                                         *)
(* TransactionsUndivided is nearly inductive: a BEGIN only ever opens a    *)
(* buffered transaction, and is the first event of it.  For                *)
(* CommitNeverOvertakes a COMMIT that goes through the buffer of other     *)
(* events (its BEGIN was missed, or the transaction outgrew the cap) must  *)
(* not leave a part of its transaction in _pending_transactions, so no     *)
(* buffered transaction has a COMMIT; and every batch is in log order, and *)
(* is a transaction or the whole buffer.                                   *)

(* What is buffered under an id begins with its BEGIN and has no COMMIT.   *)
OpenInv ==
    \A tx \in TxIds : pendingTransactions[tx] # <<>> =>
        /\ BoundaryEnabled
        /\ pendingTransactions[tx][1].type = "tx_begin"
        /\ pendingTransactions[tx][1].tx = tx
        /\ \A e \in Range(pendingTransactions[tx]) : e.type # "tx_commit"

(* WholeTransaction, with the set of events that were submitted. *)
WholeOf(s, S) ==
    s # <<>> /\ s[1].type = "tx_begin" /\ BoundaryEnabled =>
        Range(s) = {e \in S : e.tx = s[1].tx} /\ InLogOrder(s)

(* A buffered transaction is all that was submitted of it, in log order.   *)
WholeInv ==
    /\ \A tx \in TxIds : WholeTransaction(pendingTransactions[tx])
    /\ WholeTransaction(batch)

(* No BEGIN waits among the other events.                                  *)
NoBeginInv == \A e \in Range(nonTxBuffer) : ~OpensTransaction(e)

(* A batch is in log order, and a transaction or the whole buffer.         *)
KindInv ==
    /\ InLogOrder(batch)
    /\ batch # <<>> /\ nonTxBuffer # <<>> => OpensTransaction(batch[1])

TransactionInv ==
    OrderInv /\ OpenInv /\ WholeInv /\ NoBeginInv /\ KindInv /\ CommitNeverOvertakes

Parts == OpenInv /\ WholeInv /\ NoBeginInv /\ KindInv

-----------------------------------------------------------------------------
LEMMA EmptyIsWhole == WholeTransaction(<<>>)
BY DEF WholeTransaction

LEMMA OneInOrder == \A e \in Envelopes : InLogOrder(<<e>>)
BY EnvelopesAssumption DEF InLogOrder

LEMMA HeadOfAppend ==
    ASSUME NEW s \in Seq(Envelopes), s # <<>>, NEW e \in Envelopes
    PROVE  Append(s, e)[1] = s[1] /\ Append(s, e) # <<>> /\ s[1] \in Range(s)
<1>1. Len(s) \in Nat /\ Len(s) >= 1 /\ DOMAIN s = 1..Len(s)
  OBVIOUS
<1>2. 1 \in DOMAIN s
  BY <1>1
<1>3. Append(s, e)[1] = s[1] /\ Append(s, e) # <<>>
  BY <1>1
<1>. QED BY <1>2, <1>3 DEF Range

(* An id is buffered only if some BEGIN, and no COMMIT, of it was submitted. *)
LEMMA CommittedNotPending ==
    ASSUME TypeOK, OpenInv, WholeInv, NEW c \in submitted,
           c.type = "tx_commit", c.tx \in TxIds
    PROVE  pendingTransactions[c.tx] = <<>>
<1>. SUFFICES ASSUME pendingTransactions[c.tx] # <<>> PROVE FALSE
  OBVIOUS
<1>1. Range(pendingTransactions[c.tx]) = OfTransaction(c.tx)
  BY DEF OpenInv, WholeInv, WholeTransaction
<1>2. c \in OfTransaction(c.tx)
  BY DEF OfTransaction
<1>. QED BY <1>1, <1>2 DEF OpenInv

LEMMA WholeDefinition ==
    /\ WholeInv <=> (\A tx \in TxIds : WholeOf(pendingTransactions[tx], submitted))
                      /\ WholeOf(batch, submitted)
    /\ WholeInv' <=> (\A tx \in TxIds : WholeOf(pendingTransactions'[tx], submitted'))
                       /\ WholeOf(batch', submitted')
BY DEF WholeInv, WholeTransaction, WholeOf, OfTransaction, InLogOrder

(* A new event of another transaction does not change what is whole. *)
LEMMA OthersStayWhole ==
    ASSUME NEW s, NEW S, NEW e, WholeOf(s, S), s # <<>> => s[1].tx # e.tx
    PROVE  WholeOf(s, S \cup {e})
BY DEF WholeOf

-----------------------------------------------------------------------------
LEMMA InitTransactions == Init => Parts /\ CommitNeverOvertakes
BY EmptyIsWhole, EmptyInOrder, RangeOfEmpty
   DEF Init, Parts, OpenInv, WholeInv, NoBeginInv, KindInv, CommitNeverOvertakes

(* A BEGIN is the first event of its transaction. *)
LEMMA OpenParts ==
    ASSUME TransactionInv, NEW e \in Envelopes, Submissible(e), OpenTransaction(e),
           submitted' = submitted \cup {e}, batch = <<>>
    PROVE  Parts'
<1>. USE DEF TransactionInv, OrderInv, IInv
<1>1. /\ e.tx \in TxIds /\ e.type = "tx_begin" /\ BoundaryEnabled
      /\ pendingTransactions' = [pendingTransactions EXCEPT ![e.tx] = <<e>>]
      /\ nonTxBuffer' = nonTxBuffer /\ batch' = <<>> /\ e \notin submitted
  BY DEF OpenTransaction, OpensTransaction, Transactional, delivery, Submissible
<1>2. \A tx \in TxIds :
          pendingTransactions'[tx] = IF tx = e.tx THEN <<e>> ELSE pendingTransactions[tx]
  BY <1>1 DEF TypeOK
<1>3. OpenInv'
  <2>1. <<e>> # <<>> /\ <<e>>[1] = e /\ Range(<<e>>) = {e}
    BY RangeOfOne
  <2>. QED BY <1>1, <1>2, <2>1 DEF OpenInv
<1>4. ASSUME NEW f \in submitted, f.tx = e.tx PROVE FALSE
  <2>1. f \in Envelopes /\ f # e /\ f.pos <= e.pos
    BY <1>1 DEF TypeOK, Submissible
  <2>2. e.pos < f.pos
    BY <1>1, <1>4, <2>1, TransactionsAssumption
  <2>. QED BY <2>1, <2>2, EnvelopesAssumption
<1>5. WholeInv'
  <2>1. WholeOf(<<e>>, submitted')
    <3>1. {f \in submitted' : f.tx = e.tx} = {e}
      BY <1>4
    <3>2. <<e>>[1] = e /\ Range(<<e>>) = {e} /\ InLogOrder(<<e>>)
      BY RangeOfOne, OneInOrder
    <3>. QED BY <3>1, <3>2 DEF WholeOf
  <2>2. ASSUME NEW tx \in TxIds PROVE WholeOf(pendingTransactions'[tx], submitted')
    <3>1. CASE tx = e.tx
      BY <1>2, <2>1, <3>1
    <3>2. CASE tx # e.tx
      BY <1>2, <3>2, WholeDefinition, OthersStayWhole DEF OpenInv
    <3>. QED BY <3>1, <3>2
  <2>3. WholeOf(batch', submitted')
    BY <1>1 DEF WholeOf
  <2>. QED BY <2>2, <2>3, WholeDefinition
<1>6. NoBeginInv' /\ KindInv'
  BY <1>1, EmptyInOrder
     DEF NoBeginInv, KindInv, InLogOrder, OpensTransaction, Transactional
<1>. QED BY <1>3, <1>5, <1>6 DEF Parts

(* What goes into the buffer belongs to no buffered transaction. *)
LEMMA BufferParts ==
    ASSUME TransactionInv, NEW e \in Envelopes, Submissible(e), BufferEvent(e),
           submitted' = submitted \cup {e}, batch = <<>>
    PROVE  Parts'
<1>. USE DEF TransactionInv, OrderInv, IInv
<1>1. /\ pendingTransactions' = pendingTransactions /\ batch' = <<>>
      /\ nonTxBuffer' = Append(nonTxBuffer, e)
      /\ ~OpensTransaction(e) /\ ~JoinsTransaction(e)
  BY DEF BufferEvent, delivery
<1>2. OpenInv'
  BY <1>1 DEF OpenInv
<1>3. WholeInv'
  <2>1. ASSUME NEW tx \in TxIds PROVE WholeOf(pendingTransactions'[tx], submitted')
    <3>1. pendingTransactions[tx] # <<>> => pendingTransactions[tx][1].tx # e.tx
      BY <1>1 DEF OpenInv, OpensTransaction, JoinsTransaction, Transactional
    <3>. QED BY <1>1, <3>1, WholeDefinition, OthersStayWhole
  <2>2. WholeOf(batch', submitted')
    BY <1>1 DEF WholeOf
  <2>. QED BY <2>1, <2>2, WholeDefinition
<1>4. NoBeginInv'
  BY <1>1, RangeAppend DEF TypeOK, NoBeginInv, OpensTransaction, Transactional
<1>5. KindInv'
  BY <1>1, EmptyInOrder DEF KindInv, InLogOrder
<1>. QED BY <1>2, <1>3, <1>4, <1>5 DEF Parts

(* An event that joins completes what was submitted of its transaction. *)
LEMMA JoinedIsWhole ==
    ASSUME TransactionInv, NEW e \in Envelopes, Submissible(e), JoinsTransaction(e),
           submitted' = submitted \cup {e}
    PROVE  LET s == Append(pendingTransactions[e.tx], e)
           IN  /\ WholeOf(s, submitted')
               /\ InLogOrder(s)
               /\ s # <<>> /\ OpensTransaction(s[1]) /\ s[1].tx = e.tx
               /\ Range(s) = Range(pendingTransactions[e.tx]) \cup {e}
<1>. DEFINE p == pendingTransactions[e.tx]
            s == Append(p, e)
<1>. USE DEF TransactionInv, OrderInv, IInv
<1>1. e.tx \in TxIds /\ BoundaryEnabled /\ p # <<>> /\ p \in Seq(Envelopes)
  BY DEF JoinsTransaction, Transactional, TypeOK
<1>2. s[1] = p[1] /\ s # <<>> /\ Range(s) = Range(p) \cup {e}
  BY <1>1, HeadOfAppend, RangeAppend
<1>3. p[1].type = "tx_begin" /\ p[1].tx = e.tx
  BY <1>1 DEF OpenInv
<1>4. Range(p) = OfTransaction(e.tx) /\ InLogOrder(p)
  BY <1>1, <1>3 DEF WholeInv, WholeTransaction
<1>5. InLogOrder(s)
  <2>1. \A x \in Range(p) : x.pos <= e.pos
    BY <1>4 DEF OfTransaction, Submissible
  <2>. QED BY <1>1, <1>4, <2>1, AppendInOrder
<1>6. {f \in submitted' : f.tx = e.tx} = Range(s)
  BY <1>2, <1>4 DEF OfTransaction
<1>7. WholeOf(s, submitted')
  BY <1>2, <1>3, <1>5, <1>6 DEF WholeOf
<1>8. OpensTransaction(s[1])
  BY <1>1, <1>2, <1>3 DEF OpensTransaction, Transactional
<1>. HIDE DEF p, s
<1>. QED BY <1>2, <1>3, <1>5, <1>7, <1>8 DEF p, s

LEMMA ExtendParts ==
    ASSUME TransactionInv, NEW e \in Envelopes, Submissible(e), ExtendTransaction(e),
           submitted' = submitted \cup {e}, batch = <<>>
    PROVE  Parts'
<1>. USE DEF TransactionInv, OrderInv, IInv
<1>1. /\ e.tx \in TxIds /\ BoundaryEnabled /\ e.type # "tx_commit"
      /\ pendingTransactions[e.tx] # <<>> /\ JoinsTransaction(e)
      /\ pendingTransactions' =
            [pendingTransactions EXCEPT ![e.tx] = Append(pendingTransactions[e.tx], e)]
      /\ nonTxBuffer' = nonTxBuffer /\ batch' = <<>>
  BY DEF ExtendTransaction, JoinsTransaction, Transactional, EndsBatch, delivery
<1>2. \A tx \in TxIds :
          pendingTransactions'[tx] = IF tx = e.tx THEN Append(pendingTransactions[e.tx], e)
                                     ELSE pendingTransactions[tx]
  BY <1>1 DEF TypeOK
<1>3. /\ WholeOf(Append(pendingTransactions[e.tx], e), submitted')
      /\ OpensTransaction(Append(pendingTransactions[e.tx], e)[1])
      /\ Append(pendingTransactions[e.tx], e)[1].tx = e.tx
      /\ Range(Append(pendingTransactions[e.tx], e))
            = Range(pendingTransactions[e.tx]) \cup {e}
  BY <1>1, JoinedIsWhole
<1>4. OpenInv'
  BY <1>1, <1>2, <1>3 DEF OpenInv, OpensTransaction
<1>5. WholeInv'
  <2>1. ASSUME NEW tx \in TxIds PROVE WholeOf(pendingTransactions'[tx], submitted')
    <3>1. CASE tx = e.tx
      BY <1>2, <1>3, <3>1 DEF WholeOf
    <3>2. CASE tx # e.tx
      BY <1>2, <3>2, WholeDefinition, OthersStayWhole DEF OpenInv
    <3>. QED BY <3>1, <3>2
  <2>2. WholeOf(batch', submitted')
    BY <1>1 DEF WholeOf
  <2>. QED BY <2>1, <2>2, WholeDefinition
<1>6. NoBeginInv' /\ KindInv'
  BY <1>1, EmptyInOrder
     DEF NoBeginInv, KindInv, InLogOrder, OpensTransaction, Transactional
<1>. QED BY <1>4, <1>5, <1>6 DEF Parts

LEMMA DeliverParts ==
    ASSUME TransactionInv, NEW t \in Callers, NEW e \in Envelopes, Submissible(e),
           DeliverTransaction(t, e), submitted' = submitted \cup {e}
    PROVE  Parts'
<1>. USE DEF TransactionInv, OrderInv, IInv
<1>1. /\ e.tx \in TxIds /\ JoinsTransaction(e)
      /\ pendingTransactions' = [pendingTransactions EXCEPT ![e.tx] = <<>>]
      /\ nonTxBuffer' = nonTxBuffer
      /\ batch' = Append(pendingTransactions[e.tx], e)
  BY DEF DeliverTransaction, JoinsTransaction, Transactional, StartDelivery
<1>2. \A tx \in TxIds :
          pendingTransactions'[tx] = IF tx = e.tx THEN <<>> ELSE pendingTransactions[tx]
  BY <1>1 DEF TypeOK
<1>3. /\ WholeOf(Append(pendingTransactions[e.tx], e), submitted')
      /\ InLogOrder(Append(pendingTransactions[e.tx], e))
      /\ OpensTransaction(Append(pendingTransactions[e.tx], e)[1])
  BY <1>1, JoinedIsWhole
<1>4. OpenInv'
  BY <1>2 DEF OpenInv
<1>5. WholeInv'
  <2>1. ASSUME NEW tx \in TxIds PROVE WholeOf(pendingTransactions'[tx], submitted')
    <3>1. CASE tx = e.tx
      BY <1>2, <1>3, <3>1 DEF WholeOf
    <3>2. CASE tx # e.tx
      BY <1>2, <3>2, WholeDefinition, OthersStayWhole DEF OpenInv
    <3>. QED BY <3>1, <3>2
  <2>2. WholeOf(batch', submitted')
    BY <1>1, <1>3
  <2>. QED BY <2>1, <2>2, WholeDefinition
<1>6. NoBeginInv' /\ KindInv'
  BY <1>1, <1>3 DEF NoBeginInv, KindInv, InLogOrder, OpensTransaction, Transactional
<1>. QED BY <1>4, <1>5, <1>6 DEF Parts

LEMMA SubmitParts ==
    ASSUME TransactionInv, NEW t \in Callers, NEW e \in Envelopes, Submissible(e),
           Submit(t, e)
    PROVE  Parts'
<1>1. submitted' = submitted \cup {e} /\ batch = <<>>
  BY DEF TransactionInv, OrderInv, IInv, LockInv, Submit
<1>. QED BY <1>1, OpenParts, BufferParts, ExtendParts, DeliverParts DEF Submit

(* The buffer, which is in log order and has no BEGIN, becomes the batch. *)
LEMMA TakeParts ==
    ASSUME TransactionInv, NEW t \in Threads, TakeBuffer(t), UNCHANGED history
    PROVE  Parts'
<1>. USE DEF TransactionInv, OrderInv, IInv
<1>1. /\ batch' = nonTxBuffer /\ nonTxBuffer' = <<>> /\ nonTxBuffer # <<>>
      /\ pendingTransactions' = pendingTransactions /\ submitted' = submitted
  BY DEF TakeBuffer, StartDelivery, history
<1>2. WholeOf(batch', submitted')
  <2>1. nonTxBuffer[1] \in Range(nonTxBuffer) /\ nonTxBuffer[1] \in Envelopes
    <3>1. Len(nonTxBuffer) \in Nat /\ Len(nonTxBuffer) >= 1
          /\ DOMAIN nonTxBuffer = 1..Len(nonTxBuffer)
      BY <1>1 DEF TypeOK
    <3>. QED BY <3>1 DEF Range, TypeOK
  <2>2. ~(nonTxBuffer[1].type = "tx_begin" /\ BoundaryEnabled)
    BY <2>1, EnvelopesAssumption DEF NoBeginInv, OpensTransaction, Transactional
  <2>. QED BY <1>1, <2>2 DEF WholeOf
<1>3. WholeInv'
  BY <1>1, <1>2, WholeDefinition
<1>4. OpenInv' /\ NoBeginInv'
  BY <1>1, RangeOfEmpty DEF OpenInv, NoBeginInv
<1>5. KindInv'
  BY <1>1 DEF KindInv, QueueInv, BufferInv, InLogOrder
<1>. QED BY <1>3, <1>4, <1>5 DEF Parts

(* All other steps keep the batch or drop it. *)
LEMMA OtherParts ==
    ASSUME TransactionInv, UNCHANGED <<buffers, submitted>>, batch' \in {batch, <<>>}
    PROVE  Parts'
<1>. USE DEF TransactionInv
<1>1. /\ pendingTransactions' = pendingTransactions /\ nonTxBuffer' = nonTxBuffer
      /\ submitted' = submitted
  BY DEF buffers
<1>2. WholeInv'
  <2>1. WholeOf(<<>>, submitted')
    BY DEF WholeOf
  <2>. QED BY <1>1, <2>1, WholeDefinition
<1>3. OpenInv' /\ NoBeginInv'
  BY <1>1 DEF OpenInv, NoBeginInv, OpensTransaction, Transactional
<1>4. KindInv'
  BY <1>1, EmptyInOrder DEF KindInv, InLogOrder, OpensTransaction, Transactional
<1>. QED BY <1>2, <1>3, <1>4 DEF Parts

-----------------------------------------------------------------------------
(* Nothing of a committed transaction is submitted after its COMMIT. *)
LEMMA SubmitKeepsCommits ==
    ASSUME TransactionInv, NEW t \in Callers, NEW e \in Envelopes, Submissible(e),
           Submit(t, e)
    PROVE  CommitNeverOvertakes'
<1>. USE DEF TransactionInv, OrderInv, IInv
<1>1. submitted' = submitted \cup {e} /\ received' = received /\ lost' = lost
  BY DEF Submit
<1>2. ASSUME NEW c \in received, c.type = "tx_commit", e.tx = c.tx PROVE FALSE
  <2>1. c \in submitted /\ c \in Envelopes /\ c.pos <= e.pos /\ c # e
    BY DEF QueueInv, OriginInv, OnItsWay, TypeOK, Submissible
  <2>2. e.pos < c.pos
    BY <1>2, <2>1, TransactionsAssumption
  <2>. QED BY <2>1, <2>2, EnvelopesAssumption
<1>. QED BY <1>1, <1>2 DEF CommitNeverOvertakes

(* A COMMIT in a batch has all of its transaction before it in that batch, *)
(* or it was delivered or given up before.                                 *)
LEMMA CommitBehind ==
    ASSUME TransactionInv, NEW c \in Range(batch), c.type = "tx_commit",
           NEW e \in submitted, e.tx = c.tx
    PROVE  e \in Range(batch) \cup received \cup lost
<1>. USE DEF TransactionInv, OrderInv, IInv
<1>1. c \in submitted /\ c \in Envelopes /\ c.tx \in TxIds
  BY EnvelopesAssumption DEF QueueInv, OriginInv, OnItsWay, TypeOK
<1>2. pendingTransactions[c.tx] = <<>>
  BY <1>1, CommittedNotPending
<1>3. e \notin Pending
  <2>. SUFFICES ASSUME NEW tx \in TxIds, e \in Range(pendingTransactions[tx]) PROVE FALSE
    BY DEF Pending
  <2>1. pendingTransactions[tx] # <<>>
    BY RangeOfEmpty
  <2>2. Range(pendingTransactions[tx]) = OfTransaction(tx)
    BY <2>1 DEF OpenInv, WholeInv, WholeTransaction
  <2>3. e.tx = tx
    BY <2>2 DEF OfTransaction
  <2>. QED BY <1>2, <2>1, <2>3
<1>4. CASE nonTxBuffer = <<>>
  BY <1>3, <1>4, RangeOfEmpty DEF NoEventLost
<1>5. CASE nonTxBuffer # <<>>
  <2>1. batch # <<>>
    BY RangeOfEmpty
  <2>2. batch[1].type = "tx_begin" /\ BoundaryEnabled
    BY <1>5, <2>1 DEF KindInv, OpensTransaction, Transactional
  <2>3. Range(batch) = OfTransaction(batch[1].tx)
    BY <2>1, <2>2 DEF WholeInv, WholeTransaction
  <2>. QED BY <2>3 DEF OfTransaction
<1>. QED BY <1>4, <1>5

LEMMA ReceiveKeepsCommits ==
    ASSUME TransactionInv, NEW n \in 0..Len(batch),
           received' = received \cup Range(SubSeq(batch, 1, n)),
           UNCHANGED <<submitted, lost>>
    PROVE  CommitNeverOvertakes'
<1>. USE DEF TransactionInv, OrderInv, IInv
<1>. SUFFICES ASSUME NEW c \in Range(SubSeq(batch, 1, n)), c.type = "tx_commit",
                     NEW e \in submitted, e.tx = c.tx
              PROVE  e \in received' \cup lost
  BY DEF CommitNeverOvertakes
<1>1. batch \in Seq(Envelopes) /\ InLogOrder(batch)
  BY DEF TypeOK, KindInv
<1>2. c \in Range(batch) /\ c \in Envelopes
  BY <1>1, RangeOfPrefix, RangeSubset
<1>3. CASE e = c
  BY <1>3
<1>4. CASE e # c
  <2>1. e.pos < c.pos
    BY <1>2, <1>4, TransactionsAssumption DEF TypeOK
  <2>2. CASE e \in Range(batch)
    BY <1>1, <2>1, <2>2, PrefixClosed
  <2>. QED BY <1>2, <2>2, CommitBehind
<1>. QED BY <1>3, <1>4

LEMMA NextTransactions == TransactionInv /\ [Next]_deliveryVars => TransactionInv'
<1>. SUFFICES ASSUME TransactionInv, [Next]_deliveryVars
              PROVE  Parts' /\ CommitNeverOvertakes'
  BY NextInOrder DEF TransactionInv, Parts
<1>1. ASSUME NEW t \in Callers, NEW e \in Envelopes, Submissible(e), Submit(t, e)
      PROVE  Parts' /\ CommitNeverOvertakes'
  BY <1>1, SubmitParts, SubmitKeepsCommits
<1>2. ASSUME NEW t \in Threads, TakeBuffer(t), UNCHANGED history
      PROVE  Parts' /\ CommitNeverOvertakes'
  BY <1>2, TakeParts DEF TransactionInv, CommitNeverOvertakes, history
<1>3. CASE DeliverOk
  <2>1. batch \in Seq(Envelopes)
    BY DEF TransactionInv, OrderInv, IInv, TypeOK
  <2>2. Len(batch) \in 0..Len(batch) /\ SubSeq(batch, 1, Len(batch)) = batch
    BY <2>1, WholeBatch
  <2>. QED BY <1>3, <2>2, ReceiveKeepsCommits, OtherParts DEF DeliverOk
<1>4. CASE DeliverRaises
  BY <1>4, ReceiveKeepsCommits, OtherParts DEF DeliverRaises
<1>5. ASSUME UNCHANGED <<buffers, submitted, received>>, batch' \in {batch, <<>>},
             lost \subseteq lost'
      PROVE  Parts' /\ CommitNeverOvertakes'
  BY <1>5, OtherParts DEF TransactionInv, CommitNeverOvertakes
<1>6. \/ Retry \/ GiveUp \/ Return \/ Start \/ Stop \/ UNCHANGED deliveryVars
      \/ \E e \in Envelopes : Confirm(e.pos)
      \/ \E l \in LoopThreads : LoopTop(l) \/ LoopSkip(l)
      => /\ UNCHANGED <<buffers, submitted, received>>
         /\ batch' \in {batch, <<>>}
         /\ lost \subseteq lost'
  BY DEF Retry, GiveUp, Return, Release, Start, Stop, Confirm, LoopTop, LoopSkip,
         deliveryVars, history, delivery
<1>7. \/ \E t \in Callers : Flush(t)
      \/ \E l \in LoopThreads : LoopFlush(l)
      => \E t \in Threads : TakeBuffer(t) /\ UNCHANGED history
  BY DEF Flush, LoopFlush, Threads
<1>. QED
  BY <1>1, <1>2, <1>3, <1>4, <1>5, <1>6, <1>7 DEF Next, Resolve, Advance

LEMMA TransactionInvariant == Spec => []TransactionInv
<1>1. Init => TransactionInv
  BY InitEstablishes, InitInOrder, InitTransactions DEF OrderInv, TransactionInv, Parts
<1>. QED BY <1>1, NextTransactions, PTL DEF Spec

(* A transaction that was buffered is handed to the consumer as one batch  *)
(* with all that was submitted of it, in log order (_submit_transactional),*)
(* also when it outgrows the cap.                                          *)
THEOREM TransactionsStayWhole == Spec => []TransactionsUndivided
<1>1. TransactionInv => TransactionsUndivided
  BY DEF TransactionInv, WholeInv, TransactionsUndivided
<1>. QED BY <1>1, TransactionInvariant, PTL

(* The consumer has no COMMIT without all that was submitted of its        *)
(* transaction, unless a batch was given up after stop(): whether it came  *)
(* as a transaction, behind the cap, without its BEGIN or in a batch that  *)
(* failed half-way.                                                        *)
THEOREM CommitsComeLast == Spec => []CommitNeverOvertakes
<1>1. TransactionInv => CommitNeverOvertakes
  BY DEF TransactionInv
<1>. QED BY <1>1, TransactionInvariant, PTL

-----------------------------------------------------------------------------
(***************************************************************************)
(* The statistics of the delivery manager add up.                          *)
(*                                                                         *)
(* The balance itself is kept by every step but GiveUp, which turns the    *)
(* length of a batch into members of a set.  So it has to be known that a  *)
(* batch holds no event twice and none that was given up before; and since *)
(* batches are made of the buffers, that no event is in two of the places  *)
(* an event can wait in.                                                   *)
(***************************************************************************)

Distinct(s) == \A i, j \in DOMAIN s : s[i] = s[j] => i = j

DistinctInv ==
    /\ \A tx \in TxIds : Distinct(pendingTransactions[tx])
    /\ Distinct(nonTxBuffer)
    /\ Distinct(batch)

(* An event waits in one place only; what was given up waits nowhere. *)
ApartInv ==
    /\ \A tx \in TxIds : \A e \in Range(pendingTransactions[tx]) : e.tx = tx
    /\ Pending \cap (Range(nonTxBuffer) \cup Range(batch) \cup lost) = {}
    /\ Range(nonTxBuffer) \cap (Range(batch) \cup lost) = {}
    /\ Range(batch) \cap lost = {}
    /\ lost \subseteq submitted

FiniteInv == IsFiniteSet(Waiting) /\ IsFiniteSet(lost)

StatsInv == OrderInv /\ DistinctInv /\ ApartInv /\ FiniteInv /\ StatsBalance

Balanced == DistinctInv /\ ApartInv /\ FiniteInv /\ StatsBalance

-----------------------------------------------------------------------------
(* A sequence without duplicates has as many elements as it is long.       *)
LEMMA RangeCardinality ==
    ASSUME NEW s \in Seq(Envelopes), Distinct(s)
    PROVE  IsFiniteSet(Range(s)) /\ Cardinality(Range(s)) = Len(s)
<1>1. Len(s) \in Nat /\ DOMAIN s = 1..Len(s) /\ s \in [1..Len(s) -> Range(s)]
  BY DEF Range
<1>2. s \in Injection(1..Len(s), Range(s))
  BY <1>1 DEF Injection, IsInjective, Distinct
<1>3. s \in Surjection(1..Len(s), Range(s))
  BY <1>1 DEF Surjection, Range
<1>4. IsFiniteSet(1..Len(s)) /\ Cardinality(1..Len(s)) = Len(s)
  BY <1>1, FS_Interval
<1>. QED BY <1>2, <1>3, <1>4, FS_Surjection

LEMMA DistinctAppend ==
    ASSUME NEW s \in Seq(Envelopes), Distinct(s), NEW e, e \notin Range(s)
    PROVE  Distinct(Append(s, e))
<1>1. /\ Len(s) \in Nat /\ DOMAIN s = 1..Len(s)
      /\ DOMAIN Append(s, e) = 1..Len(s) + 1
      /\ Append(s, e)[Len(s) + 1] = e
  OBVIOUS
<1>2. \A i \in 1..Len(s) : Append(s, e)[i] = s[i] /\ s[i] \in Range(s)
  BY <1>1 DEF Range
<1>3. \A i \in 1..Len(s) + 1 : i = Len(s) + 1 \/ i \in 1..Len(s)
  BY <1>1
<1>. QED BY <1>1, <1>2, <1>3 DEF Distinct

LEMMA DistinctEmpty == Distinct(<<>>)
BY DEF Distinct

LEMMA DistinctOne == \A e : Distinct(<<e>>)
BY DEF Distinct

(* The slots of one transaction, one slot more, and all of its slots less. *)
LEMMA WaitingSlots ==
    ASSUME TypeOK
    PROVE  \A tx \in TxIds, i \in Int :
               <<tx, i>> \in Waiting <=> i \in 1..Len(pendingTransactions[tx])
<1>1. \A tx \in TxIds : DOMAIN pendingTransactions[tx] = 1..Len(pendingTransactions[tx])
  BY DEF TypeOK
<1>. QED BY <1>1 DEF Waiting

LEMMA WaitingChange ==
    ASSUME TypeOK, NEW tx \in TxIds, NEW s \in Seq(Envelopes),
           pendingTransactions' = [pendingTransactions EXCEPT ![tx] = s]
    PROVE  Waiting' = (Waiting \ ({tx} \X DOMAIN pendingTransactions[tx]))
                          \cup ({tx} \X DOMAIN s)
<1>1. \A u \in TxIds : pendingTransactions'[u] = IF u = tx THEN s ELSE pendingTransactions[u]
  BY DEF TypeOK
<1>. QED BY <1>1 DEF Waiting

LEMMA OneMoreWaits ==
    ASSUME TypeOK, IsFiniteSet(Waiting), NEW tx \in TxIds, NEW e \in Envelopes,
           pendingTransactions' =
               [pendingTransactions EXCEPT ![tx] = Append(pendingTransactions[tx], e)]
    PROVE  /\ IsFiniteSet(Waiting')
           /\ Cardinality(Waiting') = Cardinality(Waiting) + 1
<1>. DEFINE p == pendingTransactions[tx]
<1>1. p \in Seq(Envelopes) /\ Append(p, e) \in Seq(Envelopes)
  BY DEF TypeOK
<1>2. /\ Len(p) \in Nat /\ DOMAIN p = 1..Len(p)
      /\ DOMAIN Append(p, e) = DOMAIN p \cup {Len(p) + 1}
      /\ Len(p) + 1 \notin DOMAIN p
  BY <1>1
<1>3. Waiting' = (Waiting \ ({tx} \X DOMAIN p)) \cup ({tx} \X DOMAIN Append(p, e))
  BY <1>1, WaitingChange
<1>4. {tx} \X DOMAIN p \subseteq Waiting
  BY DEF Waiting
<1>5. Waiting' = Waiting \cup {<<tx, Len(p) + 1>>}
  BY <1>2, <1>3, <1>4
<1>6. <<tx, Len(p) + 1>> \notin Waiting
  BY <1>2, WaitingSlots
<1>. QED BY <1>5, <1>6, FS_AddElement

LEMMA TransactionLeaves ==
    ASSUME TypeOK, IsFiniteSet(Waiting), NEW tx \in TxIds,
           pendingTransactions' = [pendingTransactions EXCEPT ![tx] = <<>>]
    PROVE  /\ IsFiniteSet(Waiting')
           /\ Cardinality(Waiting') = Cardinality(Waiting) - Len(pendingTransactions[tx])
<1>. DEFINE p == pendingTransactions[tx]
            own == {tx} \X DOMAIN p
<1>1. p \in Seq(Envelopes) /\ <<>> \in Seq(Envelopes) /\ DOMAIN <<>> = {}
  BY DEF TypeOK
<1>2. Len(p) \in Nat /\ DOMAIN p = 1..Len(p)
  BY <1>1
<1>3. Waiting' = Waiting \ own
  <2>1. \A u \in TxIds :
            DOMAIN pendingTransactions'[u] = IF u = tx THEN {} ELSE DOMAIN pendingTransactions[u]
    BY <1>1 DEF TypeOK
  <2>. QED BY <2>1 DEF Waiting
<1>4. own \subseteq Waiting
  BY DEF Waiting
<1>5. Cardinality(own) = Len(p)
  <2>1. IsFiniteSet(1..Len(p)) /\ Cardinality(1..Len(p)) = Len(p)
    BY <1>2, FS_Interval
  <2>2. IsFiniteSet({tx}) /\ Cardinality({tx}) = 1
    BY FS_Singleton
  <2>3. Cardinality(own) = Cardinality({tx}) * Cardinality(DOMAIN p)
    BY <1>2, <2>1, <2>2, FS_Product
  <2>. QED BY <1>2, <2>1, <2>2, <2>3
<1>6. Waiting \cap own = own
  BY <1>4
<1>7. IsFiniteSet(Waiting \ own)
      /\ Cardinality(Waiting \ own) = Cardinality(Waiting) - Cardinality(Waiting \cap own)
  BY FS_Difference
<1>. HIDE DEF own
<1>. QED BY <1>3, <1>5, <1>6, <1>7

-----------------------------------------------------------------------------
LEMMA InitBalanced == Init => Balanced
<1>. SUFFICES ASSUME Init PROVE Balanced
  OBVIOUS
<1>1. Waiting = {} /\ Pending = {}
  BY RangeOfEmpty DEF Init, Waiting, Pending
<1>2. IsFiniteSet({}) /\ Cardinality({}) = 0
  BY FS_EmptySet
<1>. QED
  BY <1>1, <1>2, DistinctEmpty, RangeOfEmpty
     DEF Init, Balanced, DistinctInv, ApartInv, FiniteInv, StatsBalance, InitialStats

-----------------------------------------------------------------------------
(* The events of the batch that are not counted as delivered. *)
Flight == IF stage = "acking" THEN 0 ELSE Len(batch)

LEMMA BalanceDefinition ==
    /\ StatsBalance <=> stats.submitted = stats.delivered + Cardinality(Waiting)
                            + Len(nonTxBuffer) + Flight + Cardinality(lost)
    /\ StatsBalance' <=> stats'.submitted = stats'.delivered + Cardinality(Waiting')
                            + Len(nonTxBuffer') + Flight' + Cardinality(lost')
BY DEF StatsBalance, Flight

LEMMA CountsAreNumbers ==
    ASSUME StatsInv
    PROVE  /\ Cardinality(Waiting) \in Nat /\ Cardinality(lost) \in Nat
           /\ Len(nonTxBuffer) \in Nat /\ Len(batch) \in Nat /\ Flight \in Nat
           /\ stats.submitted \in Nat /\ stats.delivered \in Nat
           /\ stats.submitted = stats.delivered + Cardinality(Waiting)
                                  + Len(nonTxBuffer) + Flight + Cardinality(lost)
BY FS_CardinalityType, BalanceDefinition
   DEF StatsInv, FiniteInv, OrderInv, IInv, TypeOK, DeliveryStats, Flight

(* A new event is nowhere yet, and what it needs to know of its id. *)
LEMMA NewEvent ==
    ASSUME StatsInv, NEW e \in Envelopes, Submissible(e)
    PROVE  e \notin Pending \cup Range(nonTxBuffer) \cup Range(batch) \cup lost
BY DEF StatsInv, OrderInv, QueueInv, OriginInv, OnItsWay, ApartInv, Submissible

LEMMA SubmittedCounted ==
    ASSUME TypeOK, stats' = [stats EXCEPT !.submitted = @ + 1]
    PROVE  /\ stats'.submitted = stats.submitted + 1
           /\ stats'.delivered = stats.delivered
BY DEF TypeOK, DeliveryStats

LEMMA OpenBalanced ==
    ASSUME StatsInv, NEW t \in Callers, NEW e \in Envelopes, Submissible(e),
           Submit(t, e), OpenTransaction(e)
    PROVE  Balanced'
<1>0. /\ Cardinality(Waiting) \in Nat /\ Cardinality(lost) \in Nat
      /\ Len(nonTxBuffer) \in Nat /\ Len(batch) \in Nat /\ Flight \in Nat
      /\ stats.submitted \in Nat /\ stats.delivered \in Nat
      /\ stats.submitted = stats.delivered + Cardinality(Waiting)
                             + Len(nonTxBuffer) + Flight + Cardinality(lost)
  BY CountsAreNumbers
<1>. USE DEF StatsInv, OrderInv, IInv
<1>1. /\ e.tx \in TxIds /\ pendingTransactions[e.tx] = <<>>
      /\ pendingTransactions' = [pendingTransactions EXCEPT ![e.tx] = <<e>>]
      /\ nonTxBuffer' = nonTxBuffer /\ UNCHANGED delivery
      /\ submitted' = submitted \cup {e} /\ lost' = lost
  BY FreshBegin DEF Submissible, Submit, OpenTransaction, OpensTransaction
<1>2. Append(pendingTransactions[e.tx], e) = <<e>>
  BY <1>1
<1>3. \A tx \in TxIds :
          pendingTransactions'[tx] = IF tx = e.tx THEN <<e>> ELSE pendingTransactions[tx]
  BY <1>1 DEF TypeOK
<1>4. DistinctInv'
  BY <1>1, <1>3, DistinctOne DEF DistinctInv, Distinct, delivery
<1>5. ApartInv'
  <2>1. Pending' \subseteq Pending \cup {e}
    BY <1>1, PendingAtMost, RangeOfOne
  <2>2. \A tx \in TxIds : \A x \in Range(pendingTransactions'[tx]) : x.tx = tx
    BY <1>3, RangeOfOne DEF ApartInv
  <2>. QED BY <1>1, <2>1, <2>2, NewEvent DEF ApartInv, delivery
<1>6. IsFiniteSet(Waiting') /\ Cardinality(Waiting') = Cardinality(Waiting) + 1
  BY <1>1, <1>2, OneMoreWaits DEF FiniteInv
<1>7. FiniteInv'
  BY <1>1, <1>6 DEF FiniteInv
<1>8. StatsBalance'
  <2>1. stats'.submitted = stats.submitted + 1 /\ stats'.delivered = stats.delivered
    BY SubmittedCounted DEF Submit
  <2>2. Flight' = Flight
    BY <1>1 DEF Flight, delivery
  <2>3. nonTxBuffer' = nonTxBuffer /\ lost' = lost
    BY <1>1
  <2>. DEFINE a == stats.submitted       a2 == stats'.submitted
              b == stats.delivered       b2 == stats'.delivered
              c == Cardinality(Waiting)  c2 == Cardinality(Waiting')
              d == Len(nonTxBuffer)      d2 == Len(nonTxBuffer')
              g == Flight                g2 == Flight'
              f == Cardinality(lost)     f2 == Cardinality(lost')
  <2>8. /\ a \in Nat /\ b \in Nat /\ c \in Nat /\ d \in Nat /\ g \in Nat /\ f \in Nat
        /\ a = b + c + d + g + f
    BY <1>0
  <2>9. a2 = a + 1 /\ b2 = b /\ c2 = c + 1 /\ d2 = d /\ g2 = g /\ f2 = f
    BY <1>6, <2>1, <2>2, <2>3
  <2>10. a2 = b2 + c2 + d2 + g2 + f2
    <3>. HIDE DEF a, b, c, d, g, f, a2, b2, c2, d2, g2, f2
    <3>. QED BY <2>8, <2>9
  <2>. QED BY <2>10, BalanceDefinition
<1>. QED BY <1>4, <1>5, <1>7, <1>8 DEF Balanced

LEMMA BufferBalanced ==
    ASSUME StatsInv, NEW t \in Callers, NEW e \in Envelopes, Submissible(e),
           Submit(t, e), BufferEvent(e)
    PROVE  Balanced'
<1>0. /\ Cardinality(Waiting) \in Nat /\ Cardinality(lost) \in Nat
      /\ Len(nonTxBuffer) \in Nat /\ Len(batch) \in Nat /\ Flight \in Nat
      /\ stats.submitted \in Nat /\ stats.delivered \in Nat
      /\ stats.submitted = stats.delivered + Cardinality(Waiting)
                             + Len(nonTxBuffer) + Flight + Cardinality(lost)
  BY CountsAreNumbers
<1>. USE DEF StatsInv, OrderInv, IInv
<1>1. /\ pendingTransactions' = pendingTransactions /\ UNCHANGED delivery
      /\ nonTxBuffer' = Append(nonTxBuffer, e)
      /\ submitted' = submitted \cup {e} /\ lost' = lost
  BY DEF Submit, BufferEvent
<1>2. /\ Range(nonTxBuffer') = Range(nonTxBuffer) \cup {e}
      /\ Len(nonTxBuffer') = Len(nonTxBuffer) + 1
  BY <1>1, RangeAppend DEF TypeOK
<1>3. DistinctInv'
  BY <1>1, DistinctAppend, NewEvent DEF DistinctInv, Distinct, delivery, TypeOK
<1>4. ApartInv'
  BY <1>1, <1>2, NewEvent DEF ApartInv, Pending, delivery
<1>5. FiniteInv' /\ Waiting' = Waiting
  BY <1>1 DEF FiniteInv, Waiting
<1>6. StatsBalance'
  <2>1. stats'.submitted = stats.submitted + 1 /\ stats'.delivered = stats.delivered
    BY SubmittedCounted DEF Submit
  <2>2. Flight' = Flight /\ lost' = lost
    BY <1>1 DEF Flight, delivery
  <2>. DEFINE a == stats.submitted       a2 == stats'.submitted
              b == stats.delivered       b2 == stats'.delivered
              c == Cardinality(Waiting)  c2 == Cardinality(Waiting')
              d == Len(nonTxBuffer)      d2 == Len(nonTxBuffer')
              g == Flight                g2 == Flight'
              f == Cardinality(lost)     f2 == Cardinality(lost')
  <2>8. /\ a \in Nat /\ b \in Nat /\ c \in Nat /\ d \in Nat /\ g \in Nat /\ f \in Nat
        /\ a = b + c + d + g + f
    BY <1>0
  <2>9. a2 = a + 1 /\ b2 = b /\ c2 = c /\ d2 = d + 1 /\ g2 = g /\ f2 = f
    BY <1>2, <1>5, <2>1, <2>2
  <2>10. a2 = b2 + c2 + d2 + g2 + f2
    <3>. HIDE DEF a, b, c, d, g, f, a2, b2, c2, d2, g2, f2
    <3>. QED BY <2>8, <2>9
  <2>. QED BY <2>10, BalanceDefinition
<1>. QED BY <1>3, <1>4, <1>5, <1>6 DEF Balanced

LEMMA ExtendBalanced ==
    ASSUME StatsInv, NEW t \in Callers, NEW e \in Envelopes, Submissible(e),
           Submit(t, e), ExtendTransaction(e)
    PROVE  Balanced'
<1>. DEFINE p == pendingTransactions[e.tx]
<1>0. /\ Cardinality(Waiting) \in Nat /\ Cardinality(lost) \in Nat
      /\ Len(nonTxBuffer) \in Nat /\ Len(batch) \in Nat /\ Flight \in Nat
      /\ stats.submitted \in Nat /\ stats.delivered \in Nat
      /\ stats.submitted = stats.delivered + Cardinality(Waiting)
                             + Len(nonTxBuffer) + Flight + Cardinality(lost)
  BY CountsAreNumbers
<1>. USE DEF StatsInv, OrderInv, IInv
<1>1. /\ e.tx \in TxIds /\ p \in Seq(Envelopes)
      /\ pendingTransactions' = [pendingTransactions EXCEPT ![e.tx] = Append(p, e)]
      /\ nonTxBuffer' = nonTxBuffer /\ UNCHANGED delivery
      /\ submitted' = submitted \cup {e} /\ lost' = lost
  BY DEF Submit, ExtendTransaction, JoinsTransaction, Transactional, TypeOK
<1>2. \A tx \in TxIds :
          pendingTransactions'[tx] = IF tx = e.tx THEN Append(p, e)
                                     ELSE pendingTransactions[tx]
  BY <1>1 DEF TypeOK
<1>3. Range(Append(p, e)) = Range(p) \cup {e}
  BY <1>1, RangeAppend
<1>4. DistinctInv'
  <2>1. e \notin Range(p)
    BY <1>1, NewEvent DEF Pending
  <2>2. Distinct(p)
    BY <1>1 DEF DistinctInv
  <2>3. Distinct(Append(p, e))
    BY <1>1, <2>1, <2>2, DistinctAppend
  <2>4. \A tx \in TxIds : Distinct(pendingTransactions'[tx])
    BY <1>2, <2>3 DEF DistinctInv
  <2>. QED BY <1>1, <2>4 DEF DistinctInv, Distinct, delivery
<1>5. ApartInv'
  <2>1. Pending' \subseteq Pending \cup {e}
    BY <1>1, <1>3, PendingAtMost DEF Pending
  <2>2. \A tx \in TxIds : \A x \in Range(pendingTransactions'[tx]) : x.tx = tx
    BY <1>2, <1>3 DEF ApartInv
  <2>. QED BY <1>1, <2>1, <2>2, NewEvent DEF ApartInv, delivery
<1>6. IsFiniteSet(Waiting') /\ Cardinality(Waiting') = Cardinality(Waiting) + 1
  BY <1>1, OneMoreWaits DEF FiniteInv
<1>7. FiniteInv'
  BY <1>1, <1>6 DEF FiniteInv
<1>8. StatsBalance'
  <2>1. stats'.submitted = stats.submitted + 1 /\ stats'.delivered = stats.delivered
    BY SubmittedCounted DEF Submit
  <2>2. Flight' = Flight
    BY <1>1 DEF Flight, delivery
  <2>3. nonTxBuffer' = nonTxBuffer /\ lost' = lost
    BY <1>1
  <2>. DEFINE a == stats.submitted       a2 == stats'.submitted
              b == stats.delivered       b2 == stats'.delivered
              c == Cardinality(Waiting)  c2 == Cardinality(Waiting')
              d == Len(nonTxBuffer)      d2 == Len(nonTxBuffer')
              g == Flight                g2 == Flight'
              f == Cardinality(lost)     f2 == Cardinality(lost')
  <2>8. /\ a \in Nat /\ b \in Nat /\ c \in Nat /\ d \in Nat /\ g \in Nat /\ f \in Nat
        /\ a = b + c + d + g + f
    BY <1>0
  <2>9. a2 = a + 1 /\ b2 = b /\ c2 = c + 1 /\ d2 = d /\ g2 = g /\ f2 = f
    BY <1>6, <2>1, <2>2, <2>3
  <2>10. a2 = b2 + c2 + d2 + g2 + f2
    <3>. HIDE DEF a, b, c, d, g, f, a2, b2, c2, d2, g2, f2
    <3>. QED BY <2>8, <2>9
  <2>. QED BY <2>10, BalanceDefinition
<1>. QED BY <1>4, <1>5, <1>7, <1>8 DEF Balanced

LEMMA DeliverBalanced ==
    ASSUME StatsInv, NEW t \in Callers, NEW e \in Envelopes, Submissible(e),
           Submit(t, e), DeliverTransaction(t, e)
    PROVE  Balanced'
<1>. DEFINE p == pendingTransactions[e.tx]
<1>0. /\ Cardinality(Waiting) \in Nat /\ Cardinality(lost) \in Nat
      /\ Len(nonTxBuffer) \in Nat /\ Len(batch) \in Nat /\ Flight \in Nat
      /\ stats.submitted \in Nat /\ stats.delivered \in Nat
      /\ stats.submitted = stats.delivered + Cardinality(Waiting)
                             + Len(nonTxBuffer) + Flight + Cardinality(lost)
  BY CountsAreNumbers
<1>. USE DEF StatsInv, OrderInv, IInv
<1>1. /\ e.tx \in TxIds /\ p \in Seq(Envelopes)
      /\ pendingTransactions' = [pendingTransactions EXCEPT ![e.tx] = <<>>]
      /\ nonTxBuffer' = nonTxBuffer /\ batch' = Append(p, e)
      /\ stage' = "deliver" /\ batch = <<>> /\ stage = "idle"
      /\ submitted' = submitted \cup {e} /\ lost' = lost
  BY DEF Submit, DeliverTransaction, JoinsTransaction, Transactional, StartDelivery,
         LockInv, TypeOK
<1>2. \A tx \in TxIds :
          pendingTransactions'[tx] = IF tx = e.tx THEN <<>> ELSE pendingTransactions[tx]
  BY <1>1 DEF TypeOK
<1>3. Range(batch') = Range(p) \cup {e} /\ Len(batch') = Len(p) + 1
  BY <1>1, RangeAppend
<1>4. DistinctInv'
  <2>1. e \notin Range(p)
    BY <1>1, NewEvent DEF Pending
  <2>2. Distinct(p)
    BY <1>1 DEF DistinctInv
  <2>3. Distinct(batch')
    BY <1>1, <2>1, <2>2, DistinctAppend
  <2>4. \A tx \in TxIds : Distinct(pendingTransactions'[tx])
    BY <1>2, DistinctEmpty DEF DistinctInv
  <2>. QED BY <1>1, <2>3, <2>4 DEF DistinctInv, Distinct
<1>5. ApartInv'
  <2>1. \A tx \in TxIds : \A x \in Range(pendingTransactions'[tx]) :
            x.tx = tx /\ tx # e.tx /\ x \in Pending
    BY <1>2, RangeOfEmpty DEF ApartInv, Pending
  <2>2. Pending' \cap Range(p) = {} /\ Pending' \subseteq Pending
    <3>1. \A x \in Range(p) : x.tx = e.tx
      BY <1>1 DEF ApartInv
    <3>2. \A x \in Pending' : \E tx \in TxIds : x \in Range(pendingTransactions'[tx])
      BY DEF Pending
    <3>. HIDE DEF p
    <3>. QED BY <2>1, <3>1, <3>2
  <2>3. Range(p) \subseteq Pending
    BY <1>1 DEF Pending
  <2>. QED BY <1>1, <1>3, <2>1, <2>2, <2>3, NewEvent DEF ApartInv
<1>6. IsFiniteSet(Waiting') /\ Cardinality(Waiting') = Cardinality(Waiting) - Len(p)
  BY <1>1, TransactionLeaves DEF FiniteInv
<1>7. FiniteInv'
  BY <1>1, <1>6 DEF FiniteInv
<1>8. StatsBalance'
  <2>1. stats'.submitted = stats.submitted + 1 /\ stats'.delivered = stats.delivered
    BY SubmittedCounted DEF Submit
  <2>2. Flight = 0 /\ Len(p) \in Nat
    BY <1>1 DEF Flight
  <2>3. Flight' = Len(p) + 1
    BY <1>1, <1>3 DEF Flight
  <2>4. nonTxBuffer' = nonTxBuffer /\ lost' = lost
    BY <1>1
  <2>. DEFINE a == stats.submitted       a2 == stats'.submitted
              h == Len(p)
              b == stats.delivered       b2 == stats'.delivered
              c == Cardinality(Waiting)  c2 == Cardinality(Waiting')
              d == Len(nonTxBuffer)      d2 == Len(nonTxBuffer')
              g == Flight                g2 == Flight'
              f == Cardinality(lost)     f2 == Cardinality(lost')
  <2>8. /\ a \in Nat /\ b \in Nat /\ c \in Nat /\ d \in Nat /\ g \in Nat /\ f \in Nat
        /\ a = b + c + d + g + f
    BY <1>0
  <2>9. /\ a2 = a + 1 /\ b2 = b /\ c2 = c - h /\ d2 = d /\ g = 0 /\ g2 = h + 1 /\ f2 = f
        /\ h \in Nat
    BY <1>6, <2>1, <2>2, <2>3, <2>4
  <2>10. a2 = b2 + c2 + d2 + g2 + f2
    <3>. HIDE DEF h, a, b, c, d, g, f, a2, b2, c2, d2, g2, f2
    <3>. QED BY <2>8, <2>9
  <2>. QED BY <2>10, BalanceDefinition
<1>. QED BY <1>4, <1>5, <1>7, <1>8 DEF Balanced

-----------------------------------------------------------------------------
LEMMA TakeBalanced ==
    ASSUME StatsInv, NEW t \in Threads, owner = NoThread, TakeBuffer(t),
           UNCHANGED <<history, stats>>
    PROVE  Balanced'
<1>0. /\ Cardinality(Waiting) \in Nat /\ Cardinality(lost) \in Nat
      /\ Len(nonTxBuffer) \in Nat /\ Len(batch) \in Nat /\ Flight \in Nat
      /\ stats.submitted \in Nat /\ stats.delivered \in Nat
      /\ stats.submitted = stats.delivered + Cardinality(Waiting)
                             + Len(nonTxBuffer) + Flight + Cardinality(lost)
  BY CountsAreNumbers
<1>. USE DEF StatsInv, OrderInv, IInv
<1>1. /\ batch' = nonTxBuffer /\ nonTxBuffer' = <<>> /\ stage' = "deliver"
      /\ pendingTransactions' = pendingTransactions
      /\ submitted' = submitted /\ lost' = lost /\ stats' = stats
      /\ stage = "idle" /\ batch = <<>>
  BY DEF TakeBuffer, StartDelivery, history, LockInv
<1>2. DistinctInv'
  BY <1>1, DistinctEmpty DEF DistinctInv, Distinct
<1>3. ApartInv'
  BY <1>1, RangeOfEmpty DEF ApartInv, Pending
<1>4. FiniteInv' /\ Waiting' = Waiting
  BY <1>1 DEF FiniteInv, Waiting
<1>5. StatsBalance'
  <2>1. Flight = 0 /\ Flight' = Len(nonTxBuffer) /\ Len(nonTxBuffer') = 0
    BY <1>1 DEF Flight
  <2>2. lost' = lost /\ stats' = stats
    BY <1>1
  <2>. DEFINE a == stats.submitted       a2 == stats'.submitted
              b == stats.delivered       b2 == stats'.delivered
              c == Cardinality(Waiting)  c2 == Cardinality(Waiting')
              d == Len(nonTxBuffer)      d2 == Len(nonTxBuffer')
              g == Flight                g2 == Flight'
              f == Cardinality(lost)     f2 == Cardinality(lost')
  <2>8. /\ a \in Nat /\ b \in Nat /\ c \in Nat /\ d \in Nat /\ g \in Nat /\ f \in Nat
        /\ a = b + c + d + g + f
    BY <1>0
  <2>9. a2 = a /\ b2 = b /\ c2 = c /\ d2 = 0 /\ g = 0 /\ g2 = d /\ f2 = f
    BY <1>4, <2>1, <2>2
  <2>10. a2 = b2 + c2 + d2 + g2 + f2
    <3>. HIDE DEF a, b, c, d, g, f, a2, b2, c2, d2, g2, f2
    <3>. QED BY <2>8, <2>9
  <2>. QED BY <2>10, BalanceDefinition
<1>. QED BY <1>2, <1>3, <1>4, <1>5 DEF Balanced

(* The events of a failed batch are counted once more, as lost. *)
LEMMA GiveUpBalanced ==
    ASSUME StatsInv, GiveUp
    PROVE  Balanced'
<1>0. /\ Cardinality(Waiting) \in Nat /\ Cardinality(lost) \in Nat
      /\ Len(nonTxBuffer) \in Nat /\ Len(batch) \in Nat /\ Flight \in Nat
      /\ stats.submitted \in Nat /\ stats.delivered \in Nat
      /\ stats.submitted = stats.delivered + Cardinality(Waiting)
                             + Len(nonTxBuffer) + Flight + Cardinality(lost)
  BY CountsAreNumbers
<1>. USE DEF StatsInv, OrderInv, IInv
<1>1. /\ UNCHANGED buffers /\ submitted' = submitted /\ lost' = lost \cup Range(batch)
      /\ batch' = <<>> /\ stage = "backoff" /\ stage' = "idle"
      /\ stats'.submitted = stats.submitted /\ stats'.delivered = stats.delivered
  BY DEF GiveUp, Release, TypeOK, DeliveryStats
<1>2. IsFiniteSet(Range(batch)) /\ Cardinality(Range(batch)) = Len(batch)
  BY RangeCardinality DEF DistinctInv, TypeOK
<1>3. IsFiniteSet(lost') /\ Cardinality(lost') = Cardinality(lost) + Len(batch)
  <2>1. lost \cap Range(batch) = {}
    BY DEF ApartInv
  <2>2. Cardinality(lost \cap Range(batch)) = 0
    BY <2>1, FS_EmptySet
  <2>3. IsFiniteSet(lost)
    BY DEF FiniteInv
  <2>4. /\ IsFiniteSet(lost \cup Range(batch))
        /\ Cardinality(lost \cup Range(batch)) =
              Cardinality(lost) + Cardinality(Range(batch)) - Cardinality(lost \cap Range(batch))
    BY <1>2, <2>3, FS_Union
  <2>. QED BY <1>0, <1>1, <1>2, <2>2, <2>4
<1>4. DistinctInv'
  BY <1>1, DistinctEmpty DEF DistinctInv, Distinct, buffers
<1>5. ApartInv'
  BY <1>1, RangeOfEmpty
     DEF ApartInv, Pending, buffers, QueueInv, OriginInv, OnItsWay
<1>6. FiniteInv' /\ Waiting' = Waiting
  BY <1>1, <1>3 DEF FiniteInv, Waiting, buffers
<1>7. StatsBalance'
  <2>1. Flight = Len(batch) /\ Flight' = 0 /\ nonTxBuffer' = nonTxBuffer
    BY <1>1 DEF Flight, buffers
  <2>2. stats'.submitted = stats.submitted /\ stats'.delivered = stats.delivered
    BY <1>1
  <2>. DEFINE a == stats.submitted       a2 == stats'.submitted
              b == stats.delivered       b2 == stats'.delivered
              c == Cardinality(Waiting)  c2 == Cardinality(Waiting')
              d == Len(nonTxBuffer)      d2 == Len(nonTxBuffer')
              g == Flight                g2 == Flight'
              f == Cardinality(lost)     f2 == Cardinality(lost')
  <2>8. /\ a \in Nat /\ b \in Nat /\ c \in Nat /\ d \in Nat /\ g \in Nat /\ f \in Nat
        /\ a = b + c + d + g + f
    BY <1>0
  <2>9. a2 = a /\ b2 = b /\ c2 = c /\ d2 = d /\ g2 = 0 /\ f2 = f + g
    BY <1>3, <1>6, <2>1, <2>2
  <2>10. a2 = b2 + c2 + d2 + g2 + f2
    <3>. HIDE DEF a, b, c, d, g, f, a2, b2, c2, d2, g2, f2
    <3>. QED BY <2>8, <2>9
  <2>. QED BY <2>10, BalanceDefinition
<1>. QED BY <1>4, <1>5, <1>6, <1>7 DEF Balanced

(* A batch is counted as delivered when it is no longer counted as on its  *)
(* way, and dropped later.                                                 *)
LEMMA DeliveryBalanced ==
    ASSUME StatsInv, TypeOK', UNCHANGED <<buffers, submitted, lost>>,
           batch' \in {batch, <<>>},
           stats'.submitted = stats.submitted,
           stats'.delivered + Flight' = stats.delivered + Flight
    PROVE  Balanced'
<1>1. DistinctInv'
  BY DistinctEmpty DEF StatsInv, DistinctInv, Distinct, buffers
<1>2. ApartInv'
  BY RangeOfEmpty DEF StatsInv, ApartInv, Pending, buffers
<1>3. FiniteInv' /\ Waiting' = Waiting
  BY DEF StatsInv, FiniteInv, Waiting, buffers
<1>4. StatsBalance'
  <2>1. stats'.submitted \in Nat /\ stats'.delivered \in Nat /\ Flight' \in Nat
    BY DEF TypeOK, DeliveryStats, Flight
  <2>2. nonTxBuffer' = nonTxBuffer /\ lost' = lost
    BY DEF buffers
  <2>. DEFINE a == stats.submitted       a2 == stats'.submitted
              b == stats.delivered       b2 == stats'.delivered
              c == Cardinality(Waiting)  c2 == Cardinality(Waiting')
              d == Len(nonTxBuffer)      d2 == Len(nonTxBuffer')
              g == Flight                g2 == Flight'
              f == Cardinality(lost)     f2 == Cardinality(lost')
  <2>8. /\ a \in Nat /\ b \in Nat /\ c \in Nat /\ d \in Nat /\ g \in Nat /\ f \in Nat
        /\ a = b + c + d + g + f
    BY CountsAreNumbers
  <2>9. /\ a2 = a /\ b2 + g2 = b + g /\ c2 = c /\ d2 = d /\ f2 = f
        /\ b2 \in Nat /\ g2 \in Nat
    BY <1>3, <2>1, <2>2
  <2>10. a2 = b2 + c2 + d2 + g2 + f2
    <3>. HIDE DEF a, b, c, d, g, f, a2, b2, c2, d2, g2, f2
    <3>. QED BY <2>8, <2>9
  <2>. QED BY <2>10, BalanceDefinition
<1>. QED BY <1>1, <1>2, <1>3, <1>4 DEF Balanced

-----------------------------------------------------------------------------
LEMMA NextBalanced ==
    ASSUME StatsInv, OrderInv', [Next]_deliveryVars
    PROVE  StatsInv'
<1>. SUFFICES Balanced'
  BY DEF Balanced, StatsInv
<1>0. TypeOK /\ TypeOK' /\ LockInv
  BY DEF StatsInv, OrderInv, IInv
<1>1. ASSUME UNCHANGED <<buffers, submitted, lost>>, batch' \in {batch, <<>>},
              stats'.submitted = stats.submitted,
              stats'.delivered + Flight' = stats.delivered + Flight
       PROVE  Balanced'
  BY <1>0, <1>1, DeliveryBalanced
<1>2. ASSUME UNCHANGED <<buffers, submitted, lost, batch>>, Flight' = Flight,
              stats'.submitted = stats.submitted, stats'.delivered = stats.delivered
       PROVE  Balanced'
  <2>1. stats'.delivered + Flight' = stats.delivered + Flight
    BY <1>2
  <2>. QED BY <2>1, <1>2, <1>1
<1>3. ASSUME NEW t \in Callers, NEW e \in Envelopes, Submissible(e), Submit(t, e)
      PROVE  Balanced'
  BY <1>3, OpenBalanced, BufferBalanced, ExtendBalanced, DeliverBalanced DEF Submit
<1>4. ASSUME NEW t \in Callers, Flush(t) PROVE Balanced'
  BY <1>4, TakeBalanced DEF Flush, Threads
<1>5. ASSUME NEW l \in LoopThreads, LoopFlush(l) PROVE Balanced'
  BY <1>5, TakeBalanced DEF LoopFlush, Threads
<1>6. CASE GiveUp
  BY <1>6, GiveUpBalanced
<1>7. CASE DeliverOk
  <2>1. UNCHANGED <<buffers, submitted, lost, batch, stats>> /\ Flight' = Flight
    BY <1>7 DEF DeliverOk, Flight
  <2>. QED BY <1>0, <2>1, <1>2
<1>8. CASE DeliverRaises
  <2>1. /\ stats'.submitted = stats.submitted /\ stats'.delivered = stats.delivered
        /\ UNCHANGED <<buffers, submitted, lost, batch>> /\ Flight' = Flight
    BY <1>0, <1>8 DEF DeliverRaises, Flight, TypeOK, DeliveryStats
  <2>. QED BY <1>0, <2>1, <1>2
<1>9. CASE Retry
  <2>1. UNCHANGED <<buffers, submitted, lost, batch, stats>> /\ Flight' = Flight
    BY <1>9 DEF Retry, Flight, history
  <2>. QED BY <1>0, <2>1, <1>2
<1>10. ASSUME NEW e \in Envelopes, Confirm(e.pos) PROVE Balanced'
  <2>1. /\ UNCHANGED <<buffers, submitted, lost, batch>>
        /\ stats'.submitted = stats.submitted
        /\ stats'.delivered = stats.delivered + Len(batch)
        /\ Flight = Len(batch) /\ Flight' = 0
    BY <1>0, <1>10 DEF Confirm, Flight, history, TypeOK, DeliveryStats
  <2>2. stats.delivered \in Nat /\ Len(batch) \in Nat
    BY <1>0 DEF TypeOK, DeliveryStats
  <2>3. stats'.delivered + Flight' = stats.delivered + Flight
    BY <2>1, <2>2
  <2>. QED BY <1>0, <2>1, <2>3, <1>1
<1>11. CASE Return
  <2>1. /\ UNCHANGED <<buffers, submitted, lost, stats>> /\ batch' = <<>>
        /\ Flight = 0 /\ Flight' = 0
    BY <1>11 DEF Return, Release, Flight, history
  <2>. QED BY <1>0, <2>1, <1>1
<1>12. CASE UNCHANGED <<buffers, delivery, history, stats>>
  <2>1. UNCHANGED <<buffers, submitted, lost, batch, stats>> /\ Flight' = Flight
    BY <1>12 DEF delivery, history, Flight
  <2>. QED BY <1>0, <2>1, <1>2
<1>. QED
  BY <1>3, <1>4, <1>5, <1>6, <1>7, <1>8, <1>9, <1>10, <1>11, <1>12
     DEF Next, Resolve, Advance, Start, Stop, LoopTop, LoopSkip, deliveryVars

(* The metrics of the delivery manager add up in every state: an event     *)
(* that was submitted is counted once as delivered, buffered, on its way   *)
(* or given up, whichever thread delivers it, through all retries, capped  *)
(* transactions and batches lost after stop().                             *)
THEOREM StatisticsBalance == Spec => []StatsBalance
<1>1. Init => StatsInv
  BY InitEstablishes, InitInOrder, InitBalanced DEF OrderInv, Balanced, StatsInv
<1>2. StatsInv /\ [Next]_deliveryVars => StatsInv'
  <2>1. StatsInv => OrderInv
    BY DEF StatsInv
  <2>. QED BY <2>1, NextInOrder, NextBalanced
<1>3. StatsInv => StatsBalance
  BY DEF StatsInv
<1>. QED BY <1>1, <1>2, <1>3, PTL DEF Spec
=============================================================================
